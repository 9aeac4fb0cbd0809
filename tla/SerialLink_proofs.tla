------------------------- MODULE SerialLink_proofs --------------------------
(***************************************************************************)
(* Proofs about SerialLink, for rings and lists of any size and any stream *)
(* of the microcontroller: frames leave the unlocked ring once each and in *)
(* the order in which they were put, as long as senders do not overlap;    *)
(* and the frames heard are those sent intact, in order and none left out, *)
(* however the blocks cut them and whatever lies between them.             *)
(***************************************************************************)
EXTENDS SerialLink, SequenceTheorems, FiniteSetTheorems, WellFoundedInduction, TLAPS

Sender == {"app", "link"}
AnyFrame == {<<"app", n>> : n \in Nat} \cup Ack \cup {NoFrame}

\* What a sender means to send.
Meant(t) == IF t = "app" THEN <<"app", sent>> ELSE Sends("link")

Types ==
    /\ w \in Nat /\ r \in Nat /\ sent \in Nat
    /\ cells \in [0 .. Cells - 1 -> AnyFrame] /\ at \in [Sender -> Nat]
    /\ tx_buf \in AnyFrame /\ wait \in Seq(AnyFrame)
    /\ block \in Seq(AnyFrame) /\ out \in Seq(AnyFrame) /\ accepted \in Seq(AnyFrame)

\* One sender at a time; the application's frame is in tx_buf meanwhile.
Single ==
    /\ ~(Producing("app") /\ Producing("link"))
    /\ Producing("app") => tx_buf = <<"app", sent>>

\* The frame of the list that is being sent is there.
SendingNode == job = "tx" /\ pc.link \in {"check", "put", "bump", "notify", "unlist"}
Listed == SendingNode => wait # <<>>

\* The indices; a sender writes to a free cell, and what it wrote is there.
Indices == r <= w /\ w <= r + Cells
Writing ==
    \A t \in Sender :
        /\ pc[t] \in {"put", "bump"} => at[t] = w /\ w < r + Cells
        /\ pc[t] = "bump" => cells[Slot(w)] = Meant(t)

\* The frames that went out, are in the ring, and are in the block.
InOrder ==
    /\ Len(accepted) = w /\ Len(out) = r
    /\ \A i \in 1 .. r : out[i] = accepted[i]
    /\ \A i \in Nat : r <= i /\ i < w => cells[Slot(i)] = accepted[i + 1]
InBlock ==
    pc.spi = "taken" =>
        /\ Len(block) <= w - r
        /\ \A j \in 1 .. Len(block) : block[j] = accepted[r + j]

Ring == Types /\ Single /\ Listed /\ Indices /\ Writing /\ InOrder /\ InBlock

Places == pc = [t \in Thread |-> pc[t]]
Reading ==
    /\ pc.link \in {"read", "parse"} => job # "tx"
    /\ pc.link = "unlist" => job = "tx"

\* Little is known once senders have overlapped.
IInv ==
    /\ Places /\ Reading
    /\ "overlap" \notin cause => Ring

-----------------------------------------------------------------------------
(* Data. *)

LEMMA SlotInRing == \A i \in Nat : Slot(i) \in 0 .. Cells - 1
  BY LinkAssumption DEF Slot

\* Fewer than Cells indices in a row have different cells.
LEMMA SlotsDiffer ==
  ASSUME NEW a \in Nat, NEW b \in Nat, a < b, b < a + Cells
  PROVE  Slot(a) # Slot(b)
<1> DEFINE p == a \div Cells
           q == b \div Cells
<1>0. Cells \in Nat /\ Cells > 0
  BY LinkAssumption
<1>1. SUFFICES ASSUME a % Cells = b % Cells PROVE FALSE
  BY DEF Slot
<1>2. a = Cells * p + (a % Cells) /\ b = Cells * q + (b % Cells) /\ p \in Int /\ q \in Int
  BY <1>0
<1> HIDE DEF p, q
<1>3. b - a = Cells * (q - p)
  BY <1>1, <1>2, <1>0
<1>4. CASE q - p <= 0
  <2>1. Cells * (q - p) <= 0
    BY <1>4, <1>2, <1>0
  <2> QED BY <2>1, <1>3
<1>5. CASE q - p >= 1
  <2>1. Cells * (q - p) >= Cells
    BY <1>5, <1>2, <1>0
  <2> QED BY <2>1, <1>3, <1>0
<1> QED BY <1>4, <1>5, <1>2

LEMMA SmallerOfTwo ==
  ASSUME NEW a \in Int, NEW b \in Int
  PROVE  Min({a, b}) \in Int /\ Min({a, b}) <= a /\ Min({a, b}) <= b
<1>1. CASE a <= b
  <2>1. \A y \in {a, b} : a <= y
    BY <1>1
  <2> QED BY <2>1 DEF Min
<1>2. CASE ~(a <= b)
  <2>1. \A y \in {a, b} : b <= y
    BY <1>2
  <2> QED BY <2>1 DEF Min
<1> QED BY <1>1, <1>2

LEMMA RingRead ==
  ASSUME Types, Indices
  PROVE  /\ InRing \in Seq(AnyFrame) /\ Len(InRing) = w - r
         /\ \A i \in 1 .. w - r : InRing[i] = cells[Slot(r + i - 1)]
<1>1. \A i \in 1 .. w - r : Slot(r + i - 1) \in 0 .. Cells - 1
  <2> SUFFICES ASSUME NEW i \in 1 .. w - r PROVE Slot(r + i - 1) \in 0 .. Cells - 1
    OBVIOUS
  <2>1. r + i - 1 \in Nat
    BY DEF Types, Indices
  <2> QED BY <2>1, SlotInRing
<1>2. \A i \in 1 .. w - r : cells[Slot(r + i - 1)] \in AnyFrame
  BY <1>1 DEF Types
<1>3. w - r \in Nat
  BY DEF Types, Indices
<1>4. InRing \in [1 .. w - r -> AnyFrame]
  BY <1>2 DEF InRing
<1> QED BY <1>3, <1>4 DEF InRing

-----------------------------------------------------------------------------
(* Steps. *)

LEMMA InitRing == Init => IInv
<1> SUFFICES ASSUME Init PROVE IInv
  OBVIOUS
<1>1. Places /\ Reading
  BY DEF Init, Places, Reading, Thread
<1>2. Types
  <2>1. NoFrame \in AnyFrame /\ 0 \in Nat
    BY DEF AnyFrame
  <2>2. cells \in [0 .. Cells - 1 -> AnyFrame] /\ at \in [Sender -> Nat]
    BY <2>1 DEF Init, Sender
  <2>3. block \in Seq(AnyFrame) /\ out \in Seq(AnyFrame) /\ accepted \in Seq(AnyFrame) /\ wait \in Seq(AnyFrame)
    BY DEF Init
  <2> QED BY <2>1, <2>2, <2>3 DEF Init, Types
<1>3. Single /\ Listed
  BY DEF Init, Single, Producing, Listed, SendingNode
<1>4. Indices /\ Writing /\ InOrder /\ InBlock
  BY LinkAssumption DEF Init, Indices, Writing, InOrder, InBlock, Sender
<1> QED BY <1>1, <1>2, <1>3, <1>4 DEF IInv, Ring

\* What the ring consists of, and what senders have in hand, but for pc.
ringVars == <<w, r, at, cells, accepted, out, block, sent, tx_buf, wait>>

\* A step that touches none of it and begins no sending.
LEMMA QuietStep ==
  ASSUME IInv, UNCHANGED ringVars, Places', Reading',
         "overlap" \notin cause' => "overlap" \notin cause,
         \A t \in Sender : pc'[t] = pc[t] \/ pc'[t] \notin {"check", "put", "bump", "list"},
         SendingNode' => SendingNode,
         pc'.spi = "taken" => pc.spi = "taken",
         pc'.link \in {"put", "bump"} => job' = job
  PROVE  IInv'
<1> SUFFICES ASSUME "overlap" \notin cause' PROVE Ring'
  BY DEF IInv
<1>1. Ring
  BY DEF IInv
<1>2. Types'
  BY <1>1 DEF Ring, Types, ringVars
<1>3. Single'
  BY <1>1 DEF Ring, Single, Producing, ringVars, Sender
<1>4. Listed'
  BY <1>1 DEF Ring, Listed, ringVars
<1>5. Indices' /\ InOrder'
  BY <1>1 DEF Ring, Indices, InOrder, ringVars, Slot
<1>6. Writing'
  BY <1>1 DEF Ring, Writing, Meant, Sends, ringVars, Slot, Sender
<1>7. InBlock'
  BY <1>1 DEF Ring, InBlock, ringVars
<1> QED BY <1>2, <1>3, <1>4, <1>5, <1>6, <1>7 DEF Ring

LEMMA StartSendKeeps == IInv /\ StartSend => IInv'
<1> SUFFICES ASSUME IInv, StartSend PROVE IInv'
  OBVIOUS
<1>1. pc' = [pc EXCEPT !["app"] = "check"] /\ job' = job /\ pc.app = "idle"
  BY DEF StartSend, Goto, In
<1>2. Places' /\ Reading'
  BY <1>1 DEF IInv, Places, Reading, Thread
<1> SUFFICES ASSUME "overlap" \notin cause' PROVE Ring'
  BY <1>2 DEF IInv
<1>3. Ring /\ ~Producing("link")
  BY DEF IInv, StartSend, Overlap, Other
<1>4. Types'
  <2>1. tx_buf' \in AnyFrame /\ sent' \in Nat
    BY <1>3 DEF Ring, Types, StartSend, AnyFrame
  <2> QED BY <2>1, <1>3 DEF Ring, Types, StartSend, listVars, spiVars
<1>5. Single'
  BY <1>1, <1>3 DEF Single, Producing, StartSend, IInv, Places, Thread
<1>6. Listed' /\ Indices' /\ InOrder' /\ InBlock'
  BY <1>1, <1>3 DEF Ring, Listed, SendingNode, Indices, InOrder, InBlock, StartSend, IInv, Places, Thread, listVars, spiVars, Slot
<1>7. Writing'
  BY <1>1, <1>3 DEF Ring, Writing, Producing, StartSend, IInv, Places, Thread, Sender
<1> QED BY <1>4, <1>5, <1>6, <1>7 DEF Ring

LEMMA FindRoomKeeps == ASSUME NEW t \in Sender, IInv, FindRoom(t) PROVE IInv'
<1>1. pc' = [pc EXCEPT ![t] = "put"] /\ job' = job /\ pc[t] = "check" /\ HasRoom
  BY DEF FindRoom, Goto, In, Sender
<1>2. Places' /\ Reading'
  BY <1>1 DEF IInv, Places, Reading, Thread, Sender
<1> SUFFICES ASSUME "overlap" \notin cause' PROVE Ring'
  BY <1>2 DEF IInv
<1>3. Ring
  BY DEF IInv, FindRoom
<1>4. Types'
  BY <1>3 DEF Ring, Types, FindRoom, listVars, spiVars
<1>5. Single' /\ Listed'
  BY <1>1, <1>3 DEF Ring, Single, Producing, Listed, SendingNode, FindRoom, listVars, IInv, Places, Thread, Sender
<1>6. Indices' /\ InOrder' /\ InBlock'
  BY <1>1, <1>3 DEF Ring, Indices, InOrder, InBlock, FindRoom, IInv, Places, Thread, Sender, spiVars, Slot
<1>7. Writing'
  <2>1. w < r + Cells
    <3>1. w \in Nat /\ r \in Nat
      BY <1>3 DEF Ring, Types
    <3>2. Cells \in Nat
      BY LinkAssumption
    <3>3. 1 <= Cells - (w - r)
      BY <1>1 DEF HasRoom
    <3> QED BY <3>1, <3>2, <3>3
  <2>2. at' = [at EXCEPT ![t] = w] /\ UNCHANGED <<w, r, cells>>
    BY DEF FindRoom
  <2>3. \A u \in Sender : u # t => pc'[u] \notin {"put", "bump"}
    BY <1>1, <1>3 DEF Ring, Single, Producing, IInv, Places, Thread, Sender
  <2>4. at'[t] = w /\ pc'[t] = "put"
    BY <1>1, <1>3, <2>2 DEF Ring, Types, IInv, Places, Thread, Sender
  <2> QED BY <2>1, <2>2, <2>3, <2>4 DEF Writing, Slot
<1> QED BY <1>4, <1>5, <1>6, <1>7 DEF Ring

LEMMA FindFullKeeps == ASSUME NEW t \in Sender, IInv, FindFull(t) PROVE IInv'
<1>1. /\ pc' = [pc EXCEPT ![t] = IF t = "app" THEN "list" ELSE IF job = "tx" THEN "ask" ELSE "parse"]
      /\ job' = job /\ pc[t] = "check"
  BY DEF FindFull, Goto, In, Sender
<1>2. Places' /\ Reading'
  BY <1>1 DEF IInv, Places, Reading, Thread, Sender
<1> SUFFICES ASSUME "overlap" \notin cause' PROVE Ring'
  BY <1>2 DEF IInv
<1>3. Ring
  BY DEF IInv, FindFull
<1>4. Types'
  BY <1>3 DEF Ring, Types, FindFull, txVars, listVars, spiVars
<1>5. Single' /\ Listed'
  BY <1>1, <1>3 DEF Ring, Single, Producing, Listed, SendingNode, FindFull, txVars, listVars, IInv, Places, Thread, Sender
<1>6. Indices' /\ InOrder' /\ InBlock'
  BY <1>1, <1>3 DEF Ring, Indices, InOrder, InBlock, FindFull, IInv, Places, Thread, Sender, txVars, spiVars, Slot
<1>7. Writing'
  BY <1>1, <1>3 DEF Ring, Writing, FindFull, IInv, Places, Thread, Sender, txVars, listVars, Slot, Meant, Sends
<1> QED BY <1>4, <1>5, <1>6, <1>7 DEF Ring

LEMMA PutFrameKeeps == ASSUME NEW t \in Sender, IInv, PutFrame(t) PROVE IInv'
<1>1. pc' = [pc EXCEPT ![t] = "bump"] /\ job' = job /\ pc[t] = "put"
  BY DEF PutFrame, Goto, In, Sender
<1>2. Places' /\ Reading'
  BY <1>1 DEF IInv, Places, Reading, Thread, Sender
<1> SUFFICES ASSUME "overlap" \notin cause' PROVE Ring'
  BY <1>2 DEF IInv
<1>3. Ring
  BY DEF IInv, PutFrame
<1>4. /\ UNCHANGED <<tx_buf, w, r, at, accepted, listVars, spiVars, sent>>
      /\ cells' = [cells EXCEPT ![Slot(at[t])] = Sends(t)]
  BY DEF PutFrame
<1>5. at[t] = w /\ w < r + Cells /\ w \in Nat /\ r \in Nat
  BY <1>1, <1>3 DEF Ring, Writing, Types
<1>6. Sends(t) = Meant(t) /\ Sends(t) \in AnyFrame
  <2>1. t = "link" /\ job = "tx" => wait # <<>>
    BY <1>1, <1>3 DEF Ring, Listed, SendingNode
  <2>2. t = "app" => tx_buf = <<"app", sent>>
    BY <1>1, <1>3 DEF Ring, Single, Producing
  <2>3. tx_buf \in AnyFrame /\ wait \in Seq(AnyFrame)
    BY <1>3 DEF Ring, Types
  <2>4. CASE t = "app"
    BY <2>2, <2>3, <2>4 DEF Sends, Meant
  <2>5. CASE t = "link"
    <3>1. job = "tx" => Head(wait) \in AnyFrame
      BY <2>1, <2>3, <2>5
    <3> QED BY <2>3, <2>5, <3>1 DEF Sends, Meant
  <2> QED BY <2>4, <2>5 DEF Sender
<1>7. cells'[Slot(w)] = Meant(t)
  BY <1>3, <1>4, <1>5, <1>6, SlotInRing DEF Ring, Types
<1>8. \A i \in Nat : r <= i /\ i < w => cells'[Slot(i)] = cells[Slot(i)]
  <2> SUFFICES ASSUME NEW i \in Nat, r <= i, i < w PROVE cells'[Slot(i)] = cells[Slot(i)]
    OBVIOUS
  <2>1. Slot(i) # Slot(w)
    BY <1>5, SlotsDiffer, LinkAssumption
  <2>2. Slot(i) \in 0 .. Cells - 1
    BY SlotInRing
  <2> QED BY <2>1, <2>2, <1>3, <1>4, <1>5 DEF Ring, Types
<1>9. Types'
  BY <1>3, <1>4, <1>5, <1>6, SlotInRing DEF Ring, Types, listVars, spiVars
<1>10. Single' /\ Listed'
  BY <1>1, <1>3, <1>4 DEF Ring, Single, Producing, Listed, SendingNode, listVars, IInv, Places, Thread, Sender
<1>11. Indices' /\ InOrder' /\ InBlock'
  BY <1>1, <1>3, <1>4, <1>8 DEF Ring, Indices, InOrder, InBlock, IInv, Places, Thread, Sender, spiVars, Slot
<1>12. Writing'
  <2>1. \A u \in Sender : u # t => pc'[u] \notin {"put", "bump"}
    BY <1>1, <1>3 DEF Ring, Single, Producing, IInv, Places, Thread, Sender
  <2>2. Meant(t)' = Meant(t)
    BY <1>1, <1>4 DEF Meant, Sends, listVars
  <2> QED BY <2>1, <2>2, <1>4, <1>5, <1>7 DEF Writing, Slot
<1> QED BY <1>9, <1>10, <1>11, <1>12 DEF Ring

LEMMA BumpIndexKeeps == ASSUME NEW t \in Sender, IInv, BumpIndex(t) PROVE IInv'
<1>1. pc' = [pc EXCEPT ![t] = "notify"] /\ job' = job /\ pc[t] = "bump"
  BY DEF BumpIndex, Goto, In, Sender
<1>2. Places' /\ Reading'
  BY <1>1 DEF IInv, Places, Reading, Thread, Sender
<1> SUFFICES ASSUME "overlap" \notin cause' PROVE Ring'
  BY <1>2 DEF IInv
<1>3. Ring
  BY DEF IInv, BumpIndex
<1>4. /\ UNCHANGED <<tx_buf, cells, r, listVars, spiVars, sent>>
      /\ accepted' = Append(accepted, Meant(t)) /\ at' = [at EXCEPT ![t] = 0]
  BY DEF BumpIndex, Meant, Sender
<1>5. /\ w' = w + 1 /\ w < r + Cells /\ cells[Slot(w)] = Meant(t)
      /\ w \in Nat /\ r \in Nat /\ Cells \in Nat
  BY <1>1, <1>3, LinkAssumption DEF Ring, Writing, Types, BumpIndex
<1>6. Meant(t) \in AnyFrame
  BY <1>3, <1>5, SlotInRing DEF Ring, Types
<1>7. /\ accepted' \in Seq(AnyFrame) /\ Len(accepted') = w + 1 /\ accepted'[w + 1] = Meant(t)
      /\ \A i \in 1 .. w : accepted'[i] = accepted[i]
  BY <1>3, <1>4, <1>6 DEF Ring, Types, InOrder
<1>8. Types'
  BY <1>3, <1>4, <1>5, <1>7 DEF Ring, Types, listVars, spiVars
<1>9. Single' /\ Listed' /\ Indices'
  BY <1>1, <1>3, <1>4, <1>5 DEF Ring, Single, Producing, Listed, SendingNode, Indices, listVars, IInv, Places, Thread, Sender
<1>10. Writing'
  BY <1>1, <1>3 DEF Ring, Single, Producing, Writing, IInv, Places, Thread, Sender
<1>11. InOrder'
  <2>1. \A i \in 1 .. r : out[i] = accepted'[i]
    BY <1>3, <1>5, <1>7 DEF Ring, InOrder, Indices
  <2>2. ASSUME NEW i \in Nat, r <= i, i < w + 1 PROVE cells[Slot(i)] = accepted'[i + 1]
    BY <2>2, <1>3, <1>5, <1>7 DEF Ring, InOrder
  <2> QED BY <2>1, <2>2, <1>3, <1>4, <1>5, <1>7 DEF Ring, InOrder, Slot, spiVars
<1>12. InBlock'
  <2>1. pc'.spi = pc.spi /\ UNCHANGED <<block, r>>
    BY <1>1, <1>4 DEF IInv, Places, Thread, Sender, spiVars
  <2>2. block \in Seq(AnyFrame)
    BY <1>3 DEF Ring, Types
  <2> SUFFICES ASSUME pc.spi = "taken" PROVE InBlock'
    BY <2>1 DEF InBlock
  <2>3. Len(block) \in Nat /\ Len(block) <= w - r /\ \A j \in 1 .. Len(block) : block[j] = accepted[r + j]
    BY <2>2, <1>3 DEF Ring, InBlock
  <2>4. \A j \in 1 .. Len(block) : accepted'[r + j] = accepted[r + j]
    BY <2>3, <1>5, <1>7
  <2> QED BY <2>1, <2>3, <2>4, <1>5 DEF InBlock
<1> QED BY <1>8, <1>9, <1>10, <1>11, <1>12 DEF Ring

LEMMA NotifyKeeps == ASSUME NEW t \in Sender, IInv, Notify(t) PROVE IInv'
<1>1. /\ pc' = [pc EXCEPT ![t] = IF t = "app" THEN "idle" ELSE IF job = "tx" THEN "unlist" ELSE "parse"]
      /\ job' = job /\ pc[t] = "notify"
  BY DEF Notify, Goto, In, Sender
<1>2. Places' /\ Reading'
  BY <1>1 DEF IInv, Places, Reading, Thread, Sender
<1>3. UNCHANGED ringVars /\ cause' = cause
  BY DEF Notify, ringVars, listVars, spiVars
<1> QED BY <1>1, <1>2, <1>3, QuietStep DEF SendingNode, IInv, Places, Thread, Sender

LEMMA RequestKeeps == ASSUME NEW t \in Thread, IInv, Request(t) PROVE IInv'
<1>1. PICK l \in {"idle", "loop", "set", "post"} : /\ t = "spi" \/ l # "loop"
                                                /\ Goto(t, l) /\ pc[t] \in {"ask", "set", "post"}
  BY DEF Request, AskFlag, SetFlag, PostMessage, In, Done, Thread
<1>2. pc' = [pc EXCEPT ![t] = l] /\ (job' = job \/ (t = "link" /\ l = "idle" /\ job' = "none"))
  BY <1>1 DEF Goto
<1>3. Places' /\ Reading'
  BY <1>1, <1>2 DEF IInv, Places, Reading, Thread
<1>4. UNCHANGED ringVars /\ ("overlap" \in cause => "overlap" \in cause')
  BY DEF Request, AskFlag, SetFlag, PostMessage, ringVars, txVars, listVars, spiVars
<1> QED BY <1>1, <1>2, <1>3, <1>4, QuietStep DEF SendingNode, IInv, Places, Thread, Sender

\* The link thread takes a message, reads bytes, or finds nothing to do.
LinkTurn == TakeMessage \/ ClearFlag \/ NoneWaiting \/ ReadBytes \/ ReadNothing \/ AllHeard

LEMMA LinkTurnKeeps == IInv /\ LinkTurn => IInv'
<1> SUFFICES ASSUME IInv, LinkTurn PROVE IInv'
  OBVIOUS
<1>1. PICK l \in {"clear", "read", "send", "idle", "parse", "ask"} : pc' = [pc EXCEPT !["link"] = l]
  BY DEF LinkTurn, TakeMessage, ClearFlag, NoneWaiting, ReadBytes, ReadNothing, AllHeard, Goto
<1>2. Reading'
  <2>1. CASE TakeMessage
    BY <2>1 DEF TakeMessage, IInv, Places, Reading, Thread
  <2>2. CASE ClearFlag
    BY <2>2 DEF ClearFlag, Goto, IInv, Places, Reading, Thread
  <2>3. CASE NoneWaiting \/ ReadNothing
    BY <2>3 DEF NoneWaiting, ReadNothing, Goto, IInv, Places, Reading, Thread
  <2>4. CASE ReadBytes \/ AllHeard
    BY <2>4 DEF ReadBytes, AllHeard, Goto, In, IInv, Places, Reading, Thread
  <2> QED BY <2>1, <2>2, <2>3, <2>4 DEF LinkTurn
<1>3. Places'
  BY <1>1 DEF IInv, Places, Thread
<1>4. UNCHANGED ringVars /\ ("overlap" \in cause => "overlap" \in cause')
  BY DEF LinkTurn, TakeMessage, ClearFlag, NoneWaiting, ReadBytes, ReadNothing, AllHeard, ringVars, txVars, listVars, spiVars
<1> QED BY <1>1, <1>2, <1>3, <1>4, QuietStep DEF SendingNode, IInv, Places, Thread, Sender

LEMMA SpiTurnKeeps == IInv /\ (Select \/ DrainPipe \/ NothingToSend) => IInv'
<1> SUFFICES ASSUME IInv, Select \/ DrainPipe \/ NothingToSend PROVE IInv'
  OBVIOUS
<1>1. PICK l \in {"select", "drain", "loop"} : pc' = [pc EXCEPT !["spi"] = l] /\ job' = job
  BY DEF Select, DrainPipe, NothingToSend, Goto
<1>2. Places' /\ Reading'
  BY <1>1 DEF IInv, Places, Reading, Thread
<1>3. UNCHANGED ringVars /\ cause' = cause
  BY DEF Select, DrainPipe, NothingToSend, ringVars, txVars, listVars, spiVars
<1> QED BY <1>1, <1>2, <1>3, QuietStep DEF SendingNode, IInv, Places, Thread, Sender

LEMMA ListFrameKeeps == IInv /\ ListFrame => IInv'
<1> SUFFICES ASSUME IInv, ListFrame PROVE IInv'
  OBVIOUS
<1>1. PICK l \in {"ask", "idle"} : pc' = [pc EXCEPT !["app"] = l] /\ job' = job /\ pc.app = "list"
  BY DEF ListFrame, Goto, In
<1>2. Places' /\ Reading'
  BY <1>1 DEF IInv, Places, Reading, Thread
<1> SUFFICES ASSUME "overlap" \notin cause' PROVE Ring'
  BY <1>2 DEF IInv
<1>3. Ring
  BY DEF IInv, ListFrame
<1>4. UNCHANGED <<txVars, spiVars, sent>> /\ (wait' = wait \/ wait' = Append(wait, tx_buf))
  BY DEF ListFrame
<1>5. wait' \in Seq(AnyFrame) /\ (wait # <<>> => wait' # <<>>)
  <2>1. wait \in Seq(AnyFrame) /\ tx_buf \in AnyFrame
    BY <1>3 DEF Ring, Types
  <2>2. Append(wait, tx_buf) \in Seq(AnyFrame) /\ Len(Append(wait, tx_buf)) = Len(wait) + 1
    BY <2>1
  <2>3. Append(wait, tx_buf) # <<>>
    BY <2>1, <2>2
  <2> QED BY <2>1, <2>2, <2>3, <1>4
<1>6. Types' /\ Single'
  BY <1>1, <1>3, <1>4, <1>5 DEF Ring, Types, Single, Producing, txVars, spiVars, IInv, Places, Thread
<1>7. Listed' /\ Indices' /\ InOrder' /\ InBlock'
  BY <1>1, <1>3, <1>4, <1>5 DEF Ring, Listed, SendingNode, Indices, InOrder, InBlock, txVars, spiVars, Slot, IInv, Places, Thread
<1>8. Writing'
  BY <1>1, <1>3 DEF Ring, Single, Producing, Writing, IInv, Places, Thread, Sender
<1> QED BY <1>6, <1>7, <1>8 DEF Ring

LEMMA SendWaitingKeeps == IInv /\ SendWaiting => IInv'
<1> SUFFICES ASSUME IInv, SendWaiting PROVE IInv'
  OBVIOUS
<1>1. pc' = [pc EXCEPT !["link"] = "check"] /\ job' = job /\ wait # <<>>
  BY DEF SendWaiting, Goto
<1>2. Places' /\ Reading'
  BY <1>1 DEF IInv, Places, Reading, Thread
<1> SUFFICES ASSUME "overlap" \notin cause' PROVE Ring'
  BY <1>2 DEF IInv
<1>3. Ring /\ ~Producing("app") /\ UNCHANGED <<txVars, wait, spiVars, sent>>
  BY DEF IInv, SendWaiting, Overlap, Other
<1>4. Types' /\ Single'
  BY <1>1, <1>3 DEF Ring, Types, Single, Producing, txVars, spiVars, IInv, Places, Thread
<1>5. Listed' /\ Indices' /\ InOrder' /\ InBlock'
  BY <1>1, <1>3 DEF Ring, Listed, Indices, InOrder, InBlock, txVars, spiVars, Slot, IInv, Places, Thread
<1>6. Writing'
  BY <1>1, <1>3 DEF Producing, Writing, IInv, Places, Thread, Sender
<1> QED BY <1>4, <1>5, <1>6 DEF Ring

LEMMA UnlistFrameKeeps == IInv /\ UnlistFrame => IInv'
<1> SUFFICES ASSUME IInv, UnlistFrame PROVE IInv'
  OBVIOUS
<1>1. PICK l \in {"send", "ask", "idle"} : pc' = [pc EXCEPT !["link"] = l] /\ pc.link = "unlist"
  BY DEF UnlistFrame, Goto, In
<1>2. Places' /\ Reading'
  BY <1>1 DEF IInv, Places, Reading, Thread
<1> SUFFICES ASSUME "overlap" \notin cause' PROVE Ring'
  BY <1>2 DEF IInv
<1>3. Ring /\ wait' = Tail(wait) /\ UNCHANGED <<txVars, spiVars, sent>>
  BY DEF IInv, UnlistFrame
<1>4. wait' \in Seq(AnyFrame)
  BY <1>1, <1>3 DEF IInv, Reading, Ring, Listed, SendingNode, Types
<1>5. Types' /\ Single'
  BY <1>1, <1>3, <1>4 DEF Ring, Types, Single, Producing, txVars, spiVars, IInv, Places, Thread
<1>6. Listed' /\ Indices' /\ InOrder' /\ InBlock'
  BY <1>1, <1>3 DEF Ring, Listed, SendingNode, Indices, InOrder, InBlock, txVars, spiVars, Slot, IInv, Places, Thread
<1>7. Writing'
  BY <1>1, <1>3 DEF Ring, Writing, Meant, txVars, Slot, IInv, Places, Thread, Sender
<1> QED BY <1>5, <1>6, <1>7 DEF Ring

LEMMA HearFrameKeeps == IInv /\ HearFrame => IInv'
<1> SUFFICES ASSUME IInv, HearFrame PROVE IInv'
  OBVIOUS
<1>1. CASE Head(todo) \notin {REQ_CMD, BEAT_CMD}
  <2>1. UNCHANGED <<ringVars, pc, job, cause>>
    BY <1>1 DEF HearFrame, ringVars, listVars, spiVars
  <2>2. Places' /\ Reading'
    BY <2>1 DEF IInv, Places, Reading
  <2> QED BY <2>1, <2>2, QuietStep DEF SendingNode
<1>2. CASE Head(todo) \in {REQ_CMD, BEAT_CMD}
  <2>1. /\ pc' = [pc EXCEPT !["link"] = "check"] /\ job' = job /\ pc.link = "parse"
        /\ tx_buf' = <<"ack", Head(todo)>> /\ cause' = cause \cup Overlap("link")
        /\ UNCHANGED <<cells, w, r, at, pipe, accepted, listVars, spiVars, sent>>
    BY <1>2 DEF HearFrame, Goto, In
  <2>2. Places' /\ Reading'
    BY <2>1 DEF IInv, Places, Reading, Thread
  <2> SUFFICES ASSUME "overlap" \notin cause' PROVE Ring'
    BY <2>2 DEF IInv
  <2>3. Ring /\ ~Producing("app") /\ job # "tx"
    BY <2>1 DEF IInv, Reading, Overlap, Other
  <2>4. tx_buf' \in AnyFrame
    BY <1>2, <2>1 DEF AnyFrame, Ack
  <2>5. Types' /\ Single'
    BY <2>1, <2>3, <2>4 DEF Ring, Types, Single, Producing, listVars, spiVars, IInv, Places, Thread
  <2>6. Listed' /\ Indices' /\ InOrder' /\ InBlock'
    BY <2>1, <2>3 DEF Ring, Listed, SendingNode, Indices, InOrder, InBlock, spiVars, Slot, IInv, Places, Thread
  <2>7. Writing'
    BY <2>1, <2>3 DEF Producing, Writing, IInv, Places, Thread, Sender
  <2> QED BY <2>5, <2>6, <2>7 DEF Ring
<1> QED BY <1>1, <1>2

LEMMA TakeBlockKeeps == IInv /\ TakeBlock => IInv'
<1> SUFFICES ASSUME IInv, TakeBlock PROVE IInv'
  OBVIOUS
<1>1. pc' = [pc EXCEPT !["spi"] = "taken"] /\ job' = job /\ UNCHANGED <<txVars, wait, out, sent>>
  BY DEF TakeBlock, Goto, listVars
<1>2. Places' /\ Reading'
  BY <1>1 DEF IInv, Places, Reading, Thread
<1> SUFFICES ASSUME "overlap" \notin cause' PROVE Ring'
  BY <1>2 DEF IInv
<1>3. Ring
  BY DEF IInv, TakeBlock
<1>4. /\ w \in Nat /\ r \in Nat /\ w - r \in Nat /\ PerBlock \in Nat
      /\ InRing \in Seq(AnyFrame) /\ Len(InRing) = w - r
      /\ \A i \in 1 .. w - r : InRing[i] = cells[Slot(r + i - 1)]
  BY <1>3, RingRead, LinkAssumption DEF Ring, Types, Indices
<1>5. PICK n \in 1 .. Min({PerBlock, w - r}) : block' = SubSeq(InRing, 1, n)
  BY DEF TakeBlock
<1>6. n \in Nat /\ 1 <= n /\ n <= w - r
  <2> DEFINE there == w - r
  <2>1. PerBlock \in Int /\ there \in Int
    BY <1>4
  <2>2. n \in 1 .. Min({PerBlock, there})
    OBVIOUS
  <2> HIDE DEF there
  <2>3. Min({PerBlock, there}) \in Int /\ Min({PerBlock, there}) <= there
    BY <2>1, SmallerOfTwo
  <2>4. n \in Nat /\ 1 <= n /\ n <= there
    BY <2>1, <2>2, <2>3
  <2> QED BY <2>4 DEF there
<1>7. block' \in Seq(AnyFrame) /\ Len(block') = n /\ \A j \in 1 .. n : block'[j] = InRing[j]
  BY <1>4, <1>5, <1>6
<1>8. Types' /\ Single'
  BY <1>1, <1>3, <1>7 DEF Ring, Types, Single, Producing, txVars, IInv, Places, Thread
<1>9. Listed' /\ Indices' /\ InOrder'
  BY <1>1, <1>3 DEF Ring, Listed, SendingNode, Indices, InOrder, txVars, Slot, IInv, Places, Thread
<1>10. Writing'
  BY <1>1, <1>3 DEF Ring, Writing, Meant, Sends, txVars, Slot, IInv, Places, Thread, Sender
<1>11. InBlock'
  <2>1. \A j \in 1 .. n : block'[j] = accepted[r + j]
    <3> SUFFICES ASSUME NEW j \in 1 .. n PROVE block'[j] = accepted[r + j]
      OBVIOUS
    <3>1. block'[j] = cells[Slot(r + j - 1)]
      <4>1. j \in 1 .. w - r
        BY <1>4, <1>6
      <4> QED BY <4>1, <1>4, <1>7
    <3>2. r + j - 1 \in Nat /\ r <= r + j - 1 /\ r + j - 1 < w /\ r + j - 1 + 1 = r + j
      BY <1>4, <1>6
    <3> QED BY <3>1, <3>2, <1>3 DEF Ring, InOrder
  <2> QED BY <2>1, <1>1, <1>6, <1>7 DEF InBlock, txVars
<1> QED BY <1>8, <1>9, <1>10, <1>11 DEF Ring

LEMMA TransferKeeps == IInv /\ Transfer => IInv'
<1> SUFFICES ASSUME IInv, Transfer PROVE IInv'
  OBVIOUS
<1>1. /\ pc' = [pc EXCEPT !["spi"] = "ask"] /\ job' = job /\ pc.spi = "taken"
      /\ r' = r + Len(block) /\ out' = out \o block /\ block' = <<>>
      /\ UNCHANGED <<tx_buf, cells, w, at, accepted, wait, sent>>
  BY DEF Transfer, Goto, In, listVars
<1>2. Places' /\ Reading'
  BY <1>1 DEF IInv, Places, Reading, Thread
<1> SUFFICES ASSUME "overlap" \notin cause' PROVE Ring'
  BY <1>2 DEF IInv
<1>3. Ring
  BY DEF IInv, Transfer
<1>4. /\ Len(block) \in Nat /\ Len(block) <= w - r /\ block \in Seq(AnyFrame)
      /\ \A j \in 1 .. Len(block) : block[j] = accepted[r + j]
      /\ w \in Nat /\ r \in Nat /\ out \in Seq(AnyFrame) /\ Len(out) = r /\ Cells \in Nat
  <2>1. Types /\ InOrder /\ InBlock
    BY <1>3 DEF Ring
  <2>2. w \in Nat /\ r \in Nat /\ out \in Seq(AnyFrame) /\ block \in Seq(AnyFrame)
    BY <2>1 DEF Types
  <2>3. Len(block) \in Nat
    BY <2>2, LenProperties
  <2>4. /\ Len(block) <= w - r
        /\ \A j \in 1 .. Len(block) : block[j] = accepted[r + j]
    BY <2>1, <1>1 DEF InBlock
  <2>5. Len(out) = r
    BY <2>1 DEF InOrder
  <2>6. Cells \in Nat
    BY LinkAssumption
  <2> QED BY <2>2, <2>3, <2>4, <2>5, <2>6
<1>5. /\ out' \in Seq(AnyFrame) /\ Len(out') = r'
      /\ \A i \in 1 .. r' : out'[i] = IF i <= r THEN out[i] ELSE block[i - r]
  <2>1. /\ out \o block \in Seq(AnyFrame) /\ Len(out \o block) = r + Len(block)
        /\ \A i \in 1 .. r + Len(block) : (out \o block)[i] = IF i <= r THEN out[i] ELSE block[i - r]
    BY <1>4, ConcatProperties
  <2> QED BY <2>1, <1>1
<1>6. Types' /\ Single'
  BY <1>1, <1>3, <1>4, <1>5 DEF Ring, Types, Single, Producing, IInv, Places, Thread
<1>7. Listed' /\ Indices'
  BY <1>1, <1>3, <1>4 DEF Ring, Listed, SendingNode, Indices, IInv, Places, Thread
<1>8. Writing'
  <2> SUFFICES ASSUME NEW t \in Sender
               PROVE  /\ pc'[t] \in {"put", "bump"} => at[t] = w /\ w < r' + Cells
                      /\ pc'[t] = "bump" => cells[Slot(w)] = Meant(t)
    BY <1>1 DEF Writing, Meant, Sends, Slot
  <2>1. pc'[t] = pc[t]
    BY <1>1 DEF IInv, Places, Thread, Sender
  <2>2. w < r + Cells => w < r' + Cells
    BY <1>1, <1>4
  <2> QED BY <2>1, <2>2, <1>3 DEF Ring, Writing
<1>9. InOrder'
  <2>1. \A i \in 1 .. r' : out'[i] = accepted[i]
    <3> SUFFICES ASSUME NEW i \in 1 .. r' PROVE out'[i] = accepted[i]
      OBVIOUS
    <3>1. CASE i <= r
      BY <3>1, <1>3, <1>4, <1>5 DEF Ring, InOrder
    <3>2. CASE i > r
      <4>1. i - r \in 1 .. Len(block) /\ r + (i - r) = i
        <5>1. i \in 1 .. r + Len(block)
          BY <1>1
        <5> QED BY <5>1, <3>2, <1>4
      <4>2. out'[i] = block[i - r]
        BY <3>2, <1>4, <1>5
      <4>3. block[i - r] = accepted[r + (i - r)]
        BY <4>1, <1>4
      <4> QED BY <4>1, <4>2, <4>3
    <3> QED BY <3>1, <3>2, <1>4, <1>1
  <2>2. \A i \in Nat : r' <= i /\ i < w => cells[Slot(i)] = accepted[i + 1]
    BY <1>1, <1>3, <1>4 DEF Ring, InOrder
  <2> QED BY <2>1, <2>2, <1>1, <1>3, <1>5 DEF Ring, InOrder, Slot
<1>10. InBlock'
  BY <1>1 DEF InBlock, IInv, Places, Thread
<1> QED BY <1>6, <1>7, <1>8, <1>9, <1>10 DEF Ring

-----------------------------------------------------------------------------
(* Frames out. *)

LEMMA NextKeeps == IInv /\ [Next]_vars => IInv'
<1> SUFFICES ASSUME IInv, [Next]_vars PROVE IInv'
  OBVIOUS
<1>1. ASSUME NEW t \in Sender, Write(t) PROVE IInv'
  BY <1>1, FindRoomKeeps, FindFullKeeps, PutFrameKeeps, BumpIndexKeeps, NotifyKeeps DEF Write
<1>2. CASE StartSend
  BY <1>2, StartSendKeeps
<1>3. CASE App
  BY <1>3, <1>1, ListFrameKeeps, RequestKeeps DEF App, Sender, Thread
<1>4. CASE Link
  BY <1>4, <1>1, RequestKeeps, LinkTurnKeeps, SendWaitingKeeps, UnlistFrameKeeps, HearFrameKeeps DEF Link, LinkTurn, Sender, Thread
<1>5. CASE Spi
  BY <1>5, SpiTurnKeeps, TakeBlockKeeps, TransferKeeps, RequestKeeps DEF Spi, Thread
<1>6. CASE UNCHANGED vars
  <2>1. UNCHANGED ringVars /\ UNCHANGED <<pc, job, cause>>
    BY <1>6 DEF vars, ringVars, txVars, flagVars, listVars, rxVars, spiVars
  <2>2. Places' /\ Reading'
    BY <2>1 DEF IInv, Places, Reading
  <2> QED BY <2>1, <2>2, QuietStep DEF SendingNode
<1> QED BY <1>2, <1>3, <1>4, <1>5, <1>6 DEF Next

LEMMA RingKeepsFrames == IInv => FramesKept
<1> SUFFICES ASSUME IInv, "overlap" \notin cause PROVE out \o InRing = accepted
  BY DEF FramesKept
<1>1. Ring
  BY DEF IInv
<1>2. /\ w \in Nat /\ r \in Nat /\ r <= w
      /\ InRing \in Seq(AnyFrame) /\ Len(InRing) = w - r
      /\ \A i \in 1 .. w - r : InRing[i] = cells[Slot(r + i - 1)]
  BY <1>1, RingRead DEF Ring, Types, Indices
<1>3. /\ out \in Seq(AnyFrame) /\ accepted \in Seq(AnyFrame)
      /\ Len(out) = r /\ Len(accepted) = w
  BY <1>1 DEF Ring, Types, InOrder
<1>4. /\ out \o InRing \in Seq(AnyFrame) /\ Len(out \o InRing) = w
      /\ \A i \in 1 .. w : (out \o InRing)[i] = IF i <= r THEN out[i] ELSE InRing[i - r]
  <2>1. Len(out) + Len(InRing) = w
    BY <1>2, <1>3
  <2>2. /\ out \o InRing \in Seq(AnyFrame) /\ Len(out \o InRing) = Len(out) + Len(InRing)
        /\ \A i \in 1 .. Len(out) + Len(InRing) :
              (out \o InRing)[i] = IF i <= Len(out) THEN out[i] ELSE InRing[i - Len(out)]
    BY <1>2, <1>3, ConcatProperties
  <2> QED BY <2>1, <2>2, <1>3
<1>5. ASSUME NEW i \in 1 .. w PROVE (out \o InRing)[i] = accepted[i]
  <2>1. CASE i <= r
    BY <2>1, <1>1, <1>2, <1>4 DEF Ring, InOrder
  <2>2. CASE i > r
    <3>1. i - r \in 1 .. w - r /\ r + (i - r) - 1 = i - 1 /\ i - 1 \in Nat /\ r <= i - 1 /\ i - 1 < w /\ i - 1 + 1 = i
      BY <2>2, <1>2
    <3>2. (out \o InRing)[i] = InRing[i - r]
      BY <2>2, <1>2, <1>4
    <3>3. InRing[i - r] = cells[Slot(r + (i - r) - 1)]
      BY <3>1, <1>2
    <3>4. cells[Slot(i - 1)] = accepted[i - 1 + 1]
      BY <3>1, <1>1 DEF Ring, InOrder
    <3> QED BY <3>1, <3>2, <3>3, <3>4
  <2>3. i <= r \/ i > r
    <3>1. w \in Nat /\ r \in Nat
      BY <1>2
    <3> QED BY <3>1
  <2> QED BY <2>1, <2>2, <2>3
<1> HIDE DEF InRing
<1> QED BY <1>3, <1>4, <1>5, SeqEqual

\* Whatever the sizes of the ring, of the list and of the blocks: the frames
\* that went out and those still in the unlocked ring are the frames that were
\* put, in order, unless two senders were at it at a time (serial_link.c:981,
\* yx_spi_drv.c:258).
THEOREM LinkFramesKept == Spec => []FramesKept
<1>1. Init => IInv
  BY InitRing
<1>2. IInv /\ [Next]_vars => IInv'
  BY NextKeeps
<1>3. IInv => FramesKept
  BY RingKeepsFrames
<1> QED BY <1>1, <1>2, <1>3, PTL DEF Spec

-----------------------------------------------------------------------------
(* Least numbers.  The library states without a parameter that < is        *)
(* well-founded on Nat: a least counterexample takes the place of the      *)
(* induction that the provers cannot instantiate.                          *)

LEMMA LeastNumber ==
    ASSUME NEW T, T \subseteq Nat, T # {}
    PROVE  \E x \in T : \A y \in T : x <= y
<1>1. PICK R : IsWellFoundedOn(R, Nat) /\ \A x, y \in Nat : <<y, x>> \in R <=> y < x
  <2>1. \A x, y \in Nat : <<y, x>> \in OpToRel(<, Nat) <=> y < x
    BY Zenon DEF OpToRel
  <2> QED
    BY <2>1, NatLessThanWellFounded, Zenon
<1>2. PICK x \in T : \A y \in T : ~ (<<y, x>> \in R)
  BY <1>1, WFMin, Zenon
<1>3. \A y \in T : ~ (y < x)
  BY <1>1, <1>2, Zenon
<1>4. \A y \in T : y \in Nat /\ x \in Nat
  OBVIOUS
<1>5. \A y \in T : x <= y
  BY <1>3, <1>4
<1> QED
  BY <1>5

LEMMA MinIsLeast ==
    ASSUME NEW T, T \subseteq Nat, T # {}
    PROVE  Min(T) \in T /\ \A y \in T : Min(T) <= y
  BY LeastNumber DEF Min

-----------------------------------------------------------------------------
(* The analysis of a buffer, round by round. *)

HeadAt(buf, i) == i + 1 < Len(buf) /\ At(buf, i) = HEAD_1 /\ At(buf, i + 1) = HEAD_2
HalfHeadAt(buf, i) == i + 1 = Len(buf) /\ At(buf, i) = HEAD_1

\* The head that is found is the first one.
LEMMA HeadFound ==
    ASSUME NEW buf \in Seq(Nat), NEW o \in 0 .. Len(buf), NEW h, h = FindHead(buf, o)
    PROVE  /\ h \in o .. Len(buf)
           /\ h + 1 < Len(buf) => HeadAt(buf, h)
           /\ \A i \in o .. h - 1 : ~HeadAt(buf, i) /\ ~HalfHeadAt(buf, i)
<1> DEFINE heads == {i \in o .. Len(buf) : HeadAt(buf, i)}
           half == {i \in o .. Len(buf) : HalfHeadAt(buf, i)}
           all == heads \cup half \cup {Len(buf)}
<1>1. h = Min(all)
  BY DEF FindHead, HeadAt, HalfHeadAt
<1>2. Len(buf) \in Nat /\ all \subseteq o .. Len(buf) /\ all # {}
  BY LenProperties
<1>3. h \in all /\ \A y \in all : h <= y
  <2>1. all \subseteq Nat
    BY <1>2
  <2> HIDE DEF all
  <2> QED
    BY <1>1, <1>2, <2>1, MinIsLeast
<1>4. h \in o .. Len(buf)
  BY <1>2, <1>3
<1>5. h + 1 < Len(buf) => HeadAt(buf, h)
  BY <1>2, <1>3 DEF HalfHeadAt
<1>6. ASSUME NEW i \in o .. h - 1 PROVE ~HeadAt(buf, i) /\ ~HalfHeadAt(buf, i)
  <2>1. i \in o .. Len(buf) /\ ~(h <= i)
    BY <1>2, <1>4
  <2> QED
    BY <2>1, <1>3
<1> QED
  BY <1>4, <1>5, <1>6

\* One round of the analysis, with what is found after it.
Round(buf, f, o) ==
    LET h == FindHead(buf, o)
    IN  IF h + HeadLen > Len(buf) THEN Kept(h)
        ELSE IF Whole(buf, h)
             THEN IF Sound(buf, h) THEN Before(Cmd(buf, h), f[AfterFrame(buf, h)])
                  ELSE f[AfterBad(buf, h)]
             ELSE IF Len(buf) > RxMax THEN f[AfterBad(buf, h)] ELSE Kept(h)

\* Each round looks only at what is found further on.
LEMMA RoundsGoOn ==
    ASSUME NEW buf \in Seq(Nat), NEW o \in 0 .. Len(buf), NEW h, h = FindHead(buf, o),
           h + HeadLen <= Len(buf)
    PROVE  /\ h \in o .. Len(buf) /\ HeadAt(buf, h)
           /\ AfterBad(buf, h) \in o + 1 .. Len(buf)
           /\ Size(buf, h) \in Nat /\ Cmd(buf, h) \in Nat
           /\ Whole(buf, h) => AfterFrame(buf, h) \in o + 1 .. Len(buf)
<1>1. Len(buf) \in Nat /\ h \in o .. Len(buf)
  BY HeadFound, LenProperties
<1>2. HeadAt(buf, h)
  <2>1. h + 1 < Len(buf)
    BY <1>1 DEF HeadLen
  <2> QED
    BY <2>1, HeadFound
<1>3. Size(buf, h) \in Nat /\ Cmd(buf, h) \in Nat
  <2> DEFINE n == Len(buf)
  <2>1. n \in Nat /\ h \in Nat /\ h + 5 <= n
    BY <1>1 DEF HeadLen
  <2> HIDE DEF n
  <2>2. h + 4 + 1 \in 1 .. n /\ h + 3 + 1 \in 1 .. n
    BY <2>1
  <2> QED
    BY <2>2 DEF Size, Cmd, At, n
<1>4. AfterBad(buf, h) \in o + 1 .. Len(buf)
  BY <1>1 DEF AfterBad, HeadLen
<1>5. ASSUME Whole(buf, h) PROVE AfterFrame(buf, h) \in o + 1 .. Len(buf)
  <2> DEFINE z == Size(buf, h)
  <2>1. z \in Nat /\ h + 5 + z <= Len(buf) /\ AfterFrame(buf, h) = h + 5 + z
    BY <1>3, <1>5 DEF AfterFrame, Whole, EndOf, HeadLen
  <2> HIDE DEF z
  <2> QED
    BY <1>1, <2>1
<1> QED
  BY <1>1, <1>2, <1>3, <1>4, <1>5

LEMMA RoundLooksAhead ==
    ASSUME NEW buf \in Seq(Nat), NEW o \in 0 .. Len(buf), NEW f, NEW g,
           \A p \in o + 1 .. Len(buf) : f[p] = g[p]
    PROVE  Round(buf, f, o) = Round(buf, g, o)
<1> DEFINE h == FindHead(buf, o)
<1>1. CASE h + HeadLen > Len(buf)
  BY <1>1 DEF Round
<1>2. CASE ~(h + HeadLen > Len(buf))
  <2>1. h + HeadLen <= Len(buf)
    <3>1. h \in o .. Len(buf) /\ Len(buf) \in Nat
      BY HeadFound, LenProperties
    <3> QED
      BY <1>2, <3>1 DEF HeadLen
  <2>2. /\ f[AfterBad(buf, h)] = g[AfterBad(buf, h)]
        /\ Whole(buf, h) => f[AfterFrame(buf, h)] = g[AfterFrame(buf, h)]
    BY <2>1, RoundsGoOn
  <2> QED
    BY <2>2 DEF Round
<1> QED
  BY <1>1, <1>2

\* The analysis is what its rounds make of the buffer from the end backwards.
LEMMA AnalysisExists ==
    ASSUME NEW buf \in Seq(Nat)
    PROVE  \E f : f = [o \in 0 .. Len(buf) |-> Round(buf, f, o)]
<1> DEFINE S == 0 .. Len(buf)
           Settled(f, n) == \A o \in S : Len(buf) - o < n => f[o] = Round(buf, f, o)
           T == {n \in Nat : ~ \E f : Settled(f, n)}
<1>0. Len(buf) \in Nat
  BY LenProperties
<1>1. SUFFICES T = {}
  <2>1. PICK f : Settled(f, Len(buf) + 1)
    <3>1. Len(buf) + 1 \in Nat /\ Len(buf) + 1 \notin T
      BY <1>0, <1>1
    <3> QED
      BY <3>1
  <2> DEFINE g == [o \in S |-> Round(buf, f, o)]
  <2>2. \A o \in S : f[o] = g[o]
    BY <1>0, <2>1
  <2>3. \A o \in S : g[o] = Round(buf, g, o)
    <3> SUFFICES ASSUME NEW o \in S PROVE g[o] = Round(buf, g, o)
      OBVIOUS
    <3>1. \A p \in o + 1 .. Len(buf) : f[p] = g[p]
      BY <1>0, <2>2
    <3>2. Round(buf, f, o) = Round(buf, g, o)
      BY <3>1, RoundLooksAhead
    <3> QED
      BY <3>2
  <2>4. g = [o \in S |-> Round(buf, g, o)]
    BY <2>3
  <2> HIDE DEF g
  <2> QED
    BY <2>4
<1>2. SUFFICES ASSUME T # {} PROVE FALSE
  OBVIOUS
<1>3. PICK n \in T : \A m \in T : n <= m
  <2> HIDE DEF T
  <2>1. T \subseteq Nat
    BY DEF T
  <2> QED
    BY <1>2, <2>1, LeastNumber
<1>4. n \in Nat /\ ~ \E f : Settled(f, n)
  OBVIOUS
<1>5. n # 0
  <2>1. \A f : Settled(f, 0)
    BY <1>0
  <2> QED
    BY <1>4, <2>1
<1>6. PICK f : Settled(f, n - 1)
  <2>1. n - 1 \in Nat /\ n - 1 \notin T
    BY <1>3, <1>4, <1>5
  <2> QED
    BY <2>1
<1> DEFINE g == [o \in S |-> Round(buf, f, o)]
<1>7. ASSUME NEW o \in S, Len(buf) - o < n PROVE g[o] = Round(buf, g, o)
  <2>1. \A p \in o + 1 .. Len(buf) : f[p] = g[p]
    <3> SUFFICES ASSUME NEW p \in o + 1 .. Len(buf) PROVE f[p] = g[p]
      OBVIOUS
    <3>1. p \in S /\ Len(buf) - p < n - 1
      BY <1>0, <1>4, <1>7
    <3> QED
      BY <3>1, <1>6
  <2>2. Round(buf, f, o) = Round(buf, g, o)
    BY <2>1, RoundLooksAhead
  <2> QED
    BY <2>2
<1> HIDE DEF g
<1> QED
  BY <1>4, <1>7

\* What is found from an offset on is found in rounds.
LEMMA FoundInRounds ==
    ASSUME NEW buf \in Seq(Nat)
    PROVE  \E f : \A o \in 0 .. Len(buf) :
              FoundFrom(buf, o) = f[o] /\ f[o] = Round(buf, f, o)
<1> DEFINE S == 0 .. Len(buf)
           f == CHOOSE g : g = [o \in S |-> Round(buf, g, o)]
<1>1. f = [o \in S |-> Round(buf, f, o)]
  BY AnalysisExists
<1>2. \A o \in S : FoundFrom(buf, o) = f[o]
  BY DEF FoundFrom, Round
<1> HIDE DEF f
<1>3. \A o \in S : f[o] = Round(buf, f, o)
  BY <1>1
<1> QED
  BY <1>2, <1>3

-----------------------------------------------------------------------------
(* Segments of a stream. *)

LEMMA SegmentBytes ==
    ASSUME NEW s \in Streams, NEW o \in Nat, NEW n \in Nat
    PROVE  /\ Byte(s, o) \in Nat
           /\ Segment(s, o, n) \in Seq(Nat) /\ Len(Segment(s, o, n)) = n
           /\ \A i \in 0 .. n - 1 : At(Segment(s, o, n), i) = Byte(s, o + i)
<1>1. \A p \in Nat : Byte(s, p) \in Nat
  BY StreamsAssumption DEF Byte, At, FILL_BYTE
<1>2. Segment(s, o, n) \in [1 .. n -> Nat]
  BY <1>1 DEF Segment
<1>3. Segment(s, o, n) \in Seq(Nat) /\ Len(Segment(s, o, n)) = n
  BY <1>2
<1>4. \A i \in 0 .. n - 1 : At(Segment(s, o, n), i) = Byte(s, o + i)
  <2> SUFFICES ASSUME NEW i \in 0 .. n - 1 PROVE At(Segment(s, o, n), i) = Byte(s, o + i)
    OBVIOUS
  <2>1. i + 1 \in 1 .. n /\ o + (i + 1) - 1 = o + i
    OBVIOUS
  <2> QED
    BY <2>1 DEF Segment, At
<1> QED
  BY <1>1, <1>3, <1>4

\* A segment is known by its length and its bytes.
LEMMA SegmentIs ==
    ASSUME NEW s \in Streams, NEW o \in Nat, NEW q \in Seq(Nat),
           \A i \in 1 .. Len(q) : q[i] = Byte(s, o + i - 1)
    PROVE  q = Segment(s, o, Len(q))
<1>1. Len(q) \in Nat /\ DOMAIN q = 1 .. Len(q)
  BY LenProperties
<1>2. q = [i \in 1 .. Len(q) |-> q[i]]
  BY <1>1
<1>3. [i \in 1 .. Len(q) |-> q[i]] = [i \in 1 .. Len(q) |-> Byte(s, o + i - 1)]
  OBVIOUS
<1> QED
  BY <1>2, <1>3 DEF Segment

\* Part of a segment, and two segments in a row.
LEMMA PartOfSegment ==
    ASSUME NEW s \in Streams, NEW o \in Nat, NEW n \in Nat,
           NEW a \in 1 .. n + 1, NEW b \in 0 .. n, a <= b + 1
    PROVE  SubSeq(Segment(s, o, n), a, b) = Segment(s, o + a - 1, b - a + 1)
<1> DEFINE q == Segment(s, o, n)
           p == SubSeq(q, a, b)
<1>1. q \in Seq(Nat) /\ Len(q) = n /\ \A i \in 1 .. n : q[i] = Byte(s, o + i - 1)
  <2>1. \A i \in 1 .. n : q[i] = Byte(s, o + i - 1)
    BY DEF Segment
  <2> QED
    BY <2>1, SegmentBytes
<1> HIDE DEF q
<1>2. p \in Seq(Nat) /\ Len(p) = b - a + 1 /\ \A i \in 1 .. b - a + 1 : p[i] = q[a + i - 1]
  <2>1. a \in Int /\ b \in Int /\ \A i \in a .. b : q[i] \in Nat
    BY <1>1
  <2>2. a <= b \/ b - a + 1 = 0
    OBVIOUS
  <2> QED
    BY <2>1, <2>2, SubSeqProperties
<1>3. \A i \in 1 .. Len(p) : p[i] = Byte(s, o + a - 1 + i - 1)
  <2> SUFFICES ASSUME NEW i \in 1 .. b - a + 1 PROVE p[i] = Byte(s, o + a - 1 + i - 1)
    BY <1>2
  <2>1. a + i - 1 \in 1 .. n /\ o + (a + i - 1) - 1 = o + a - 1 + i - 1
    OBVIOUS
  <2> QED
    BY <1>1, <1>2, <2>1
<1> HIDE DEF p
<1>4. o + a - 1 \in Nat
  OBVIOUS
<1>5. p = Segment(s, o + a - 1, Len(p))
  BY <1>2, <1>3, <1>4, SegmentIs
<1> QED
  BY <1>2, <1>5 DEF p, q

LEMMA SegmentUpTo ==
    ASSUME NEW s \in Streams, NEW o \in Nat, NEW n \in Nat, NEW e \in 0 .. n
    PROVE  SubSeq(Segment(s, o, n), 1, e) = Segment(s, o, e)
<1>1. 1 \in 1 .. n + 1 /\ 1 <= e + 1 /\ o + 1 - 1 = o /\ e - 1 + 1 = e
  OBVIOUS
<1>2. SubSeq(Segment(s, o, n), 1, e) = Segment(s, o + 1 - 1, e - 1 + 1)
  BY <1>1, PartOfSegment
<1> QED
  BY <1>1, <1>2

LEMMA SegmentAfter ==
    ASSUME NEW s \in Streams, NEW o \in Nat, NEW n \in Nat, NEW e \in 0 .. n
    PROVE  SubSeq(Segment(s, o, n), e + 1, n) = Segment(s, o + e, n - e)
<1> DEFINE b == e + 1
<1>1. b \in 1 .. n + 1 /\ n \in 0 .. n /\ b <= n + 1 /\ o + b - 1 = o + e /\ n - b + 1 = n - e
  OBVIOUS
<1> HIDE DEF b
<1>2. SubSeq(Segment(s, o, n), b, n) = Segment(s, o + b - 1, n - b + 1)
  BY <1>1, PartOfSegment
<1> QED
  BY <1>1, <1>2 DEF b

LEMMA SegmentsInARow ==
    ASSUME NEW s \in Streams, NEW o \in Nat, NEW n \in Nat, NEW m \in Nat
    PROVE  Segment(s, o, n) \o Segment(s, o + n, m) = Segment(s, o, n + m)
<1> DEFINE q == Segment(s, o, n)
           t == Segment(s, o + n, m)
           p == q \o t
<1>1. /\ q \in Seq(Nat) /\ Len(q) = n /\ \A i \in 1 .. n : q[i] = Byte(s, o + i - 1)
      /\ t \in Seq(Nat) /\ Len(t) = m /\ \A i \in 1 .. m : t[i] = Byte(s, o + n + i - 1)
  <2>1. /\ \A i \in 1 .. n : q[i] = Byte(s, o + i - 1)
        /\ \A i \in 1 .. m : t[i] = Byte(s, o + n + i - 1)
    BY DEF Segment
  <2>2. o + n \in Nat
    OBVIOUS
  <2> QED
    BY <2>1, <2>2, SegmentBytes
<1> HIDE DEF q, t
<1>2. p \in Seq(Nat) /\ Len(p) = n + m
      /\ \A i \in 1 .. n + m : p[i] = IF i <= n THEN q[i] ELSE t[i - n]
  BY <1>1, ConcatProperties
<1>3. \A i \in 1 .. Len(p) : p[i] = Byte(s, o + i - 1)
  <2> SUFFICES ASSUME NEW i \in 1 .. n + m PROVE p[i] = Byte(s, o + i - 1)
    BY <1>2
  <2>1. CASE i <= n
    BY <2>1, <1>1, <1>2
  <2>2. CASE ~(i <= n)
    <3>1. i - n \in 1 .. m /\ o + n + (i - n) - 1 = o + i - 1
      BY <2>2
    <3> QED
      BY <3>1, <2>2, <1>1, <1>2
  <2> QED
    BY <2>1, <2>2
<1> HIDE DEF p
<1>4. p = Segment(s, o, Len(p))
  BY <1>2, <1>3, SegmentIs
<1> QED
  BY <1>2, <1>4 DEF p, q, t

-----------------------------------------------------------------------------
(* The intact frames of a stream. *)

\* The assumption on the streams, of the frames that are chosen.
LEMMA StreamsIntact ==
    ASSUME NEW s \in Streams
    PROVE  /\ IntactFrames(s) \subseteq SoundFrames(s)
           /\ \A o \in IntactFrames(s) : AfterIntact(s, o) <= Len(s.bytes)
           /\ \A o, p \in IntactFrames(s) : o < p => AfterIntact(s, o) <= p
           /\ \A p \in SoundFrames(s) :
                 \E o \in IntactFrames(s) : o <= p /\ p < AfterIntact(s, o)
           /\ Len(s.intact) = Cardinality(IntactFrames(s))
           /\ \A o \in IntactFrames(s) : s.intact[FramesBefore(s, o) + 1] = Byte(s, o + 3)
<1>1. \E frames \in SUBSET SoundFrames(s) : AreIntact(s, frames)
  BY StreamsAssumption
<1>2. IntactFrames(s) \in SUBSET SoundFrames(s) /\ AreIntact(s, IntactFrames(s))
  BY <1>1, Zenon DEF IntactFrames
<1>3. IntactFrames(s) \subseteq SoundFrames(s)
  BY <1>2
<1> DEFINE frames == IntactFrames(s)
<1>4. AreIntact(s, frames)
  BY <1>2
<1>5. \A o : FramesBefore(s, o) = Cardinality(frames \cap (0 .. o - 1))
  BY DEF FramesBefore
<1> HIDE DEF frames
<1>6. /\ \A o \in frames : AfterIntact(s, o) <= Len(s.bytes)
      /\ \A o, p \in frames : o < p => AfterIntact(s, o) <= p
      /\ \A p \in SoundFrames(s) : \E o \in frames : o <= p /\ p < AfterIntact(s, o)
      /\ Len(s.intact) = Cardinality(frames)
      /\ \A o \in frames : s.intact[Cardinality(frames \cap (0 .. o - 1)) + 1] = Byte(s, o + 3)
  BY <1>4 DEF AreIntact
<1> QED
  BY <1>3, <1>5, <1>6, Zenon DEF frames

LEMMA StreamTypes ==
    ASSUME NEW s \in Streams
    PROVE  /\ s.bytes \in Seq(Nat) /\ Len(s.bytes) \in Nat
           /\ s.intact \in Seq(Nat) /\ Len(s.intact) \in Nat
           /\ IntactFrames(s) \subseteq Nat
           /\ \A o \in IntactFrames(s) : o < Len(s.bytes)
<1>1. s.bytes \in Seq(Nat) /\ s.intact \in Seq(Nat)
  BY StreamsAssumption
<1> QED
  BY <1>1, StreamsIntact, LenProperties DEF SoundFrames

\* Bytes are a sound frame where there is a head and the check is right.
LEMMA SoundWhere ==
    ASSUME NEW s \in Streams, NEW o \in Nat
    PROVE  o \in SoundFrames(s) <=>
             /\ Byte(s, o) = HEAD_1 /\ Byte(s, o + 1) = HEAD_2
             /\ Byte(s, o + 2) = Check(Segment(s, o + 3, Byte(s, o + 4) + 2))
<1> DEFINE n == HeadLen + Byte(s, o + 4)
           f == Segment(s, o, n)
<1>0. o + 4 \in Nat /\ Byte(s, o + 4) \in Nat
  <2>1. o + 4 \in Nat
    OBVIOUS
  <2> QED
    BY <2>1, SegmentBytes
<1>1. AfterIntact(s, o) - o = n /\ n \in Nat /\ n >= 5 /\ n = Byte(s, o + 4) + 5
  BY <1>0 DEF AfterIntact, HeadLen
<1>2. o \in SoundFrames(s) <=>
        o < Len(s.bytes) /\ At(f, 0) = HEAD_1 /\ At(f, 1) = HEAD_2 /\ Sound(f, 0)
  BY <1>1, StreamTypes DEF SoundFrames
<1> HIDE DEF n
<1>3. /\ At(f, 0) = Byte(s, o) /\ At(f, 1) = Byte(s, o + 1) /\ At(f, 2) = Byte(s, o + 2)
      /\ At(f, 4) = Byte(s, o + 4)
  <2>1. \A i \in 0 .. n - 1 : At(f, i) = Byte(s, o + i)
    BY <1>1, SegmentBytes
  <2>2. 0 \in 0 .. n - 1 /\ 1 \in 0 .. n - 1 /\ 2 \in 0 .. n - 1 /\ 4 \in 0 .. n - 1 /\ o + 0 = o
    BY <1>1
  <2> HIDE DEF f
  <2> QED
    BY <2>1, <2>2
<1>4. EndOf(f, 0) = n
  <2> HIDE DEF f
  <2> QED
    BY <1>0, <1>1, <1>3 DEF EndOf, Size, HeadLen
<1>5. SubSeq(f, 4, n) = Segment(s, o + 3, Byte(s, o + 4) + 2)
  <2>1. 3 \in 0 .. n /\ 3 + 1 = 4 /\ n - 3 = Byte(s, o + 4) + 2
    BY <1>0, <1>1
  <2>2. SubSeq(Segment(s, o, n), 3 + 1, n) = Segment(s, o + 3, n - 3)
    BY <1>1, <2>1, SegmentAfter
  <2> QED
    BY <2>1, <2>2
<1>6. Sound(f, 0) <=> Byte(s, o + 2) = Check(Segment(s, o + 3, Byte(s, o + 4) + 2))
  <2>1. 0 + 2 = 2 /\ 0 + 4 = 4
    OBVIOUS
  <2> HIDE DEF f
  <2> QED
    BY <1>3, <1>4, <1>5, <2>1, Zenon DEF Sound
<1>7. Byte(s, o) = HEAD_1 => o < Len(s.bytes)
  BY StreamTypes DEF Byte, FILL_BYTE, HEAD_1
<1> QED
  BY <1>2, <1>3, <1>6, <1>7

\* In a segment a sound frame is told by its head and its check.
LEMMA SoundSeen ==
    ASSUME NEW s \in Streams, NEW c \in Nat, NEW n \in Nat, NEW buf, buf = Segment(s, c, n),
           NEW h \in 0 .. n, h + HeadLen <= n, Whole(buf, h), HeadAt(buf, h)
    PROVE  /\ c + h \in SoundFrames(s) <=> Sound(buf, h)
           /\ AfterFrame(buf, h) + c = AfterIntact(s, c + h)
           /\ Cmd(buf, h) = Byte(s, c + h + 3)
<1>1. buf \in Seq(Nat) /\ Len(buf) = n /\ \A i \in 0 .. n - 1 : At(buf, i) = Byte(s, c + i)
  BY SegmentBytes
<1>2. /\ At(buf, h) = Byte(s, c + h) /\ At(buf, h + 1) = Byte(s, c + h + 1)
      /\ At(buf, h + 2) = Byte(s, c + h + 2) /\ At(buf, h + 3) = Byte(s, c + h + 3)
      /\ At(buf, h + 4) = Byte(s, c + h + 4)
  BY <1>1 DEF HeadLen
<1> DEFINE z == Byte(s, c + h + 4)
<1>3. z \in Nat /\ Size(buf, h) = z /\ EndOf(buf, h) = h + 5 + z /\ h + 5 + z <= n
  <2>1. c + h + 4 \in Nat
    OBVIOUS
  <2>2. z \in Nat
    BY <2>1, SegmentBytes
  <2> HIDE DEF z
  <2> QED
    BY <1>1, <1>2, <2>2 DEF z, Size, EndOf, Whole, HeadLen
<1>4. SubSeq(buf, h + 4, EndOf(buf, h)) = Segment(s, c + h + 3, z + 2)
  <2>1. /\ h + 4 \in 1 .. n + 1 /\ h + 5 + z \in 0 .. n /\ h + 4 <= h + 5 + z + 1
        /\ c + (h + 4) - 1 = c + h + 3 /\ h + 5 + z - (h + 4) + 1 = z + 2
    BY <1>3
  <2>2. n \in Nat /\ buf = Segment(s, c, n)
    OBVIOUS
  <2> HIDE DEF z
  <2>3. \A a \in 1 .. n + 1, b \in 0 .. n :
          a <= b + 1 => SubSeq(buf, a, b) = Segment(s, c + a - 1, b - a + 1)
    <3> SUFFICES ASSUME NEW a \in 1 .. n + 1, NEW b \in 0 .. n, a <= b + 1
                 PROVE  SubSeq(Segment(s, c, n), a, b) = Segment(s, c + a - 1, b - a + 1)
      BY <2>2
    <3> QED
      BY PartOfSegment
  <2>4. PICK a \in 1 .. n + 1, b \in 0 .. n : a = h + 4 /\ b = h + 5 + z /\ a <= b + 1
    BY <2>1
  <2>5. c + a - 1 = c + h + 3 /\ b - a + 1 = z + 2
    BY <1>3, <2>4
  <2>6. SubSeq(buf, a, b) = Segment(s, c + h + 3, z + 2)
    BY <2>3, <2>4, <2>5
  <2> QED
    BY <1>3, <2>4, <2>6
<1>5. c + h \in Nat
  OBVIOUS
<1>6. c + h \in SoundFrames(s) <=> Sound(buf, h)
  BY <1>2, <1>4, <1>5, SoundWhere DEF Sound, HeadAt
<1>7. AfterFrame(buf, h) + c = AfterIntact(s, c + h)
  BY <1>3 DEF AfterFrame, AfterIntact, HeadLen
<1> QED
  BY <1>2, <1>6, <1>7 DEF Cmd

-----------------------------------------------------------------------------
(* How many of them there are before an offset. *)

LEMMA CountedFrames ==
    ASSUME NEW s \in Streams, NEW o \in Nat
    PROVE  /\ IsFiniteSet(IntactFrames(s) \cap (0 .. o - 1))
           /\ FramesBefore(s, o) \in Nat /\ FramesBefore(s, o) <= Len(s.intact)
<1>1. IsFiniteSet(IntactFrames(s)) /\ Cardinality(IntactFrames(s)) = Len(s.intact)
  <2>1. IntactFrames(s) \subseteq 0 .. Len(s.bytes) - 1
    BY StreamsIntact DEF SoundFrames
  <2>2. IsFiniteSet(0 .. Len(s.bytes) - 1)
    BY StreamTypes, FS_Interval
  <2> QED
    BY <2>1, <2>2, FS_Subset, StreamsIntact
<1> DEFINE t == IntactFrames(s) \cap (0 .. o - 1)
<1>2. t \subseteq IntactFrames(s)
  OBVIOUS
<1>3. IsFiniteSet(t) /\ Cardinality(t) <= Cardinality(IntactFrames(s)) /\ Cardinality(t) \in Nat
  BY <1>1, <1>2, FS_Subset, FS_CardinalityType
<1> QED
  BY <1>1, <1>3 DEF FramesBefore

\* No frame begins between two offsets, ...
LEMMA NoneBetween ==
    ASSUME NEW s \in Streams, NEW o \in Nat, NEW p \in Nat, o <= p,
           \A i \in IntactFrames(s) : i < o \/ p <= i
    PROVE  FramesBefore(s, o) = FramesBefore(s, p)
<1>1. IntactFrames(s) \subseteq Nat
  BY StreamTypes
<1>2. IntactFrames(s) \cap (0 .. o - 1) = IntactFrames(s) \cap (0 .. p - 1)
  BY <1>1
<1> QED
  BY <1>2 DEF FramesBefore

\* ... and one does: no other begins before it ends.
LEMMA OneCounted ==
    ASSUME NEW s \in Streams, NEW o \in IntactFrames(s)
    PROVE  /\ AfterIntact(s, o) \in Nat /\ o < AfterIntact(s, o)
           /\ FramesBefore(s, AfterIntact(s, o)) = FramesBefore(s, o) + 1
           /\ s.intact[FramesBefore(s, o) + 1] = Byte(s, o + 3)
<1>1. o \in Nat /\ IntactFrames(s) \subseteq Nat
  BY StreamTypes
<1> DEFINE a == AfterIntact(s, o)
           t == IntactFrames(s) \cap (0 .. o - 1)
<1>2. a \in Nat /\ o < a
  <2>1. o + 4 \in Nat
    BY <1>1
  <2>2. Byte(s, o + 4) \in Nat
    BY <2>1, SegmentBytes
  <2> QED
    BY <1>1, <2>2 DEF AfterIntact, HeadLen
<1>3. \A p \in IntactFrames(s) : o < p => a <= p
  BY StreamsIntact
<1>4. IntactFrames(s) \cap (0 .. a - 1) = t \cup {o}
  BY <1>1, <1>2, <1>3
<1>5. o \notin t /\ IsFiniteSet(t)
  BY <1>1, CountedFrames
<1>6. Cardinality(t \cup {o}) = Cardinality(t) + 1
  BY <1>5, FS_AddElement
<1> QED
  BY <1>2, <1>4, <1>6, StreamsIntact DEF FramesBefore

LEMMA AllCounted ==
    ASSUME NEW s \in Streams, NEW o \in Nat, \A p \in IntactFrames(s) : p < o
    PROVE  FramesBefore(s, o) = Len(s.intact)
<1>1. IntactFrames(s) \cap (0 .. o - 1) = IntactFrames(s)
  BY StreamTypes
<1> QED
  BY <1>1, StreamsIntact DEF FramesBefore

-----------------------------------------------------------------------------
(* What the analysis finds in a segment. *)

\* No intact frame lies across an offset; the commands before it.
Between(s, c) == \A o \in IntactFrames(s) : c <= o \/ AfterIntact(s, o) <= c
CommandsBefore(s, c) == SubSeq(s.intact, 1, FramesBefore(s, c))

\* A sound frame at an offset across which none lies is none of the data of another.
LEMMA SoundBetween ==
    ASSUME NEW s \in Streams, NEW p \in SoundFrames(s), Between(s, p)
    PROVE  p \in IntactFrames(s)
<1>1. PICK o \in IntactFrames(s) : o <= p /\ p < AfterIntact(s, o)
  BY StreamsIntact
<1>2. p \in Nat /\ o \in Nat /\ AfterIntact(s, o) \in Nat
  BY StreamTypes, OneCounted DEF SoundFrames
<1>3. p <= o
  BY <1>1, <1>2 DEF Between
<1> QED
  BY <1>1, <1>2, <1>3

\* None lies across the end of one.
LEMMA BetweenNext ==
    ASSUME NEW s \in Streams, NEW o \in IntactFrames(s)
    PROVE  Between(s, AfterIntact(s, o))
<1>1. SUFFICES ASSUME NEW i \in IntactFrames(s)
               PROVE  AfterIntact(s, o) <= i \/ AfterIntact(s, i) <= AfterIntact(s, o)
  BY DEF Between
<1>2. o < i \/ i = o \/ i < o
  BY StreamTypes
<1>3. /\ AfterIntact(s, i) \in Nat /\ AfterIntact(s, o) \in Nat /\ o \in Nat
      /\ o < AfterIntact(s, o)
  BY StreamTypes, OneCounted
<1>4. CASE o < i
  BY <1>4, StreamsIntact
<1>5. CASE i = o
  BY <1>3, <1>5
<1>6. CASE i < o
  <2>1. AfterIntact(s, i) <= o
    BY <1>6, StreamsIntact
  <2> QED
    BY <1>3, <2>1
<1> QED
  BY <1>2, <1>4, <1>5, <1>6

\* What the analysis of n bytes from c on finds from o on are exactly the commands
\* of the intact frames up to the rest, across which none lies.
Finds(s, c, n, o, found) ==
    /\ found \in [cmds : Seq(Nat), rest : o .. n]
    /\ Between(s, c + found.rest)
    /\ CommandsBefore(s, c + o) \o found.cmds = CommandsBefore(s, c + found.rest)

LEMMA CommandsType ==
    ASSUME NEW s \in Streams, NEW c \in Nat
    PROVE  CommandsBefore(s, c) \in Seq(Nat) /\ Len(CommandsBefore(s, c)) = FramesBefore(s, c)
<1>1. s.intact \in Seq(Nat) /\ Len(s.intact) \in Nat
  BY StreamTypes
<1>2. FramesBefore(s, c) \in Nat /\ FramesBefore(s, c) <= Len(s.intact)
  BY CountedFrames
<1> DEFINE k == FramesBefore(s, c)
<1> HIDE DEF k
<1>3. SubSeq(s.intact, 1, k) \in Seq(Nat) /\ Len(SubSeq(s.intact, 1, k)) = k
  BY <1>1, <1>2, SubSeqProperties DEF k
<1> QED
  BY <1>3 DEF CommandsBefore, k

LEMMA CommandsInARow == \A x, y, z \in Seq(Nat) : (x \o y) \o z = x \o (y \o z)
<1> SUFFICES ASSUME NEW x \in Seq(Nat), NEW y \in Seq(Nat), NEW z \in Seq(Nat)
             PROVE  (x \o y) \o z = x \o (y \o z)
  OBVIOUS
<1> QED
  BY SMT

\* One command more.
LEMMA NextCommand ==
    ASSUME NEW s \in Streams, NEW o \in IntactFrames(s)
    PROVE  CommandsBefore(s, AfterIntact(s, o)) = Append(CommandsBefore(s, o), Byte(s, o + 3))
<1> DEFINE k == FramesBefore(s, o)
           t == s.intact
<1>1. o \in Nat /\ AfterIntact(s, o) \in Nat
  BY StreamTypes, OneCounted
<1>2. FramesBefore(s, AfterIntact(s, o)) = k + 1 /\ t[k + 1] = Byte(s, o + 3)
  BY OneCounted
<1>3. k \in Nat /\ k + 1 <= Len(t) /\ t \in Seq(Nat) /\ Len(t) \in Nat
  BY <1>1, <1>2, CountedFrames, StreamTypes
<1> HIDE DEF k, t
<1>4. SubSeq(t, 1, k + 1) = Append(SubSeq(t, 1, k), t[k + 1])
  <2>1. SubSeq(t, 1, k) \in Seq(Nat) /\ Len(SubSeq(t, 1, k)) = k
        /\ \A i \in 1 .. k : SubSeq(t, 1, k)[i] = t[i]
    BY <1>3, SubSeqProperties
  <2>2. SubSeq(t, 1, k + 1) \in Seq(Nat) /\ Len(SubSeq(t, 1, k + 1)) = k + 1
        /\ \A i \in 1 .. k + 1 : SubSeq(t, 1, k + 1)[i] = t[i]
    BY <1>3, SubSeqProperties
  <2>3. t[k + 1] \in Nat
    BY <1>3
  <2> DEFINE p == SubSeq(t, 1, k)
             q == SubSeq(t, 1, k + 1)
  <2> HIDE DEF p, q
  <2>4. Append(p, t[k + 1]) \in Seq(Nat) /\ Len(Append(p, t[k + 1])) = k + 1
        /\ \A i \in 1 .. k + 1 : Append(p, t[k + 1])[i] = IF i <= k THEN p[i] ELSE t[k + 1]
    BY <1>3, <2>1, <2>3, AppendProperties DEF p
  <2>5. \A i \in 1 .. k + 1 : q[i] = Append(p, t[k + 1])[i]
    BY <1>3, <2>1, <2>2, <2>4 DEF p, q
  <2>6. q = Append(p, t[k + 1])
    BY <2>2, <2>4, <2>5, SeqEqual DEF q
  <2> QED
    BY <2>6 DEF p, q
<1> QED
  BY <1>2, <1>4 DEF CommandsBefore, k, t

\* Nothing is found between two offsets where no frame begins.
LEMMA SkipNothing ==
    ASSUME NEW s \in Streams, NEW a \in Nat, NEW b \in Nat, a <= b, Between(s, a),
           \A i \in IntactFrames(s) : i < a \/ b <= i
    PROVE  Between(s, b) /\ CommandsBefore(s, b) = CommandsBefore(s, a)
<1>1. \A i \in IntactFrames(s) : i \in Nat /\ AfterIntact(s, i) \in Nat /\ i < AfterIntact(s, i)
  BY StreamTypes, OneCounted
<1>2. Between(s, b)
  BY <1>1 DEF Between
<1>3. FramesBefore(s, a) = FramesBefore(s, b)
  BY NoneBetween
<1> QED
  BY <1>2, <1>3 DEF CommandsBefore

\* Up to the head that is found no frame begins.
LEMMA NoneBeforeHead ==
    ASSUME NEW s \in Streams, NEW c \in Nat, NEW n \in Nat, NEW buf, buf = Segment(s, c, n),
           NEW o \in 0 .. n, NEW h, h = FindHead(buf, o)
    PROVE  h \in o .. n /\ \A i \in IntactFrames(s) : i < c + o \/ c + h <= i
<1>1. buf \in Seq(Nat) /\ Len(buf) = n /\ \A i \in 0 .. n - 1 : At(buf, i) = Byte(s, c + i)
  BY SegmentBytes
<1>2. h \in o .. n /\ \A i \in o .. h - 1 : ~HeadAt(buf, i) /\ ~HalfHeadAt(buf, i)
  BY <1>1, HeadFound
<1>3. SUFFICES ASSUME NEW i \in IntactFrames(s), c + o <= i, i < c + h PROVE FALSE
  BY <1>2, StreamTypes
<1>4. i \in Nat /\ Byte(s, i) = HEAD_1 /\ Byte(s, i + 1) = HEAD_2
  BY StreamTypes, StreamsIntact, SoundWhere
<1> DEFINE j == i - c
<1>5. j \in o .. h - 1 /\ i = c + j /\ i + 1 = c + (j + 1)
  BY <1>2, <1>3, <1>4
<1> HIDE DEF j
<1>6. At(buf, j) = HEAD_1
  BY <1>1, <1>2, <1>4, <1>5
<1>7. j + 1 < n => At(buf, j + 1) = HEAD_2
  BY <1>1, <1>2, <1>4, <1>5
<1>8. j + 1 < n \/ j + 1 = n
  BY <1>2, <1>5
<1> QED
  BY <1>1, <1>2, <1>5, <1>6, <1>7, <1>8 DEF HeadAt, HalfHeadAt

\* One round finds what is there, if the rounds after it do.
LEMMA RoundFinds ==
    ASSUME NEW s \in Streams, NEW c \in Nat, NEW n \in Nat, n <= RxMax, NEW buf, buf = Segment(s, c, n),
           NEW o \in 0 .. n, Between(s, c + o), NEW f,
           \A p \in o + 1 .. n : Between(s, c + p) => Finds(s, c, n, p, f[p])
    PROVE  Finds(s, c, n, o, Round(buf, f, o))
<1> DEFINE h == FindHead(buf, o)
<1>1. buf \in Seq(Nat) /\ Len(buf) = n /\ ~(Len(buf) > RxMax)
  BY SegmentBytes, LinkAssumption
<1>2. h \in o .. n /\ \A i \in IntactFrames(s) : i < c + o \/ c + h <= i
  BY NoneBeforeHead
<1>3. Between(s, c + h) /\ CommandsBefore(s, c + h) = CommandsBefore(s, c + o)
  BY <1>2, SkipNothing
<1> HIDE DEF h
<1>4. CASE Round(buf, f, o) = Kept(h)
  <2>1. Kept(h).cmds = << >> /\ Kept(h).rest = h
    BY DEF Kept
  <2>2. CommandsBefore(s, c + o) \o << >> = CommandsBefore(s, c + o)
    BY CommandsType, ConcatEmptySeq
  <2>3. Kept(h) \in [cmds : Seq(Nat), rest : o .. n]
    <3>1. << >> \in Seq(Nat)
      OBVIOUS
    <3> QED
      BY <1>2, <3>1 DEF Kept
  <2> QED
    BY <1>3, <1>4, <2>1, <2>2, <2>3 DEF Finds
<1>5. CASE ~(h + HeadLen > n)
  <2>1. h + HeadLen <= n
    BY <1>2, <1>5 DEF HeadLen
  <2>2. /\ HeadAt(buf, h) /\ AfterBad(buf, h) \in o + 1 .. n
        /\ Whole(buf, h) => AfterFrame(buf, h) \in o + 1 .. n
    BY <1>1, <2>1, RoundsGoOn DEF h
  <2>3. CASE Whole(buf, h) /\ Sound(buf, h)
    <3> DEFINE p == AfterFrame(buf, h)
    <3>0. h \in 0 .. n /\ p \in o + 1 .. n
      BY <1>2, <2>2, <2>3
    <3>1. /\ c + h \in IntactFrames(s) /\ c + p = AfterIntact(s, c + h)
          /\ Cmd(buf, h) = Byte(s, c + h + 3)
      <4>1. /\ c + h \in SoundFrames(s) /\ p + c = AfterIntact(s, c + h)
            /\ Cmd(buf, h) = Byte(s, c + h + 3)
        BY <2>1, <2>2, <2>3, <3>0, SoundSeen
      <4>2. p + c = c + p
        BY <3>0
      <4>3. c + h \in IntactFrames(s)
        BY <1>3, <4>1, SoundBetween
      <4> QED
        BY <4>1, <4>2, <4>3
    <3>2. Between(s, c + p)
      BY <3>1, BetweenNext
    <3>3. Finds(s, c, n, p, f[p])
      <4> HIDE DEF p
      <4> QED
        BY <3>0, <3>2
    <3>4. CommandsBefore(s, c + p) = Append(CommandsBefore(s, c + o), Cmd(buf, h))
      BY <1>3, <3>1, NextCommand
    <3>5. Round(buf, f, o) = Before(Cmd(buf, h), f[p])
      BY <1>1, <1>5, <2>3 DEF Round, h
    <3> HIDE DEF p
    <3> DEFINE was == CommandsBefore(s, c + o)
               cmd == Cmd(buf, h)
               found == f[p]
    <3>6. was \in Seq(Nat) /\ cmd \in Nat
      <4>1. c + o \in Nat /\ c + h + 3 \in Nat
        BY <1>2
      <4> QED
        BY <3>1, <4>1, CommandsType, SegmentBytes
    <3>7. /\ found \in [cmds : Seq(Nat), rest : p .. n] /\ Between(s, c + found.rest)
          /\ Append(was, cmd) \o found.cmds = CommandsBefore(s, c + found.rest)
      BY <3>3, <3>4 DEF Finds
    <3> HIDE DEF was, cmd, found
    <3>8. /\ Before(cmd, found) \in [cmds : Seq(Nat), rest : o .. n]
          /\ Before(cmd, found).cmds = <<cmd>> \o found.cmds
          /\ Before(cmd, found).rest = found.rest
      <4>1. found.cmds \in Seq(Nat) /\ <<cmd>> \in Seq(Nat) /\ found.rest \in o .. n
        BY <3>0, <3>6, <3>7 DEF p
      <4>2. <<cmd>> \o found.cmds \in Seq(Nat)
        BY <4>1, ConcatProperties
      <4> QED
        BY <3>7, <4>1, <4>2 DEF Before
    <3>9. was \o (<<cmd>> \o found.cmds) = Append(was, cmd) \o found.cmds
      <4>0. Append(was, cmd) = was \o <<cmd>>
        BY <3>6, AppendIsConcat
      <4>1. found.cmds \in Seq(Nat) /\ <<cmd>> \in Seq(Nat)
        BY <3>6, <3>7
      <4>2. (was \o <<cmd>>) \o found.cmds = was \o (<<cmd>> \o found.cmds)
        BY <3>6, <4>1, CommandsInARow, Zenon
      <4> QED
        BY <4>0, <4>2
    <3> QED
      BY <3>5, <3>7, <3>8, <3>9 DEF Finds, was, cmd, found
  <2>4. CASE Whole(buf, h) /\ ~Sound(buf, h)
    <3>1. Round(buf, f, o) = f[AfterBad(buf, h)]
      BY <1>1, <1>5, <2>4 DEF Round, h
    <3> DEFINE b == AfterBad(buf, h)
    <3>2. b = h + 2 /\ h \in 0 .. n /\ b \in o + 1 .. n /\ c + b \in Nat
      BY <1>2, <2>2 DEF AfterBad
    <3>3. c + h \notin IntactFrames(s)
      BY <2>1, <2>2, <2>4, <3>2, SoundSeen, StreamsIntact
    <3>4. c + h + 1 \notin IntactFrames(s)
      <4>1. At(buf, h + 1) = Byte(s, c + (h + 1)) /\ c + (h + 1) = c + h + 1 /\ c + h + 1 \in Nat
        BY <2>1, <3>2, SegmentBytes DEF HeadLen
      <4>2. Byte(s, c + h + 1) = HEAD_2
        BY <2>2, <4>1 DEF HeadAt
      <4> QED
        BY <4>1, <4>2, SoundWhere, StreamsIntact DEF HEAD_1, HEAD_2
    <3>5. \A i \in IntactFrames(s) : i < c + o \/ c + b <= i
      <4>1. ASSUME NEW i \in IntactFrames(s), ~(i < c + o) PROVE c + b <= i
        <5>1. i \in Nat /\ c + h <= i /\ i # c + h /\ i # c + h + 1
          BY <1>2, <3>3, <3>4, <4>1, StreamTypes
        <5> QED
          BY <3>2, <5>1
      <4> QED
        BY <4>1
    <3>6. Between(s, c + b) /\ CommandsBefore(s, c + b) = CommandsBefore(s, c + o)
      <4>1. c + o \in Nat /\ c + o <= c + b
        BY <3>2
      <4> QED
        BY <3>2, <3>5, <4>1, SkipNothing
    <3>7. Finds(s, c, n, b, f[b])
      BY <3>2, <3>6
    <3> HIDE DEF b
    <3>8. f[b] \in [cmds : Seq(Nat), rest : b .. n] => f[b] \in [cmds : Seq(Nat), rest : o .. n]
      BY <3>2
    <3> QED
      BY <3>1, <3>6, <3>7, <3>8 DEF Finds, b
  <2>5. CASE ~Whole(buf, h)
    BY <1>1, <1>4, <1>5, <2>5 DEF Round, h
  <2> QED
    BY <2>3, <2>4, <2>5
<1>6. CASE h + HeadLen > n
  BY <1>1, <1>4, <1>6 DEF Round, h
<1> QED
  BY <1>5, <1>6

\* The analysis finds what is there.
LEMMA SegmentAnalysed ==
    ASSUME NEW s \in Streams, NEW c \in Nat, NEW n \in Nat, n <= RxMax, Between(s, c),
           NEW buf, buf = Segment(s, c, n)
    PROVE  Finds(s, c, n, 0, Analysed(buf))
<1>1. buf \in Seq(Nat) /\ Len(buf) = n
  BY SegmentBytes
<1>2. PICK f : \A o \in 0 .. n : FoundFrom(buf, o) = f[o] /\ f[o] = Round(buf, f, o)
  BY <1>1, FoundInRounds
<1> DEFINE Missed(k) == \E o \in 0 .. n : n - o = k /\ Between(s, c + o) /\ ~Finds(s, c, n, o, f[o])
           T == {k \in Nat : Missed(k)}
<1>3. T = {}
  <2>1. SUFFICES ASSUME T # {} PROVE FALSE
    OBVIOUS
  <2>2. PICK k \in T : \A j \in T : k <= j
    <3>1. T \subseteq Nat
      OBVIOUS
    <3> HIDE DEF T
    <3> QED
      BY <2>1, <3>1, LeastNumber
  <2>3. PICK o \in 0 .. n : n - o = k /\ Between(s, c + o) /\ ~Finds(s, c, n, o, f[o])
    OBVIOUS
  <2>4. ASSUME NEW p \in o + 1 .. n, Between(s, c + p) PROVE Finds(s, c, n, p, f[p])
    <3>1. n - p \in Nat /\ p \in 0 .. n /\ ~(k <= n - p)
      BY <2>3
    <3>2. n - p \notin T
      BY <2>2, <3>1
    <3> QED
      BY <2>4, <3>1, <3>2
  <2>5. Finds(s, c, n, o, Round(buf, f, o))
    BY <2>3, <2>4, RoundFinds
  <2> QED
    BY <1>2, <2>3, <2>5
<1>4. Finds(s, c, n, 0, f[0])
  <2>1. 0 \in 0 .. n /\ n - 0 \in Nat /\ c + 0 = c
    OBVIOUS
  <2>2. n - 0 \notin T
    BY <1>3
  <2> QED
    BY <2>1, <2>2
<1>5. CASE ~(n < HeadLen)
  BY <1>1, <1>2, <1>4, <1>5 DEF Analysed
<1>6. CASE n < HeadLen
  <2>1. Kept(0) \in [cmds : Seq(Nat), rest : 0 .. n] /\ Kept(0).cmds = << >> /\ c + Kept(0).rest = c
    BY DEF Kept
  <2>2. CommandsBefore(s, c) \o << >> = CommandsBefore(s, c) /\ c + 0 = c
    BY CommandsType, ConcatEmptySeq
  <2>3. Analysed(buf) = Kept(0)
    BY <1>1, <1>6 DEF Analysed
  <2>4. Finds(s, c, n, 0, Kept(0))
    BY <2>1, <2>2 DEF Finds
  <2> QED
    BY <2>3, <2>4
<1> QED
  BY <1>5, <1>6

-----------------------------------------------------------------------------
(* Types, whatever the senders do to each other. *)

Message == {"rx", "tx"}
Threads ==
    /\ pc.app \in {"idle", "check", "put", "bump", "notify", "list", "ask", "set", "post"}
    /\ pc.link \in {"idle", "clear", "read", "parse", "send", "check", "put", "bump", "notify", "unlist", "ask", "set", "post"}
    /\ pc.spi \in {"select", "drain", "loop", "taken", "ask", "set", "post"}
    /\ job \in {"none"} \cup Message /\ msgs \in Seq(Message)
Notes ==
    /\ uMsgFlag \subseteq Message /\ reg \in [Thread -> SUBSET Message]
    /\ conn \in {"no", "asked", "yes"} /\ more \in BOOLEAN /\ broken \in BOOLEAN
    /\ cause \subseteq {"overlap", "flag", "rxFull"}
\* The nodes of the list.
Listing ==
    /\ Listed /\ sent \in Nat /\ sent <= MaxSend /\ tx_buf \in AppFrame \cup Ack \cup {NoFrame}
    /\ wait \in Seq(AnyFrame) /\ free \in Nat /\ free + Len(wait) = Nodes
Indexed ==
    /\ w \in Nat /\ r \in Nat /\ pipe \in Nat /\ at \in [Sender -> Nat]
    /\ cells \in [0 .. Cells - 1 -> AnyFrame] /\ block \in Seq(AnyFrame)
Receiving ==
    /\ stream \in Streams /\ came \in Nat /\ came <= Len(stream.bytes)
    /\ rxRing \in Seq(Nat) /\ Len(rxRing) <= RxRing
    /\ rxBuf \in Seq(Nat) /\ Len(rxBuf) <= RxMax
    /\ todo \in Seq(Nat) /\ heard \in Seq(Nat)
Kinds == Threads /\ Notes /\ Listing /\ Indexed /\ Receiving

LEMMA KindsAreTypes == Kinds => TypeOK
  BY DEF Kinds, Threads, Notes, Listing, Indexed, Receiving, TypeOK, Message, Sender

LEMMA InitKinds == Init => Kinds
<1> SUFFICES ASSUME Init PROVE Kinds
  OBVIOUS
<1>1. Threads
  <2>1. msgs = << >> /\ << >> \in Seq(Message)
    BY DEF Init
  <2> QED
    BY <2>1 DEF Init, Threads
<1>2. Notes
  BY DEF Init, Notes, Thread
<1>3. Listing
  BY LinkAssumption DEF Init, Listing, Listed, SendingNode
<1>4. Indexed
  <2>1. NoFrame \in AnyFrame
    BY DEF AnyFrame
  <2>2. cells \in [0 .. Cells - 1 -> AnyFrame] /\ at \in [Sender -> Nat] /\ block \in Seq(AnyFrame)
    BY <2>1 DEF Init, Sender
  <2> QED
    BY <2>2 DEF Init, Indexed
<1>5. Receiving
  <2>1. stream \in Streams /\ Len(stream.bytes) \in Nat
    BY StreamTypes DEF Init
  <2>2. << >> \in Seq(Nat) /\ Len(<< >>) = 0
    OBVIOUS
  <2> QED
    BY <2>1, <2>2, LinkAssumption DEF Init, Receiving
<1> QED
  BY <1>1, <1>2, <1>3, <1>4, <1>5 DEF Kinds

\* Where a step takes a thread.
LEMMA ThreadsKept == Places /\ Threads /\ [Next]_vars => Threads'
<1> SUFFICES ASSUME Places, Threads, [Next]_vars PROVE Threads'
  OBVIOUS
<1>0. pc = [t \in Thread |-> pc[t]]
  BY DEF Places
<1>1. ASSUME NEW t \in Thread, NEW l, Goto(t, l), msgs' = msgs,
             t = "app" => l \in {"idle", "check", "put", "bump", "notify", "list", "ask", "set", "post"},
             t = "link" => l \in {"idle", "read", "parse", "send", "check", "put", "bump", "notify", "unlist", "ask", "set", "post"},
             t = "spi" => l \in {"select", "drain", "loop", "taken", "ask", "set", "post"}
      PROVE  Threads'
  BY <1>0, <1>1 DEF Threads, Goto, Thread
<1>2. CASE StartSend \/ ListFrame
  BY <1>1, <1>2 DEF StartSend, ListFrame, flagVars, Thread
<1>3. ASSUME NEW t \in Sender, Write(t) PROVE Threads'
  <2>1. CASE FindRoom(t) \/ PutFrame(t) \/ BumpIndex(t)
    BY <1>1, <2>1 DEF FindRoom, PutFrame, BumpIndex, flagVars, Thread, Sender
  <2>2. CASE FindFull(t)
    BY <1>1, <2>2 DEF FindFull, flagVars, Thread, Sender
  <2>3. CASE Notify(t)
    BY <1>1, <2>3 DEF Notify, flagVars, Thread, Sender
  <2> QED
    BY <1>3, <2>1, <2>2, <2>3 DEF Write
<1>4. ASSUME NEW t \in Thread, AskFlag(t) \/ SetFlag(t) PROVE Threads'
  BY <1>1, <1>4 DEF AskFlag, SetFlag, Done, Thread
<1>5. ASSUME NEW t \in Thread, PostMessage(t) PROVE Threads'
  <2>1. Flag[t] \in Message /\ msgs \in Seq(Message)
    BY DEF Flag, Thread, Message, Threads
  <2>2. msgs' \in Seq(Message)
    BY <1>5, <2>1 DEF PostMessage
  <2>3. pc' = [pc EXCEPT ![t] = Done[t]] /\ job' \in {job, "none"}
    BY <1>5 DEF PostMessage, Goto
  <2> QED
    BY <1>0, <2>2, <2>3 DEF Threads, Done, Thread
<1>6. CASE TakeMessage
  <2>1. msgs \in Seq(Message) /\ msgs # << >>
    BY <1>6 DEF TakeMessage, Threads
  <2>2. Head(msgs) \in Message /\ Tail(msgs) \in Seq(Message)
    BY <2>1
  <2> QED
    BY <1>0, <1>6, <2>2 DEF TakeMessage, Threads, Thread
<1>7. CASE ClearFlag \/ SendWaiting \/ NoneWaiting \/ UnlistFrame
  BY <1>1, <1>7 DEF ClearFlag, SendWaiting, NoneWaiting, UnlistFrame, flagVars, Thread
<1>8. CASE ReadBytes \/ ReadNothing \/ AllHeard
  BY <1>1, <1>8 DEF ReadBytes, ReadNothing, AllHeard, flagVars, Thread
<1>9. CASE HearFrame
  <2>1. CASE Head(todo) \in {REQ_CMD, BEAT_CMD}
    BY <1>1, <1>9, <2>1 DEF HearFrame, flagVars, Thread
  <2>2. CASE Head(todo) \notin {REQ_CMD, BEAT_CMD}
    BY <1>9, <2>2 DEF HearFrame, flagVars, Threads
  <2> QED
    BY <2>1, <2>2
<1>10. CASE Select \/ DrainPipe \/ NothingToSend \/ TakeBlock \/ Transfer
  BY <1>1, <1>10 DEF Select, DrainPipe, NothingToSend, TakeBlock, Transfer, flagVars, Thread
<1>11. CASE UNCHANGED vars
  BY <1>11 DEF vars, flagVars, Threads
<1> QED
  BY <1>2, <1>3, <1>4, <1>5, <1>6, <1>7, <1>8, <1>9, <1>10, <1>11
  DEF Next, App, Link, Spi, Request, Sender, Thread

LEMMA NotesKept == Notes /\ Threads /\ [Next]_vars => Notes'
<1> SUFFICES ASSUME Notes, Threads, [Next]_vars PROVE Notes'
  OBVIOUS
<1>1. Flag \in [Thread -> Message]
  BY DEF Flag, Thread, Message
<1>2. CASE StartSend \/ ListFrame
  BY <1>2 DEF StartSend, ListFrame, Overlap, flagVars, rxVars, listVars, Notes
<1>3. ASSUME NEW t \in Sender, Write(t) PROVE Notes'
  <2>1. UNCHANGED <<flagVars, conn, more, cause>>
    BY <1>3 DEF Write, FindRoom, FindFull, PutFrame, BumpIndex, Notify, rxVars, listVars
  <2>2. broken' = broken \/ broken' \in BOOLEAN
    <3>1. /\ (t = "app" /\ pc.link = "unlist") \in BOOLEAN /\ (w' < r) \in BOOLEAN
          /\ (t = "link" /\ job = "tx" /\ pc.app = "list") \in BOOLEAN
      OBVIOUS
    <3>2. CASE FindRoom(t) \/ PutFrame(t)
      BY <3>2, Zenon DEF FindRoom, PutFrame
    <3>3. CASE FindFull(t)
      BY <3>1, <3>3, Zenon DEF FindFull
    <3>4. CASE BumpIndex(t)
      BY <3>1, <3>4, Zenon DEF BumpIndex
    <3>5. CASE Notify(t)
      BY <3>1, <3>5, Zenon DEF Notify
    <3> QED
      BY <1>3, <3>2, <3>3, <3>4, <3>5, Zenon DEF Write
  <2>3. broken' \in BOOLEAN
    BY <2>2 DEF Notes
  <2> QED
    BY <2>1, <2>3 DEF flagVars, Notes
<1>4. ASSUME NEW t \in Thread, Request(t) PROVE Notes'
  <2>1. UNCHANGED <<conn, more, broken>>
    BY <1>4 DEF Request, AskFlag, SetFlag, PostMessage, rxVars, listVars
  <2>2. CASE AskFlag(t)
    BY <1>1, <2>1, <2>2 DEF AskFlag, Notes
  <2>3. CASE SetFlag(t)
    BY <1>1, <2>1, <2>3 DEF SetFlag, Stale, Notes
  <2>4. CASE PostMessage(t)
    BY <2>1, <2>4 DEF PostMessage, Notes
  <2> QED
    BY <1>4, <2>2, <2>3, <2>4 DEF Request
<1>5. CASE TakeMessage
  BY <1>5 DEF TakeMessage, rxVars, listVars, Notes, Thread
<1>6. CASE ClearFlag
  BY <1>6 DEF ClearFlag, Cleared, Stale, rxVars, listVars, Notes, Thread
<1>7. CASE SendWaiting \/ NoneWaiting \/ UnlistFrame
  <2>1. more' \in BOOLEAN
    <3>1. CASE SendWaiting
      <4>1. (Len(wait) > 1) \in BOOLEAN
        OBVIOUS
      <4>2. more' = (Len(wait) > 1)
        BY <3>1, Zenon DEF SendWaiting
      <4> QED
        BY <4>1, <4>2, Zenon
    <3>2. CASE NoneWaiting \/ UnlistFrame
      BY <3>2 DEF NoneWaiting, UnlistFrame, listVars, Notes
    <3> QED
      BY <1>7, <3>1, <3>2
  <2>2. UNCHANGED <<flagVars, conn, broken>> /\ cause' \subseteq cause \cup {"overlap"}
    BY <1>7 DEF SendWaiting, NoneWaiting, UnlistFrame, Overlap, rxVars
  <2> QED
    BY <2>1, <2>2 DEF flagVars, Notes
<1>8. CASE ReadBytes \/ ReadNothing \/ AllHeard \/ HearFrame
  BY <1>8 DEF ReadBytes, ReadNothing, AllHeard, HearFrame, Overlap, rxVars, listVars, flagVars, Notes
<1>9. CASE Select \/ DrainPipe \/ NothingToSend \/ TakeBlock \/ Transfer
  BY <1>9 DEF Select, DrainPipe, NothingToSend, TakeBlock, Transfer, rxVars, listVars, flagVars, Notes
<1>10. CASE UNCHANGED vars
  BY <1>10 DEF vars, rxVars, listVars, flagVars, Notes
<1> QED
  BY <1>2, <1>3, <1>4, <1>5, <1>6, <1>7, <1>8, <1>9, <1>10
  DEF Next, App, Link, Spi, Sender, Thread

listing == <<sent, tx_buf, wait, free>>

\* A step that leaves the list alone and does not begin to send its first frame.
LEMMA ListUntouched ==
  ASSUME Listing, UNCHANGED listing, SendingNode' => SendingNode
  PROVE  Listing'
  BY DEF Listing, Listed, listing

LEMMA ListingKept == Places /\ Reading /\ Listing /\ Threads /\ [Next]_vars => Listing'
<1> SUFFICES ASSUME Places, Reading, Listing, Threads, [Next]_vars PROVE Listing'
  OBVIOUS
<1>0. pc = [t \in Thread |-> pc[t]]
  BY DEF Places
<1>1. CASE StartSend
  <2>1. sent' \in Nat /\ sent' <= MaxSend /\ tx_buf' \in AppFrame
    BY <1>1, LinkAssumption DEF StartSend, Listing, AppFrame
  <2>2. UNCHANGED <<wait, free>> /\ (SendingNode' => SendingNode)
    BY <1>0, <1>1 DEF StartSend, Goto, SendingNode, listVars, Thread
  <2> QED
    BY <2>1, <2>2 DEF Listing, Listed
<1>2. ASSUME NEW t \in Sender, Write(t) PROVE Listing'
  <2>1. UNCHANGED listing
    BY <1>2 DEF Write, FindRoom, FindFull, PutFrame, BumpIndex, Notify, listing, txVars, listVars
  <2>2. SendingNode' => SendingNode
    <3>1. CASE t = "app"
      BY <1>0, <1>2, <3>1 DEF Write, FindRoom, FindFull, PutFrame, BumpIndex, Notify, Goto, SendingNode, Thread
    <3>2. CASE t = "link"
      BY <1>0, <1>2, <3>2 DEF Write, FindRoom, FindFull, PutFrame, BumpIndex, Notify, Goto, In, SendingNode, Thread
    <3> QED
      BY <3>1, <3>2 DEF Sender
  <2> QED
    BY <2>1, <2>2, ListUntouched
<1>3. CASE ListFrame
  <2>1. UNCHANGED <<sent, tx_buf>> /\ (SendingNode' => SendingNode)
    BY <1>0, <1>3 DEF ListFrame, Goto, SendingNode, txVars, Thread
  <2>2. CASE free > 0
    <3>1. wait' = Append(wait, tx_buf) /\ free' = free - 1
      BY <1>3, <2>2 DEF ListFrame
    <3>2. tx_buf \in AnyFrame /\ wait \in Seq(AnyFrame)
      BY LinkAssumption DEF Listing, AnyFrame, AppFrame
    <3>3. wait' \in Seq(AnyFrame) /\ Len(wait') = Len(wait) + 1 /\ Len(wait) \in Nat
      BY <3>1, <3>2
    <3>4. wait' # << >> /\ free' \in Nat /\ free' + Len(wait') = free + Len(wait)
      BY <2>2, <3>1, <3>3 DEF Listing
    <3> QED
      BY <2>1, <3>3, <3>4 DEF Listing, Listed
  <2>3. CASE ~(free > 0)
    BY <1>3, <2>1, <2>3, ListUntouched DEF ListFrame, listing
  <2> QED
    BY <2>2, <2>3
<1>4. ASSUME NEW t \in Thread, Request(t) PROVE Listing'
  <2>1. UNCHANGED listing
    BY <1>4 DEF Request, AskFlag, SetFlag, PostMessage, listing, txVars, listVars
  <2>2. SendingNode' => SendingNode
    BY <1>0, <1>4 DEF Request, AskFlag, SetFlag, PostMessage, Goto, Done, SendingNode, Thread
  <2> QED
    BY <2>1, <2>2, ListUntouched
<1>5. CASE LinkTurn
  <2>1. UNCHANGED listing
    BY <1>5 DEF LinkTurn, TakeMessage, ClearFlag, NoneWaiting, ReadBytes, ReadNothing, AllHeard, listing, txVars, listVars
  <2>2. SendingNode' => SendingNode
    BY <1>0, <1>5 DEF LinkTurn, TakeMessage, ClearFlag, NoneWaiting, ReadBytes, ReadNothing, AllHeard, Goto, SendingNode, Thread
  <2> QED
    BY <2>1, <2>2, ListUntouched
<1>6. CASE SendWaiting
  BY <1>6 DEF SendWaiting, txVars, Listing, Listed
<1>7. CASE UnlistFrame
  <2>1. pc.link = "unlist" /\ pc'.link \in {"send", "ask", "idle"} /\ wait' = Tail(wait) /\ free' = free + 1
        /\ UNCHANGED <<sent, tx_buf>>
    BY <1>0, <1>7 DEF UnlistFrame, Goto, In, txVars, Thread
  <2>2. wait # << >> /\ wait \in Seq(AnyFrame) /\ free \in Nat /\ free + Len(wait) = Nodes
    BY <2>1 DEF Reading, Listing, Listed, SendingNode
  <2>3. wait' \in Seq(AnyFrame) /\ Len(wait') = Len(wait) - 1 /\ Len(wait) \in Nat
    BY <2>1, <2>2
  <2>4. free' \in Nat /\ free' + Len(wait') = Nodes
    BY <2>1, <2>2, <2>3
  <2> QED
    BY <2>1, <2>3, <2>4 DEF Listing, Listed, SendingNode
<1>8. CASE HearFrame
  <2>1. CASE Head(todo) \in {REQ_CMD, BEAT_CMD}
    <3>1. /\ pc' = [pc EXCEPT !["link"] = "check"] /\ job' = job /\ pc.link = "parse"
          /\ tx_buf' = <<"ack", Head(todo)>> /\ UNCHANGED <<sent, wait, free>>
      BY <1>8, <2>1 DEF HearFrame, Goto, In, listVars
    <3>2. ~SendingNode' /\ tx_buf' \in Ack
      BY <2>1, <3>1 DEF Reading, SendingNode, Ack
    <3> QED
      BY <3>1, <3>2 DEF Listing, Listed
  <2>2. CASE Head(todo) \notin {REQ_CMD, BEAT_CMD}
    BY <1>8, <2>2, ListUntouched DEF HearFrame, SendingNode, listing, listVars
  <2> QED
    BY <2>1, <2>2
<1>9. CASE Select \/ DrainPipe \/ NothingToSend \/ TakeBlock \/ Transfer
  <2>1. UNCHANGED listing
    BY <1>9 DEF Select, DrainPipe, NothingToSend, TakeBlock, Transfer, listing, txVars, listVars
  <2>2. SendingNode' => SendingNode
    BY <1>0, <1>9 DEF Select, DrainPipe, NothingToSend, TakeBlock, Transfer, Goto, SendingNode, Thread
  <2> QED
    BY <2>1, <2>2, ListUntouched
<1>10. CASE UNCHANGED vars
  BY <1>10, ListUntouched DEF vars, txVars, listVars, listing, SendingNode
<1> QED
  BY <1>1, <1>2, <1>3, <1>4, <1>5, <1>6, <1>7, <1>8, <1>9, <1>10
  DEF Next, App, Link, Spi, LinkTurn, Sender, Thread

LEMMA IndexedKept == Listing /\ Indexed /\ [Next]_vars => Indexed'
<1> SUFFICES ASSUME Listing, Indexed, [Next]_vars PROVE Indexed'
  OBVIOUS
<1> DEFINE indexed == <<w, r, pipe, at, cells, block>>
<1>0. UNCHANGED indexed => Indexed'
  BY DEF Indexed
<1>1. CASE StartSend \/ ListFrame
  BY <1>0, <1>1 DEF StartSend, ListFrame, txVars, spiVars
<1>2. ASSUME NEW t \in Sender, Write(t) PROVE Indexed'
  <2>1. CASE FindRoom(t)
    BY <2>1 DEF FindRoom, Indexed, spiVars
  <2>2. CASE FindFull(t)
    BY <1>0, <2>2 DEF FindFull, txVars, spiVars
  <2>3. CASE PutFrame(t)
    <3>1. Sends(t) \in AnyFrame
      <4>1. tx_buf \in AnyFrame
        BY LinkAssumption DEF Listing, AnyFrame, AppFrame
      <4>2. CASE t = "link" /\ job = "tx"
        <5>1. wait # << >> /\ wait \in Seq(AnyFrame)
          BY <2>3, <4>2 DEF PutFrame, In, Listing, Listed, SendingNode
        <5>2. Head(wait) \in AnyFrame
          BY <5>1
        <5> QED
          BY <4>2, <5>2 DEF Sends
      <4> QED
        BY <4>1, <4>2 DEF Sends
    <3> QED
      BY <2>3, <3>1 DEF PutFrame, Indexed, spiVars
  <2>4. CASE BumpIndex(t)
    BY <2>4 DEF BumpIndex, Indexed, spiVars
  <2>5. CASE Notify(t)
    BY <2>5 DEF Notify, Indexed, spiVars
  <2> QED
    BY <1>2, <2>1, <2>2, <2>3, <2>4, <2>5 DEF Write
<1>3. ASSUME NEW t \in Thread, Request(t) PROVE Indexed'
  BY <1>0, <1>3 DEF Request, AskFlag, SetFlag, PostMessage, txVars, spiVars
<1>4. CASE LinkTurn \/ SendWaiting \/ UnlistFrame
  BY <1>0, <1>4 DEF LinkTurn, TakeMessage, ClearFlag, NoneWaiting, ReadBytes, ReadNothing, AllHeard, SendWaiting, UnlistFrame, txVars, spiVars
<1>5. CASE HearFrame
  BY <1>0, <1>5 DEF HearFrame, spiVars
<1>6. CASE Select \/ NothingToSend
  BY <1>0, <1>6 DEF Select, NothingToSend, txVars, spiVars
<1>7. CASE DrainPipe
  <2>1. pipe \in Int /\ PipeRead \in Int
    BY LinkAssumption DEF Indexed
  <2>2. Min({pipe, PipeRead}) \in Int /\ Min({pipe, PipeRead}) <= pipe
    BY <2>1, SmallerOfTwo
  <2>3. pipe' \in Nat
    BY <1>7, <2>1, <2>2 DEF DrainPipe
  <2> QED
    BY <1>7, <2>3 DEF DrainPipe, Indexed, spiVars
<1>8. CASE TakeBlock
  <2>1. PICK n \in 1 .. Min({PerBlock, w - r}) : block' = SubSeq(InRing, 1, n)
    BY <1>8 DEF TakeBlock
  <2> DEFINE k == w - r
  <2>2. k \in Int /\ PerBlock \in Int
    BY LinkAssumption DEF Indexed
  <2>3. n \in Nat /\ 1 <= n /\ n <= k
    <3>1. n \in 1 .. Min({PerBlock, k})
      OBVIOUS
    <3> HIDE DEF k
    <3>2. Min({PerBlock, k}) \in Int /\ Min({PerBlock, k}) <= k
      BY <2>2, SmallerOfTwo
    <3> QED
      BY <2>2, <3>1, <3>2
  <2>4. \A i \in 1 .. k : cells[Slot(r + i - 1)] \in AnyFrame
    <3> SUFFICES ASSUME NEW i \in 1 .. k PROVE cells[Slot(r + i - 1)] \in AnyFrame
      OBVIOUS
    <3>1. r + i - 1 \in Nat
      BY <2>2 DEF Indexed
    <3> QED
      BY <3>1, SlotInRing DEF Indexed
  <2>5. InRing \in Seq(AnyFrame) /\ Len(InRing) = k
    <3>1. InRing \in [1 .. k -> AnyFrame] /\ k \in Nat
      BY <2>2, <2>3, <2>4 DEF InRing
    <3> QED
      BY <3>1
  <2>6. block' \in Seq(AnyFrame)
    <3> HIDE DEF InRing
    <3> QED
      BY <2>1, <2>3, <2>5
  <2> QED
    BY <1>8, <2>6 DEF TakeBlock, Indexed, txVars
<1>9. CASE Transfer
  <2>1. Len(block) \in Nat /\ << >> \in Seq(AnyFrame)
    BY DEF Indexed
  <2> QED
    BY <1>9, <2>1 DEF Transfer, Indexed
<1>10. CASE UNCHANGED vars
  BY <1>0, <1>10 DEF vars, txVars, spiVars
<1> QED
  BY <1>1, <1>2, <1>3, <1>4, <1>5, <1>6, <1>7, <1>8, <1>9, <1>10
  DEF Next, App, Link, Spi, LinkTurn, Sender, Thread

\* Whatever bytes are analysed: some of them are kept.
LEMMA AnalysisType ==
    ASSUME NEW buf \in Seq(Nat)
    PROVE  Analysed(buf) \in [cmds : Seq(Nat), rest : 0 .. Len(buf)]
<1> DEFINE n == Len(buf)
           Found == [cmds : Seq(Nat), rest : 0 .. n]
<1>0. n \in Nat /\ << >> \in Seq(Nat)
  BY LenProperties
<1>1. ASSUME NEW o \in 0 .. n PROVE Kept(o) \in Found
  BY <1>0 DEF Kept
<1>2. PICK f : \A o \in 0 .. n : FoundFrom(buf, o) = f[o] /\ f[o] = Round(buf, f, o)
  BY FoundInRounds
<1>3. ASSUME NEW o \in 0 .. n, \A p \in o + 1 .. n : f[p] \in Found PROVE f[o] \in Found
  <2> DEFINE h == FindHead(buf, o)
  <2>1. h \in 0 .. n
    BY <1>0, HeadFound
  <2>2. CASE h + HeadLen <= n
    <3>1. /\ AfterBad(buf, h) \in o + 1 .. n /\ Cmd(buf, h) \in Nat
          /\ Whole(buf, h) => AfterFrame(buf, h) \in o + 1 .. n
      BY <2>2, RoundsGoOn
    <3>2. f[AfterBad(buf, h)] \in Found
      BY <1>3, <3>1
    <3>3. ASSUME Whole(buf, h) PROVE Before(Cmd(buf, h), f[AfterFrame(buf, h)]) \in Found
      <4> DEFINE found == f[AfterFrame(buf, h)]
                 cmd == Cmd(buf, h)
      <4>1. found \in Found /\ cmd \in Nat
        BY <1>3, <3>1, <3>3
      <4> HIDE DEF found, cmd, n
      <4>2. found.cmds \in Seq(Nat) /\ <<cmd>> \in Seq(Nat)
        BY <4>1
      <4>3. <<cmd>> \o found.cmds \in Seq(Nat)
        BY <4>2, ConcatProperties
      <4>4. Before(cmd, found) \in Found
        BY <4>1, <4>3 DEF Before
      <4> QED
        BY <4>4 DEF found, cmd
    <3> QED
      BY <1>1, <1>2, <2>1, <3>2, <3>3 DEF Round
  <2>3. CASE ~(h + HeadLen <= n)
    <3>1. h + HeadLen > n
      BY <1>0, <2>1, <2>3 DEF HeadLen
    <3>2. f[o] = Kept(h)
      BY <1>2, <3>1 DEF Round
    <3> QED
      BY <1>1, <2>1, <3>2
  <2> QED
    BY <2>2, <2>3
<1> DEFINE T == {k \in 0 .. n : f[n - k] \notin Found}
<1>4. T = {}
  <2>1. SUFFICES ASSUME T # {} PROVE FALSE
    OBVIOUS
  <2>2. PICK k \in T : \A j \in T : k <= j
    <3>1. T \subseteq Nat
      BY <1>0
    <3> HIDE DEF T
    <3> QED
      BY <2>1, <3>1, LeastNumber
  <2>3. k \in 0 .. n /\ n - k \in 0 .. n /\ f[n - k] \notin Found
    BY <1>0
  <2>4. ASSUME NEW p \in n - k + 1 .. n PROVE f[p] \in Found
    <3>1. n - p \in 0 .. n /\ n - (n - p) = p /\ ~(k <= n - p)
      BY <1>0, <2>3
    <3>2. n - p \notin T
      BY <2>2, <3>1
    <3> QED
      BY <3>1, <3>2
  <2> QED
    BY <1>3, <2>3, <2>4
<1>5. f[0] \in Found /\ FoundFrom(buf, 0) = f[0]
  <2>1. n \in 0 .. n /\ n - n = 0 /\ 0 \in 0 .. n
    BY <1>0
  <2>2. n \notin T
    BY <1>4
  <2> QED
    BY <1>2, <2>1, <2>2
<1>6. Kept(0) \in Found
  BY <1>0, <1>1
<1> QED
  BY <1>5, <1>6 DEF Analysed

receiving == <<stream, came, rxRing, rxBuf, todo, heard>>

\* What the link thread reads.
LEMMA BytesRead ==
    ASSUME Receiving, ReadBytes
    PROVE  \E n \in Nat : \E buf \in Seq(Nat) :
              /\ n = Readable /\ 0 < n /\ n <= Len(rxRing)
              /\ buf = rxBuf \o SubSeq(rxRing, 1, n) /\ Len(buf) = Len(rxBuf) + n /\ Len(buf) <= RxMax
              /\ rxBuf' = SubSeq(buf, Analysed(buf).rest + 1, Len(buf))
              /\ todo' = Analysed(buf).cmds
              /\ rxRing' = SubSeq(rxRing, n + 1, Len(rxRing))
              /\ UNCHANGED <<stream, came, heard, cause>>
<1> DEFINE n == Readable
           buf == rxBuf \o SubSeq(rxRing, 1, n)
<1>1. /\ rxBuf \in Seq(Nat) /\ Len(rxBuf) \in Nat /\ rxRing \in Seq(Nat) /\ Len(rxRing) \in Nat
      /\ Len(rxBuf) <= RxMax /\ RxMax \in Nat
  BY LinkAssumption DEF Receiving
<1>2. n \in Nat /\ 0 < n /\ n <= Len(rxRing) /\ n <= RxMax - Len(rxBuf)
  <2> DEFINE a == RxMax - Len(rxBuf)
             b == Len(rxRing)
  <2>1. a \in Int /\ b \in Int
    BY <1>1
  <2>2. n = Min({a, b}) /\ n > 0
    BY DEF Readable, ReadBytes
  <2> HIDE DEF a, b, n
  <2>3. n \in Int /\ n <= a /\ n <= b
    BY <2>1, <2>2, SmallerOfTwo
  <2>4. n \in Nat /\ 0 < n /\ n <= b /\ n <= a
    BY <2>1, <2>2, <2>3
  <2> QED
    BY <2>4 DEF a, b
<1>3. /\ rxBuf' = From(buf, Analysed(buf).rest) /\ todo' = Analysed(buf).cmds
      /\ rxRing' = From(rxRing, n) /\ UNCHANGED <<stream, came, heard, cause>>
  BY DEF ReadBytes, spiVars
<1> HIDE DEF n
<1>4. SubSeq(rxRing, 1, n) \in Seq(Nat) /\ Len(SubSeq(rxRing, 1, n)) = n
  BY <1>1, <1>2, SubSeqProperties
<1>5. buf \in Seq(Nat) /\ Len(buf) = Len(rxBuf) + n
  BY <1>1, <1>4, ConcatProperties
<1>6. Len(buf) <= RxMax
  BY <1>1, <1>2, <1>5
<1> QED
  BY <1>2, <1>3, <1>5, <1>6 DEF From, n

LEMMA ReceivingKept == Receiving /\ [Next]_vars => Receiving'
<1> SUFFICES ASSUME Receiving, [Next]_vars PROVE Receiving'
  OBVIOUS
<1>0. UNCHANGED receiving => Receiving'
  BY DEF Receiving, receiving
<1>1. CASE StartSend \/ ListFrame
  BY <1>0, <1>1 DEF StartSend, ListFrame, rxVars, spiVars, receiving
<1>2. ASSUME NEW t \in Sender, Write(t) PROVE Receiving'
  BY <1>0, <1>2 DEF Write, FindRoom, FindFull, PutFrame, BumpIndex, Notify, rxVars, spiVars, receiving
<1>3. ASSUME NEW t \in Thread, Request(t) PROVE Receiving'
  BY <1>0, <1>3 DEF Request, AskFlag, SetFlag, PostMessage, rxVars, spiVars, receiving
<1>4. CASE TakeMessage \/ ClearFlag \/ NoneWaiting \/ ReadNothing \/ AllHeard \/ SendWaiting \/ UnlistFrame
  BY <1>0, <1>4 DEF TakeMessage, ClearFlag, NoneWaiting, ReadNothing, AllHeard, SendWaiting, UnlistFrame, rxVars, spiVars, receiving
<1>5. CASE ReadBytes
  <2>1. PICK n \in Nat, buf \in Seq(Nat) :
              /\ 0 < n /\ n <= Len(rxRing) /\ Len(buf) <= RxMax
              /\ rxBuf' = SubSeq(buf, Analysed(buf).rest + 1, Len(buf))
              /\ todo' = Analysed(buf).cmds
              /\ rxRing' = SubSeq(rxRing, n + 1, Len(rxRing))
              /\ UNCHANGED <<stream, came, heard>>
    BY <1>5, BytesRead
  <2>2. PICK rest \in 0 .. Len(buf) : rest = Analysed(buf).rest
    BY AnalysisType
  <2>3. todo' \in Seq(Nat)
    BY <2>1, AnalysisType
  <2>4. Len(buf) \in Nat /\ RxMax \in Nat
    BY LinkAssumption, LenProperties
  <2>5. rxBuf' \in Seq(Nat) /\ Len(rxBuf') <= RxMax
    <3>1. rxBuf' = SubSeq(buf, rest + 1, Len(buf))
      BY <2>1, <2>2
    <3> DEFINE a == rest + 1
               b == Len(buf)
    <3>2. a \in Nat /\ b \in Nat /\ 1 <= a /\ a <= b + 1
          /\ b - a + 1 = b - rest /\ b - rest \in Nat /\ b - rest <= b /\ (~(a <= b) => b - rest = 0)
      BY <2>2, <2>4
    <3>3. \A i \in 1 .. b : buf[i] \in Nat
      OBVIOUS
    <3> HIDE DEF a, b
    <3>4. SubSeq(buf, a, b) \in Seq(Nat) /\ Len(SubSeq(buf, a, b)) = IF a <= b THEN b - a + 1 ELSE 0
      BY <3>2, <3>3, SubSeqProperties
    <3>5. Len(SubSeq(buf, a, b)) <= b
      BY <3>2, <3>4
    <3>6. b <= RxMax /\ rxBuf' = SubSeq(buf, a, b)
      BY <2>1, <3>1 DEF a, b
    <3> QED
      BY <2>4, <3>2, <3>4, <3>5, <3>6
  <2>6. rxRing' \in Seq(Nat) /\ Len(rxRing') <= RxRing
    <3>1. rxRing \in Seq(Nat) /\ Len(rxRing) \in Nat /\ Len(rxRing) <= RxRing /\ RxRing \in Nat
      BY LinkAssumption DEF Receiving
    <3>2. rxRing' \in Seq(Nat) /\ Len(rxRing') = Len(rxRing) - n
      BY <2>1, <3>1, SubSeqProperties
    <3> QED
      BY <3>1, <3>2
  <2> QED
    BY <2>1, <2>3, <2>5, <2>6 DEF Receiving
<1>6. CASE HearFrame
  <2>1. todo \in Seq(Nat) /\ todo # << >> /\ heard \in Seq(Nat)
        /\ todo' = Tail(todo) /\ heard' = Append(heard, Head(todo))
    BY <1>6 DEF HearFrame, Receiving
  <2>2. todo' \in Seq(Nat) /\ heard' \in Seq(Nat)
    BY <2>1
  <2> QED
    BY <1>6, <2>2 DEF HearFrame, Receiving, spiVars
<1>7. CASE Select \/ NothingToSend \/ DrainPipe \/ TakeBlock
  BY <1>0, <1>7 DEF Select, NothingToSend, DrainPipe, TakeBlock, rxVars, spiVars, receiving
<1>8. CASE Transfer
  <2> DEFINE n == Min({BlockLen, RxRing - Len(rxRing)})
  <2>1. /\ rxRing \in Seq(Nat) /\ Len(rxRing) \in Nat /\ Len(rxRing) <= RxRing
        /\ RxRing \in Nat /\ BlockLen \in Nat /\ came \in Nat /\ stream \in Streams
    BY LinkAssumption DEF Receiving
  <2>2. /\ rxRing' = rxRing \o SubSeq(Coming, 1, n) /\ came' = Min({came + BlockLen, Len(stream.bytes)})
        /\ UNCHANGED <<stream, rxBuf, todo, heard>>
    BY <1>8 DEF Transfer
  <2>3. n \in Nat /\ n <= BlockLen /\ n <= RxRing - Len(rxRing)
    <3> DEFINE b == RxRing - Len(rxRing)
    <3>1. BlockLen \in Int /\ b \in Int /\ BlockLen >= 0 /\ b >= 0
      BY <2>1
    <3> HIDE DEF b
    <3>2. Min({BlockLen, b}) \in {BlockLen, b} /\ Min({BlockLen, b}) <= BlockLen /\ Min({BlockLen, b}) <= b
      <4>1. {BlockLen, b} \subseteq Nat
        BY <3>1
      <4> QED
        BY <4>1, MinIsLeast
    <3> QED
      BY <3>1, <3>2 DEF b
  <2> HIDE DEF n
  <2>4. SubSeq(Coming, 1, n) \in Seq(Nat) /\ Len(SubSeq(Coming, 1, n)) = n
    <3>1. Coming \in Seq(Nat) /\ Len(Coming) = BlockLen
      BY <2>1, SegmentBytes DEF Coming
    <3> QED
      BY <2>1, <2>3, <3>1, SubSeqProperties
  <2>5. rxRing' \in Seq(Nat) /\ Len(rxRing') = Len(rxRing) + n
    BY <2>1, <2>2, <2>4, ConcatProperties
  <2>6. Len(rxRing') <= RxRing
    BY <2>1, <2>3, <2>5
  <2>7. came' \in Nat /\ came' <= Len(stream.bytes)
    <3>1. {came + BlockLen, Len(stream.bytes)} \subseteq Nat
      BY <2>1, StreamTypes
    <3> QED
      BY <2>2, <3>1, MinIsLeast
  <2> QED
    BY <2>2, <2>5, <2>6, <2>7 DEF Receiving
<1>9. CASE UNCHANGED vars
  BY <1>0, <1>9 DEF vars, rxVars, spiVars, receiving
<1> QED
  BY <1>1, <1>2, <1>3, <1>4, <1>5, <1>6, <1>7, <1>8, <1>9
  DEF Next, App, Link, Spi, Sender, Thread

-----------------------------------------------------------------------------
(* What was received. *)

\* While frames that were found are left, the link thread is at them.
Handling ==
    todo # << >> =>
        /\ pc.link \in {"parse", "check", "put", "bump", "notify"}
        /\ job # "tx"

\* The bytes kept and those of the ring are the next of the stream from c on, up
\* to where it came; no intact frame lies across c, and those before it were heard
\* or are about to be.
ReceivedUpTo(c) ==
    /\ rxBuf = Segment(stream, c, Len(rxBuf))
    /\ rxRing = Segment(stream, c + Len(rxBuf), Len(rxRing))
    /\ \/ came = c + Len(rxBuf) + Len(rxRing)
       \/ came = Len(stream.bytes) /\ came <= c + Len(rxBuf) + Len(rxRing)
    /\ Between(stream, c)
    /\ heard \o todo = CommandsBefore(stream, c)
Received == "rxFull" \notin cause => \E c \in Nat : ReceivedUpTo(c)

LEMMA InitReceived == Init => Handling /\ Received
<1> SUFFICES ASSUME Init PROVE Handling /\ Received
  OBVIOUS
<1>1. stream \in Streams /\ came = 0 /\ rxRing = << >> /\ rxBuf = << >> /\ todo = << >> /\ heard = << >>
  BY DEF Init
<1>2. Segment(stream, 0, 0) = << >>
  BY DEF Segment
<1>3. Between(stream, 0)
  BY <1>1, StreamTypes DEF Between
<1>4. CommandsBefore(stream, 0) = << >>
  <2>1. IntactFrames(stream) \cap (0 .. 0 - 1) = {}
    OBVIOUS
  <2>2. FramesBefore(stream, 0) = 0
    BY <2>1, FS_EmptySet DEF FramesBefore
  <2>3. Len(CommandsBefore(stream, 0)) = 0 /\ CommandsBefore(stream, 0) \in Seq(Nat)
    BY <1>1, <2>2, CommandsType
  <2> QED
    BY <2>3, EmptySeq
<1>5. Len(<< >>) = 0 /\ << >> \o << >> = << >>
  OBVIOUS
<1>6. ReceivedUpTo(0)
  BY <1>1, <1>2, <1>3, <1>4, <1>5 DEF ReceivedUpTo
<1> QED
  BY <1>1, <1>6 DEF Handling, Received

LEMMA HandlingKept == Places /\ Reading /\ Handling /\ [Next]_vars => Handling'
<1> SUFFICES ASSUME Places, Reading, Handling, [Next]_vars PROVE Handling'
  OBVIOUS
<1>0. pc = [t \in Thread |-> pc[t]]
  BY DEF Places
<1>1. CASE StartSend \/ ListFrame
  BY <1>0, <1>1 DEF StartSend, ListFrame, Goto, rxVars, Handling, Thread
<1>2. ASSUME NEW t \in Sender, Write(t) PROVE Handling'
  <2>1. UNCHANGED todo
    BY <1>2 DEF Write, FindRoom, FindFull, PutFrame, BumpIndex, Notify, rxVars
  <2>2. CASE t = "app"
    BY <1>0, <1>2, <2>1, <2>2 DEF Write, FindRoom, FindFull, PutFrame, BumpIndex, Notify, Goto, Handling, Thread
  <2>3. CASE t = "link"
    BY <1>0, <1>2, <2>1, <2>3 DEF Write, FindRoom, FindFull, PutFrame, BumpIndex, Notify, Goto, Handling, Thread
  <2> QED
    BY <2>2, <2>3 DEF Sender
<1>3. ASSUME NEW t \in Thread, Request(t) PROVE Handling'
  BY <1>0, <1>3 DEF Request, AskFlag, SetFlag, PostMessage, In, Goto, rxVars, Handling, Thread
<1>4. CASE TakeMessage \/ ClearFlag \/ SendWaiting \/ NoneWaiting \/ UnlistFrame \/ ReadNothing \/ AllHeard
  BY <1>0, <1>4 DEF TakeMessage, ClearFlag, SendWaiting, NoneWaiting, UnlistFrame, ReadNothing, AllHeard, In, Goto, rxVars, Handling, Thread
<1>5. CASE ReadBytes
  BY <1>0, <1>5 DEF ReadBytes, In, Goto, Reading, Handling, Thread
<1>6. CASE HearFrame
  BY <1>0, <1>6 DEF HearFrame, In, Goto, Reading, Handling, Thread
<1>7. CASE Select \/ DrainPipe \/ NothingToSend \/ TakeBlock \/ Transfer
  BY <1>0, <1>7 DEF Select, DrainPipe, NothingToSend, TakeBlock, Transfer, Goto, rxVars, Handling, Thread
<1>8. CASE UNCHANGED vars
  BY <1>8 DEF vars, rxVars, Handling
<1> QED
  BY <1>1, <1>2, <1>3, <1>4, <1>5, <1>6, <1>7, <1>8 DEF Next, App, Link, Spi, Sender, Thread

\* Bytes are moved from the ring to those that are kept, and analysed.
LEMMA BytesReceived ==
    ASSUME Receiving, Handling, ReadBytes, NEW c \in Nat, ReceivedUpTo(c)
    PROVE  \E d \in Nat : ReceivedUpTo(d)'
<1> DEFINE s == stream
           k == Len(rxBuf)
           m == Len(rxRing)
           a == c + k
<1>1. /\ s \in Streams /\ came \in Nat /\ rxBuf \in Seq(Nat) /\ rxRing \in Seq(Nat)
      /\ k \in Nat /\ m \in Nat /\ a \in Nat /\ todo = << >> /\ heard \in Seq(Nat)
  <2>1. /\ s \in Streams /\ came \in Nat /\ rxBuf \in Seq(Nat) /\ rxRing \in Seq(Nat)
        /\ heard \in Seq(Nat)
    BY DEF Receiving
  <2>2. k \in Nat /\ m \in Nat /\ a \in Nat
    BY <2>1, LenProperties
  <2>3. todo = << >>
    BY DEF Handling, ReadBytes, In
  <2> QED
    BY <2>1, <2>2, <2>3
<1>2. PICK n \in Nat, buf \in Seq(Nat) :
          /\ 0 < n /\ n <= m
          /\ buf = rxBuf \o SubSeq(rxRing, 1, n) /\ Len(buf) = k + n /\ Len(buf) <= RxMax
          /\ rxBuf' = SubSeq(buf, Analysed(buf).rest + 1, Len(buf))
          /\ todo' = Analysed(buf).cmds
          /\ rxRing' = SubSeq(rxRing, n + 1, m)
          /\ UNCHANGED <<stream, came, heard>>
  BY BytesRead
<1>3. rxBuf = Segment(s, c, k) /\ rxRing = Segment(s, a, m)
  BY DEF ReceivedUpTo
<1> DEFINE z == k + n
           up == a + n
<1>4. z \in Nat /\ z = k + n /\ up = a + n /\ up = c + z /\ up \in Nat /\ Len(buf) = z
  BY <1>1, <1>2
<1> HIDE DEF s, k, m, a, z, up
<1>5. SubSeq(rxRing, 1, n) = Segment(s, a, n)
  <2>1. n \in 0 .. m
    BY <1>1, <1>2
  <2> QED
    BY <1>1, <1>3, <2>1, SegmentUpTo
<1>6. rxRing' = Segment(s, up, m - n)
  <2>1. n \in 0 .. m
    BY <1>1, <1>2
  <2>2. SubSeq(Segment(s, a, m), n + 1, m) = Segment(s, a + n, m - n)
    BY <1>1, <2>1, SegmentAfter
  <2> QED
    BY <1>2, <1>3, <1>4, <2>2
<1>7. buf = Segment(s, c, z)
  <2>1. Segment(s, c, k) \o Segment(s, c + k, n) = Segment(s, c, k + n)
    <3>1. s \in Streams /\ k \in Nat
      BY <1>1
    <3> QED
      BY <3>1, SegmentsInARow
  <2> QED
    BY <1>2, <1>3, <1>5, <1>4, <2>1 DEF a
<1>8. Finds(s, c, z, 0, Analysed(buf))
  <2>1. Between(s, c)
    BY DEF ReceivedUpTo, s
  <2>2. z <= RxMax
    BY <1>2, <1>4
  <2> QED
    BY <1>1, <1>7, <1>4, <2>1, <2>2, SegmentAnalysed
<1>9. PICK e \in 0 .. z : e = Analysed(buf).rest
  BY <1>8 DEF Finds
<1> DEFINE d == c + e
<1>10. d \in Nat /\ e \in 0 .. z /\ z - e \in Nat /\ d + (z - e) = up
  <2>1. z \in Nat /\ up = c + z
    BY <1>4
  <2>2. e \in 0 .. z
    BY <1>9
  <2> QED
    BY <2>1, <2>2
<1>11. /\ d \in Nat /\ todo' \in Seq(Nat) /\ Between(s, d)
      /\ CommandsBefore(s, c) \o todo' = CommandsBefore(s, d)
  <2>1. Analysed(buf).cmds \in Seq(Nat) /\ Between(s, c + e) /\ c + 0 = c
        /\ CommandsBefore(s, c + 0) \o Analysed(buf).cmds = CommandsBefore(s, c + e)
    BY <1>8, <1>9 DEF Finds
  <2>2. c + e \in Nat
    BY <1>9, <1>1
  <2> QED
    BY <1>2, <2>1, <2>2
<1>12. heard' \o todo' = CommandsBefore(s, d)
  <2>1. heard \o << >> = heard
    BY <1>1, ConcatEmptySeq
  <2> QED
    BY <1>1, <1>2, <1>11, <2>1 DEF ReceivedUpTo, s
<1>13. rxBuf' = Segment(s, d, z - e) /\ Len(rxBuf') = z - e
  <2>1. rxBuf' = SubSeq(Segment(s, c, z), e + 1, z)
    BY <1>2, <1>7, <1>9, <1>4
  <2>2. SubSeq(Segment(s, c, z), e + 1, z) = Segment(s, c + e, z - e)
    BY <1>1, <1>4, <1>10, SegmentAfter
  <2>3. rxBuf' = Segment(s, d, z - e)
    BY <2>1, <2>2
  <2> HIDE DEF d
  <2>4. Len(Segment(s, d, z - e)) = z - e
    BY <1>1, <1>10, SegmentBytes
  <2> QED
    BY <2>3, <2>4, Zenon
<1>14. rxRing' = Segment(s, d + Len(rxBuf'), m - n) /\ Len(rxRing') = m - n
  <2>1. up = d + Len(rxBuf')
    BY <1>13, <1>10, Zenon
  <2>2. m - n \in Nat
    BY <1>1, <1>2
  <2>3. Len(Segment(s, up, m - n)) = m - n
    BY <1>1, <1>4, <2>2, SegmentBytes
  <2> QED
    BY <1>6, <2>1, <2>3, Zenon
<1>15. d + Len(rxBuf') + Len(rxRing') = c + k + m
  <2>1. d + Len(rxBuf') = up /\ Len(rxRing') = m - n
    BY <1>13, <1>14, <1>10, Zenon
  <2>2. up + (m - n) = c + k + m
    BY <1>1, <1>2, <1>4
  <2> QED
    BY <2>1, <2>2, Zenon
<1>16. s = stream' /\ came' = came
  BY <1>2 DEF s
<1>17. \/ came' = d + Len(rxBuf') + Len(rxRing')
       \/ came' = Len(stream'.bytes) /\ came' <= d + Len(rxBuf') + Len(rxRing')
  BY <1>15, <1>16 DEF ReceivedUpTo, s, k, m
<1> HIDE DEF d
<1>18. ReceivedUpTo(d)'
  BY <1>11, <1>12, <1>13, <1>14, <1>16, <1>17 DEF ReceivedUpTo
<1> QED
  BY <1>11, <1>18

\* Behind a stream there are zeroes.
LEMMA BehindTheEnd ==
    ASSUME NEW s \in Streams, NEW a \in Nat, NEW b \in Nat, NEW n \in Nat,
           Len(s.bytes) <= a, Len(s.bytes) <= b
    PROVE  Segment(s, a, n) = Segment(s, b, n)
<1>1. ASSUME NEW i \in 1 .. n PROVE Byte(s, a + i - 1) = Byte(s, b + i - 1)
  BY StreamTypes DEF Byte
<1> QED
  BY <1>1 DEF Segment

\* A block comes into the ring.
LEMMA BlockReceived ==
    ASSUME Receiving, Transfer, "rxFull" \notin cause', NEW c \in Nat, ReceivedUpTo(c)
    PROVE  ReceivedUpTo(c)'
<1> DEFINE s == stream
           k == Len(rxBuf)
           m == Len(rxRing)
           end == Len(s.bytes)
           n == Min({BlockLen, RxRing - m})
<1>1. /\ s \in Streams /\ came \in Nat /\ k \in Nat /\ m \in Nat /\ end \in Nat
      /\ BlockLen \in Nat /\ RxRing \in Nat
  BY LinkAssumption, StreamTypes DEF Receiving
<1>2. /\ rxRing' = rxRing \o SubSeq(Coming, 1, n) /\ came' = Min({came + BlockLen, end})
      /\ UNCHANGED <<stream, rxBuf, todo, heard>> /\ ~(n < BlockLen)
  BY DEF Transfer
<1>3. n = BlockLen
  <2> DEFINE b == RxRing - m
  <2>1. b \in Int /\ BlockLen \in Int
    BY <1>1
  <2>2. n = Min({BlockLen, b}) /\ ~(n < BlockLen)
    BY <1>2
  <2> HIDE DEF b, n
  <2>3. n \in Int /\ n <= BlockLen
    BY <2>1, <2>2, SmallerOfTwo
  <2> QED
    BY <2>1, <2>2, <2>3
<1>4. SubSeq(Coming, 1, n) = Segment(s, came, BlockLen)
  <2>1. Coming \in Seq(Nat) /\ Len(Coming) = BlockLen
    BY <1>1, SegmentBytes DEF Coming
  <2>2. SubSeq(Coming, 1, BlockLen) = Coming
    BY <2>1
  <2> QED
    BY <1>3, <2>2 DEF Coming
<1>5. rxRing = Segment(s, c + k, m) /\ (came = c + k + m \/ (came = end /\ came <= c + k + m))
  BY DEF ReceivedUpTo
<1> HIDE DEF n, s, k, m, end
<1>6. Segment(s, came, BlockLen) = Segment(s, c + k + m, BlockLen)
  <2>1. CASE came = end /\ came <= c + k + m
    BY <1>1, <2>1, BehindTheEnd DEF end
  <2> QED
    BY <1>5, <2>1
<1>7. rxRing' = Segment(s, c + k, m + BlockLen)
  <2> DEFINE a == c + k
  <2>1. a \in Nat
    BY <1>1
  <2>2. rxRing' = Segment(s, a, m) \o Segment(s, a + m, BlockLen)
    BY <1>2, <1>4, <1>5, <1>6
  <2> HIDE DEF a
  <2>3. Segment(s, a, m) \o Segment(s, a + m, BlockLen) = Segment(s, a, m + BlockLen)
    <3>1. m \in Nat /\ BlockLen \in Nat /\ s \in Streams
      BY <1>1
    <3> QED
      BY <2>1, <3>1, SegmentsInARow
  <2> QED
    BY <2>2, <2>3 DEF a
<1>8. Len(rxRing') = m + BlockLen
  <2>1. c + k \in Nat /\ m + BlockLen \in Nat
    BY <1>1
  <2> QED
    BY <1>1, <1>7, <2>1, SegmentBytes
<1>9. came' = c + k + (m + BlockLen) \/ (came' = end /\ came' <= c + k + (m + BlockLen))
  <2>1. came' \in {came + BlockLen, end} /\ came' <= came + BlockLen /\ came' <= end
    <3>1. {came + BlockLen, end} \subseteq Nat
      BY <1>1
    <3> QED
      BY <1>2, <3>1, MinIsLeast
  <2> QED
    BY <1>1, <1>5, <2>1
<1> QED
  BY <1>2, <1>7, <1>8, <1>9 DEF ReceivedUpTo, s, k, end

LEMMA ReceivedKept == Receiving /\ Handling /\ Received /\ [Next]_vars => Received'
<1> SUFFICES ASSUME Receiving, Handling, Received, [Next]_vars PROVE Received'
  OBVIOUS
<1>0. ASSUME UNCHANGED receiving, "rxFull" \in cause => "rxFull" \in cause' PROVE Received'
  BY <1>0 DEF Received, ReceivedUpTo, receiving
<1>1. CASE StartSend \/ ListFrame
  BY <1>0, <1>1 DEF StartSend, ListFrame, rxVars, spiVars, receiving
<1>2. ASSUME NEW t \in Sender, Write(t) PROVE Received'
  BY <1>0, <1>2 DEF Write, FindRoom, FindFull, PutFrame, BumpIndex, Notify, rxVars, spiVars, receiving
<1>3. ASSUME NEW t \in Thread, Request(t) PROVE Received'
  BY <1>0, <1>3 DEF Request, AskFlag, SetFlag, PostMessage, rxVars, spiVars, receiving
<1>4. CASE TakeMessage \/ ClearFlag \/ NoneWaiting \/ ReadNothing \/ AllHeard \/ SendWaiting \/ UnlistFrame
  BY <1>0, <1>4 DEF TakeMessage, ClearFlag, NoneWaiting, ReadNothing, AllHeard, SendWaiting, UnlistFrame, rxVars, spiVars, receiving
<1>5. CASE ReadBytes
  <2>1. cause' = cause
    BY <1>5 DEF ReadBytes
  <2> QED
    BY <1>5, <2>1, BytesReceived DEF Received
<1>6. CASE HearFrame
  <2>1. todo \in Seq(Nat) /\ todo # << >> /\ heard \in Seq(Nat)
        /\ todo' = Tail(todo) /\ heard' = Append(heard, Head(todo))
        /\ UNCHANGED <<stream, came, rxRing, rxBuf>> /\ ("rxFull" \in cause => "rxFull" \in cause')
    BY <1>6 DEF HearFrame, Receiving, spiVars
  <2>2. heard' \o todo' = heard \o todo
    <3> DEFINE cmd == Head(todo)
               rest == Tail(todo)
    <3>1. cmd \in Nat /\ rest \in Seq(Nat) /\ <<cmd>> \in Seq(Nat)
      BY <2>1
    <3>2. todo = <<cmd>> \o rest
      BY <2>1
    <3> HIDE DEF cmd, rest
    <3>3. Append(heard, cmd) = heard \o <<cmd>>
      BY <2>1, <3>1, AppendIsConcat
    <3>4. (heard \o <<cmd>>) \o rest = heard \o (<<cmd>> \o rest)
      BY <2>1, <3>1, CommandsInARow, Zenon
    <3> QED
      BY <2>1, <3>2, <3>3, <3>4 DEF cmd, rest
  <2> QED
    BY <2>1, <2>2 DEF Received, ReceivedUpTo
<1>7. CASE Select \/ NothingToSend \/ DrainPipe \/ TakeBlock
  BY <1>0, <1>7 DEF Select, NothingToSend, DrainPipe, TakeBlock, rxVars, spiVars, receiving
<1>8. CASE Transfer
  <2>1. "rxFull" \in cause => "rxFull" \in cause'
    BY <1>8 DEF Transfer
  <2> QED
    BY <1>8, <2>1, BlockReceived DEF Received
<1>9. CASE UNCHANGED vars
  BY <1>0, <1>9 DEF vars, rxVars, spiVars, receiving
<1> QED
  BY <1>1, <1>2, <1>3, <1>4, <1>5, <1>6, <1>7, <1>8, <1>9
  DEF Next, App, Link, Spi, Sender, Thread

\* Fewer bytes than a head cannot hide an intact frame.
LEMMA NothingMissing ==
    ASSUME NEW s \in Streams, NEW c \in Nat, Between(s, c), Len(s.bytes) < c + HeadLen
    PROVE  CommandsBefore(s, c) = s.intact
<1>1. ASSUME NEW o \in IntactFrames(s) PROVE o < c
  <2>1. o \in Nat /\ AfterIntact(s, o) <= Len(s.bytes) /\ Len(s.bytes) \in Nat
    BY StreamTypes, StreamsIntact
  <2>2. AfterIntact(s, o) = o + HeadLen + Byte(s, o + 4) /\ Byte(s, o + 4) \in Nat
    <3>1. o + 4 \in Nat
      BY <2>1
    <3> QED
      BY <3>1, SegmentBytes DEF AfterIntact
  <2>3. ~(c <= o)
    BY <2>1, <2>2 DEF HeadLen
  <2> QED
    BY <2>1, <2>3
<1>2. FramesBefore(s, c) = Len(s.intact)
  BY <1>1, AllCounted
<1>3. s.intact \in Seq(Nat) /\ SubSeq(s.intact, 1, Len(s.intact)) = s.intact
  BY StreamTypes
<1> QED
  BY <1>2, <1>3 DEF CommandsBefore

LEMMA ReceivedIsHeard == Kinds /\ Received => FramesHeard
<1> SUFFICES ASSUME Kinds, Received, "rxFull" \notin cause
             PROVE  /\ Len(heard) <= Len(stream.intact) /\ heard = SubSeq(stream.intact, 1, Len(heard))
                    /\ came = Len(stream.bytes) /\ rxRing = << >> /\ Len(rxBuf) < HeadLen /\ todo = << >> =>
                          heard = stream.intact
  BY KindsAreTypes DEF FramesHeard
<1>1. PICK c \in Nat : ReceivedUpTo(c)
  BY DEF Received
<1>2. stream \in Streams /\ heard \in Seq(Nat) /\ todo \in Seq(Nat) /\ rxBuf \in Seq(Nat) /\ came \in Nat
  BY DEF Kinds, Receiving
<1> DEFINE s == stream
           k == FramesBefore(s, c)
           t == s.intact
<1>3. t \in Seq(Nat) /\ Len(t) \in Nat /\ k \in Nat /\ k <= Len(t)
  BY <1>2, StreamTypes, CountedFrames
<1>4. heard \o todo = SubSeq(t, 1, k)
  BY <1>1 DEF ReceivedUpTo, CommandsBefore
<1> HIDE DEF s, k, t
<1>5. /\ Len(SubSeq(t, 1, k)) = k /\ SubSeq(t, 1, k) \in Seq(Nat)
      /\ \A i \in 1 .. k : SubSeq(t, 1, k)[i] = t[i]
  BY <1>3, SubSeqProperties
<1>6. /\ Len(heard) \in Nat /\ Len(todo) \in Nat /\ Len(heard) + Len(todo) = k
      /\ \A i \in 1 .. Len(heard) : (heard \o todo)[i] = heard[i]
  <2>1. Len(heard \o todo) = Len(heard) + Len(todo)
        /\ \A i \in 1 .. Len(heard) + Len(todo) :
              (heard \o todo)[i] = IF i <= Len(heard) THEN heard[i] ELSE todo[i - Len(heard)]
    BY <1>2, ConcatProperties
  <2> QED
    BY <1>2, <1>4, <1>5, <2>1
<1>7. Len(heard) <= Len(t)
  BY <1>3, <1>6
<1>8. heard = SubSeq(t, 1, Len(heard))
  <2> DEFINE q == SubSeq(t, 1, Len(heard))
  <2>1. q \in Seq(Nat) /\ Len(q) = Len(heard) /\ \A i \in 1 .. Len(heard) : q[i] = t[i]
    BY <1>3, <1>6, <1>7, SubSeqProperties
  <2> HIDE DEF q
  <2>2. \A i \in 1 .. Len(heard) : heard[i] = q[i]
    BY <1>4, <1>5, <1>6, <2>1
  <2> QED
    BY <1>2, <2>1, <2>2, SeqEqual DEF q
<1>9. ASSUME came = Len(s.bytes), rxRing = << >>, Len(rxBuf) < HeadLen, todo = << >> PROVE heard = t
  <2>1. Len(rxRing) = 0 /\ Len(rxBuf) \in Nat
    BY <1>2, <1>9
  <2>2. Len(s.bytes) <= c + Len(rxBuf) + Len(rxRing)
    BY <1>1, <1>2, <1>9, <2>1 DEF ReceivedUpTo, s
  <2>3. Len(s.bytes) < c + HeadLen
    BY <1>2, <1>9, <2>1, <2>2 DEF HeadLen
  <2>4. CommandsBefore(s, c) = t
    BY <1>1, <1>2, <2>3, NothingMissing DEF ReceivedUpTo, s, t
  <2>5. heard \o << >> = heard
    BY <1>2, ConcatEmptySeq
  <2> QED
    BY <1>1, <1>9, <2>4, <2>5 DEF ReceivedUpTo, s
<1> QED
  BY <1>7, <1>8, <1>9 DEF s, t

HeardInv == IInv /\ Kinds /\ Handling /\ Received

\* Wherever the blocks cut a stream and whatever is damaged between its intact frames,
\* as long as no damaged bytes look like a sound frame: the commands heard are those of
\* the intact frames, in order and none left out, and none is missing once all bytes
\* were analysed but fewer than a head, unless the ring of the SPI driver was full
\* and bytes were dropped (serial_link.c:469, yx_spi_drv.c:192).
THEOREM LinkFramesHeard == Spec => []FramesHeard
<1>1. Init => HeardInv
  BY InitRing, InitKinds, InitReceived DEF HeardInv
<1>2. HeardInv /\ [Next]_vars => HeardInv'
  <2> SUFFICES ASSUME HeardInv, [Next]_vars PROVE HeardInv'
    OBVIOUS
  <2>1. Places /\ Reading /\ Threads /\ Notes /\ Listing /\ Indexed /\ Receiving /\ Handling /\ Received
    BY DEF HeardInv, IInv, Kinds
  <2>2. IInv'
    BY NextKeeps DEF HeardInv
  <2>3. Kinds'
    BY <2>1, ThreadsKept, NotesKept, ListingKept, IndexedKept, ReceivingKept DEF Kinds
  <2> QED
    BY <2>1, <2>2, <2>3, HandlingKept, ReceivedKept DEF HeardInv
<1>3. HeardInv => FramesHeard
  BY ReceivedIsHeard DEF HeardInv
<1> QED
  BY <1>1, <1>2, <1>3, PTL DEF Spec

=============================================================================
