----------------------------- MODULE SerialLink -----------------------------
(***************************************************************************)
(* The serial link to the microcontroller (yx_demo_main): three threads    *)
(* around one transmit buffer, two rings, a pipe and a message queue.  The *)
(* application calls Yx_Serial_Link_Send(); the link thread answers and    *)
(* hands on the frames that came, and sends the frames that waited for     *)
(* room; the SPI thread exchanges blocks with the microcontroller while    *)
(* there is something to send.  _yx_serial_link_lock() and the timers are  *)
(* empty functions, and the interrupt line of the microcontroller is not   *)
(* configured.                                                             *)
(*                                                                         *)
(* A frame to send takes one cell of the ring, whatever its length.        *)
(***************************************************************************)
EXTENDS SerialFrames

CONSTANTS
    Streams,  \* what the microcontroller sends: bytes, and the commands of
              \* the frames in them that are intact
    Cells,    \* frames the transmit ring holds
    PerBlock, \* frames that go out with one transfer, at most
    BlockLen, \* YX_SPI_FIX_BUF_SIZE
    RxRing,   \* YX_SPI_DRV_RX_BUF_SIZE
    PipeRead, \* bytes read from the pipe at once
    Nodes,    \* YX_SERIAL_ITEM_NODE_USED_MAX
    MaxSend   \* bound: calls of Yx_Serial_Link_Send()

ASSUME LinkAssumption ==
    /\ {Cells, PerBlock, BlockLen, RxRing, PipeRead, RxMax} \subseteq Nat \ {0}
    /\ {Nodes, MaxSend} \subseteq Nat

\* The byte at an offset of a stream, whose end zeroes follow; some bytes from there on.
Byte(s, o) == IF o < Len(s.bytes) THEN At(s.bytes, o) ELSE FILL_BYTE
Segment(s, o, n) == [i \in 1 .. n |-> Byte(s, o + i - 1)]

\* The offsets of a stream at which bytes look like a frame that is as it should be.
AfterIntact(s, o) == o + HeadLen + Byte(s, o + 4)
SoundFrames(s) ==
    {o \in 0 .. Len(s.bytes) - 1 :
        \E f \in {Segment(s, o, AfterIntact(s, o) - o)} :
            At(f, 0) = HEAD_1 /\ At(f, 1) = HEAD_2 /\ Sound(f, 0)}

\* Those at which the frames were sent whose commands are named intact: whole, one
\* after the other.  What else looks like a frame is in the data of one of them.
AreIntact(s, frames) ==
    /\ \A o \in frames : AfterIntact(s, o) <= Len(s.bytes)
    /\ \A o, p \in frames : o < p => AfterIntact(s, o) <= p
    /\ \A p \in SoundFrames(s) : \E o \in frames : o <= p /\ p < AfterIntact(s, o)
    /\ Len(s.intact) = Cardinality(frames)
    /\ \A o \in frames :
          s.intact[Cardinality(frames \cap (0 .. o - 1)) + 1] = Byte(s, o + 3)
IntactFrames(s) == CHOOSE frames \in SUBSET SoundFrames(s) : AreIntact(s, frames)
FramesBefore(s, o) == Cardinality(IntactFrames(s) \cap (0 .. o - 1))

\* No accident makes up a sound frame of damaged bytes, or across a frame.
ASSUME StreamsAssumption ==
    \A s \in Streams :
        /\ s.bytes \in Seq(Nat) /\ s.intact \in Seq(Nat)
        /\ \E frames \in SUBSET SoundFrames(s) : AreIntact(s, frames)

Thread == {"app", "link", "spi"}
Other == [app |-> "link", link |-> "app"]

VARIABLES
    pc,        \* where each thread is
    tx_buf, cells, w, r,  \* the transmit buffer; the ring and its indices
    at,        \* the index a thread read before it wrote to the ring
    pipe,      \* bytes in the pipe that wakes the SPI thread
    uMsgFlag, reg,        \* the flags, and what a thread loaded of them
    msgs, job, \* the message queue; the message the link thread handles
    wait, free,           \* stWaitTxList; how many nodes are free
    more,      \* the list went on after the node that is being sent
    conn,      \* "no", "asked" (uConnectFlag only), "yes" (state Connect)
    stream, came,         \* what the microcontroller sends, and how far it is
    block,     \* frames of the block that goes out
    rxRing, rxBuf, todo,  \* bytes that came; those that are kept; the frames
                          \* found in them that are still to be handled
    sent,      \* counter of the bound
    broken,    \* a list or an index is no longer usable: undefined behaviour
    accepted, out, heard, \* history: frames put, sent, and commands heard
    cause      \* history: "overlap", "flag", "rxFull"

txVars == <<tx_buf, cells, w, r, at, pipe, accepted>>
flagVars == <<uMsgFlag, reg, msgs>>
listVars == <<wait, free, more>>
rxVars == <<rxRing, rxBuf, todo, heard, conn>>
spiVars == <<stream, came, block, out>>
vars == <<pc, job, txVars, flagVars, listVars, rxVars, spiVars, sent, broken, cause>>

AppFrame == {<<"app", n>> : n \in 1 .. MaxSend}
Ack == {<<"ack", c>> : c \in {REQ_CMD, BEAT_CMD}}
NoFrame == <<"none", 0>>
Slot(i) == i % Cells
InRing == [i \in 1 .. (w - r) |-> cells[Slot(r + i - 1)]]

Init ==
    /\ pc = [app |-> "idle", link |-> "idle", spi |-> "select"]
    /\ tx_buf = NoFrame /\ cells = [i \in 0 .. Cells - 1 |-> NoFrame]
    /\ w = 0 /\ r = 0 /\ at = [app |-> 0, link |-> 0] /\ pipe = 0
    /\ uMsgFlag = {} /\ reg = [t \in Thread |-> {}] /\ msgs = <<>> /\ job = "none"
    /\ wait = <<>> /\ free = Nodes /\ more = FALSE /\ conn = "no"
    /\ stream \in Streams /\ came = 0 /\ block = <<>>
    /\ rxRing = <<>> /\ rxBuf = <<>> /\ todo = <<>>
    /\ sent = 0 /\ broken = FALSE
    /\ accepted = <<>> /\ out = <<>> /\ heard = <<>> /\ cause = {}

\* What follows a broken list or index is undefined: nobody goes on.
In(t, l) == ~broken /\ pc[t] = l
Goto(t, l) ==
    /\ pc' = [pc EXCEPT ![t] = l]
    /\ job' = IF t = "link" /\ l = "idle" THEN "none" ELSE job

-----------------------------------------------------------------------------
(* Writing a frame to the ring: both the application and the link thread. *)

\* A frame is laid out in tx_buf and not yet in the ring, or in a node.
Producing(t) == pc[t] \in {"check", "put", "bump", "list"}
Overlap(t) == IF Producing(Other[t]) THEN {"overlap"} ELSE {}

\* What a thread hands to yx_spi_drv_send().
Sends(t) == IF t = "link" /\ job = "tx" THEN Head(wait) ELSE tx_buf

\* Yx_Serial_Link_Send(): the frame is laid out.
StartSend ==
    /\ In("app", "idle") /\ sent < MaxSend
    /\ sent' = sent + 1 /\ tx_buf' = <<"app", sent + 1>>
    /\ cause' = cause \cup Overlap("app")
    /\ Goto("app", "check")
    /\ UNCHANGED <<cells, w, r, at, pipe, accepted, flagVars, listVars, rxVars, spiVars, job, broken>>

OverRoom == 0 <= Cells - (w - r)
HasRoom == 1 <= Cells - (w - r)

\* yx_spi_drv_send(): there is room.
FindRoom(t) ==
    /\ In(t, "check") /\ HasRoom
    /\ at' = [at EXCEPT ![t] = w]
    /\ Goto(t, "put")
    /\ UNCHANGED <<tx_buf, cells, w, r, pipe, accepted, flagVars, listVars, rxVars, spiVars, sent, broken, cause>>

\* There is none: the application puts the frame on the list, an
\* acknowledgement is given up, a frame of the list stays there.
FindFull(t) ==
    /\ In(t, "check") /\ ~HasRoom
    /\ Goto(t, IF t = "app" THEN "list" ELSE IF job = "tx" THEN "ask" ELSE "parse")
    /\ broken' = (t = "app" /\ pc.link = "unlist")
    /\ UNCHANGED <<txVars, flagVars, listVars, rxVars, spiVars, sent, cause>>

\* yx_roundbuf_put(): the bytes.
PutFrame(t) ==
    /\ In(t, "put")
    /\ cells' = [cells EXCEPT ![Slot(at[t])] = Sends(t)]
    /\ Goto(t, "bump")
    /\ UNCHANGED <<tx_buf, w, r, at, pipe, accepted, flagVars, listVars, rxVars, spiVars, sent, broken, cause>>

\* The index, which may have been loaded before the bytes were copied.
BumpIndex(t) ==
    /\ In(t, "bump")
    /\ w' \in {at[t] + 1, w + 1}
    /\ broken' = (w' < r)
    /\ accepted' = Append(accepted, IF t = "app" THEN <<"app", sent>> ELSE Sends("link"))
    /\ at' = [at EXCEPT ![t] = 0]
    /\ Goto(t, "notify")
    /\ UNCHANGED <<tx_buf, cells, r, pipe, flagVars, listVars, rxVars, spiVars, sent, cause>>

\* A byte into the pipe.
Notify(t) ==
    /\ In(t, "notify")
    /\ pipe' = pipe + 1
    /\ Goto(t, IF t = "app" THEN "idle" ELSE IF job = "tx" THEN "unlist" ELSE "parse")
    /\ broken' = (t = "link" /\ job = "tx" /\ pc.app = "list")
    /\ UNCHANGED <<tx_buf, cells, w, r, at, accepted, flagVars, listVars, rxVars, spiVars, sent, cause>>

\* Yx_Serial_Link_Send() without room: a copy of the frame waits, if a node is
\* free.
ListFrame ==
    /\ In("app", "list")
    /\ IF free > 0
       THEN wait' = Append(wait, tx_buf) /\ free' = free - 1 /\ Goto("app", "ask")
       ELSE UNCHANGED <<wait, free>> /\ Goto("app", "idle")
    /\ UNCHANGED <<txVars, flagVars, more, rxVars, spiVars, sent, broken, cause>>

-----------------------------------------------------------------------------
(* The flags: a message of a kind is in the queue once.  They are set with *)
(* a load and a store by three threads.                                    *)

Flag == [app |-> "tx", link |-> "tx", spi |-> "rx"]
Done == [app |-> "idle", link |-> "idle", spi |-> "loop"]
Stale(t) == IF reg[t] # uMsgFlag THEN {"flag"} ELSE {}

\* _yx_serial_send_tx_req_msg(), _yx_serial_link_rx_ind_cb(): the test.
AskFlag(t) ==
    /\ In(t, "ask")
    /\ reg' = [reg EXCEPT ![t] = IF Flag[t] \in uMsgFlag THEN {} ELSE uMsgFlag]
    /\ Goto(t, IF Flag[t] \in uMsgFlag THEN Done[t] ELSE "set")
    /\ UNCHANGED <<txVars, uMsgFlag, msgs, listVars, rxVars, spiVars, sent, broken, cause>>

SetFlag(t) ==
    /\ In(t, "set")
    /\ uMsgFlag' = reg[t] \cup {Flag[t]}
    /\ cause' = cause \cup Stale(t)
    /\ reg' = [reg EXCEPT ![t] = {}]
    /\ Goto(t, "post")
    /\ UNCHANGED <<txVars, msgs, listVars, rxVars, spiVars, sent, broken>>

PostMessage(t) ==
    /\ In(t, "post")
    /\ msgs' = Append(msgs, Flag[t])
    /\ Goto(t, Done[t])
    /\ UNCHANGED <<txVars, uMsgFlag, reg, listVars, rxVars, spiVars, sent, broken, cause>>

-----------------------------------------------------------------------------
(* The link thread. *)

\* Yx_Serial_Link_Process(): a message; its flag is loaded.
TakeMessage ==
    /\ In("link", "idle") /\ msgs # <<>>
    /\ job' = Head(msgs) /\ msgs' = Tail(msgs)
    /\ reg' = [reg EXCEPT !.link = uMsgFlag]
    /\ pc' = [pc EXCEPT !.link = "clear"]
    /\ UNCHANGED <<txVars, uMsgFlag, listVars, rxVars, spiVars, sent, broken, cause>>

NotCleared(flags, f) == flags
Cleared(flags, f) == flags \ {f}

\* Yx_Serial_Link_Analyse(), Yx_Serial_Link_Tx_Handle(); the state Disconnect
\* ignores the second.
ClearFlag ==
    /\ In("link", "clear")
    /\ uMsgFlag' = Cleared(reg.link, job)
    /\ cause' = cause \cup Stale("link")
    /\ reg' = [reg EXCEPT !.link = {}]
    /\ Goto("link", IF job = "rx" THEN "read" ELSE IF conn = "yes" THEN "send" ELSE "idle")
    /\ UNCHANGED <<txVars, msgs, listVars, rxVars, spiVars, sent, broken>>

\* _yx_serial_send_waittxlistnode(): the first frame of the list.
SendWaiting ==
    /\ In("link", "send") /\ wait # <<>>
    /\ more' = (Len(wait) > 1)
    /\ cause' = cause \cup Overlap("link")
    /\ Goto("link", "check")
    /\ UNCHANGED <<txVars, flagVars, wait, free, rxVars, spiVars, sent, broken>>

NoneWaiting ==
    /\ In("link", "send") /\ wait = <<>>
    /\ Goto("link", "idle")
    /\ UNCHANGED <<txVars, flagVars, listVars, rxVars, spiVars, sent, broken, cause>>

\* The frame was sent: its node is free again.
UnlistFrame ==
    /\ In("link", "unlist")
    /\ wait' = Tail(wait) /\ free' = free + 1 /\ more' = FALSE
    /\ Goto("link", IF more THEN "send" ELSE IF wait' # <<>> THEN "ask" ELSE "idle")
    /\ UNCHANGED <<txVars, flagVars, rxVars, spiVars, sent, broken, cause>>

Readable == Min({RxMax - Len(rxBuf), Len(rxRing)})

\* _yx_serial_link_rx_analyse(): bytes come to those that are kept, and
\* _yx_serial_link_rxrec() looks for frames, in memory of this thread alone.
ReadBytes ==
    /\ In("link", "read") /\ Readable > 0
    /\ \E buf \in {rxBuf \o SubSeq(rxRing, 1, Readable)} : \E found \in {Analysed(buf)} :
            rxBuf' = From(buf, found.rest) /\ todo' = found.cmds
    /\ rxRing' = From(rxRing, Readable)
    /\ Goto("link", "parse")
    /\ UNCHANGED <<txVars, flagVars, listVars, heard, conn, spiVars, sent, broken, cause>>

\* No byte can be read: the handler returns, and the state may change.
ReadNothing ==
    /\ In("link", "read") /\ Readable = 0
    /\ conn' = IF conn = "asked" THEN "yes" ELSE conn
    /\ Goto("link", IF conn = "asked" /\ wait # <<>> THEN "ask" ELSE "idle")
    /\ UNCHANGED <<txVars, flagVars, listVars, rxRing, rxBuf, todo, heard, spiVars, sent, broken, cause>>

\* _yx_serial_link_rxrec(): a sound frame.  A request and a beat are answered.
HearFrame ==
    LET cmd == Head(todo)
    IN  /\ In("link", "parse") /\ todo # <<>>
        /\ todo' = Tail(todo) /\ heard' = Append(heard, cmd)
        /\ conn' = IF cmd = REQ_CMD /\ conn = "no" THEN "asked" ELSE conn
        /\ IF cmd \in {REQ_CMD, BEAT_CMD}
           THEN /\ tx_buf' = <<"ack", cmd>> /\ cause' = cause \cup Overlap("link")
                /\ Goto("link", "check")
           ELSE UNCHANGED <<tx_buf, cause, pc, job>>
        /\ UNCHANGED <<cells, w, r, at, pipe, accepted, flagVars, listVars, rxRing, rxBuf, spiVars, sent, broken>>

\* All frames are handled: more bytes are read.
AllHeard ==
    /\ In("link", "parse") /\ todo = <<>>
    /\ Goto("link", "read")
    /\ UNCHANGED <<txVars, flagVars, listVars, rxVars, spiVars, sent, broken, cause>>

-----------------------------------------------------------------------------
(* The SPI thread: yx_spi_drv_thread(). *)

\* select(): the pipe is readable, or half a second passed; when there is
\* nothing to send then, select() is called again.
Select ==
    /\ In("spi", "select") /\ (pipe > 0 \/ w # r)
    /\ Goto("spi", IF pipe > 0 THEN "drain" ELSE "loop")
    /\ UNCHANGED <<txVars, flagVars, listVars, rxVars, spiVars, sent, broken, cause>>

\* read() from the pipe, which blocks while it is empty.
DrainPipe ==
    LET n == Min({pipe, PipeRead})
    IN  /\ In("spi", "drain") /\ pipe > 0
        /\ pipe' = pipe - n
        /\ Goto("spi", IF n = PipeRead THEN "drain" ELSE "loop")
        /\ UNCHANGED <<tx_buf, cells, w, r, at, accepted, flagVars, listVars, rxVars, spiVars, sent, broken, cause>>

NothingToSend ==
    /\ In("spi", "loop") /\ w = r
    /\ Goto("spi", "select")
    /\ UNCHANGED <<txVars, flagVars, listVars, rxVars, spiVars, sent, broken, cause>>

\* yx_roundbuf_get(): the bytes of some frames, then the index.
TakeBlock ==
    /\ In("spi", "loop") /\ w # r
    /\ \E n \in 1 .. Min({PerBlock, w - r}) : block' = SubSeq(InRing, 1, n)
    /\ Goto("spi", "taken")
    /\ UNCHANGED <<txVars, flagVars, listVars, rxVars, stream, came, out, sent, broken, cause>>

\* The bytes that come with a block: of the stream, then zeroes.
Coming == Segment(stream, came, BlockLen)

\* _spi_drv_transfer(), and what came goes into the ring as far as it fits.
Transfer ==
    LET n == Min({BlockLen, RxRing - Len(rxRing)})
    IN  /\ In("spi", "taken")
        /\ r' = r + Len(block) /\ out' = out \o block /\ block' = <<>>
        /\ came' = Min({came + BlockLen, Len(stream.bytes)})
        /\ rxRing' = rxRing \o SubSeq(Coming, 1, n)
        /\ cause' = cause \cup (IF n < BlockLen THEN {"rxFull"} ELSE {})
        /\ Goto("spi", "ask")
        /\ UNCHANGED <<tx_buf, cells, w, at, pipe, accepted, flagVars, listVars, rxBuf, todo, heard, conn, stream, sent, broken>>

-----------------------------------------------------------------------------
Write(t) == FindRoom(t) \/ FindFull(t) \/ PutFrame(t) \/ BumpIndex(t) \/ Notify(t)
Request(t) == AskFlag(t) \/ SetFlag(t) \/ PostMessage(t)

App == Write("app") \/ ListFrame \/ Request("app")
Link ==
    \/ Write("link") \/ Request("link")
    \/ TakeMessage \/ ClearFlag
    \/ SendWaiting \/ NoneWaiting \/ UnlistFrame
    \/ ReadBytes \/ ReadNothing \/ HearFrame \/ AllHeard
Spi == Select \/ DrainPipe \/ NothingToSend \/ TakeBlock \/ Transfer \/ Request("spi")

Next == StartSend \/ App \/ Link \/ Spi

\* Threads run; nobody has to call Yx_Serial_Link_Send().
Fairness ==
    /\ WF_vars(App)
    /\ WF_vars(Link)
    /\ WF_vars(Spi)

Spec == Init /\ [][Next]_vars /\ Fairness

-----------------------------------------------------------------------------
TypeOK ==
    /\ pc.app \in {"idle", "check", "put", "bump", "notify", "list", "ask", "set", "post"}
    /\ pc.link \in {"idle", "clear", "read", "parse", "send", "check", "put", "bump", "notify", "unlist", "ask", "set", "post"}
    /\ pc.spi \in {"select", "drain", "loop", "taken", "ask", "set", "post"}
    /\ tx_buf \in AppFrame \cup Ack \cup {NoFrame}
    /\ {w, r, pipe, came} \subseteq Nat /\ at \in [{"app", "link"} -> Nat]
    /\ uMsgFlag \subseteq {"rx", "tx"} /\ reg \in [Thread -> SUBSET {"rx", "tx"}]
    /\ conn \in {"no", "asked", "yes"} /\ job \in {"none", "rx", "tx"}
    /\ free + Len(wait) = Nodes /\ Len(rxBuf) <= RxMax
    /\ Len(rxRing) <= RxRing
    /\ more \in BOOLEAN /\ broken \in BOOLEAN
    /\ cause \subseteq {"overlap", "flag", "rxFull"}

\* Without a lock the frames go out whole, each once and in the order in which
\* the ring took them, however the SPI thread and one sender interleave; only
\* two senders at a time may spoil them (serial_link.c:981, yx_spi_drv.c:258).
FramesKept == "overlap" \notin cause => out \o InRing = accepted

\* The receive buffer is full of a frame that claims to be longer: nothing is
\* read any more (serial_link.c:525 is not reached).
Wedged == Len(rxBuf) = RxMax

\* The frames heard are those the microcontroller sent intact, in order and
\* none left out, whatever the blocks and the damage around them; none is
\* missing once all bytes are analysed but fewer than a head (serial_link.c:469).
FramesHeard ==
    /\ TypeOK
    /\ \/ "rxFull" \in cause
       \/ /\ Len(heard) <= Len(stream.intact) /\ heard = SubSeq(stream.intact, 1, Len(heard))
          /\ came = Len(stream.bytes) /\ rxRing = <<>> /\ Len(rxBuf) < HeadLen /\ todo = <<>> => heard = stream.intact

\* The SPI thread waits in read() for one more byte of the pipe.
Stalled == pc.spi = "drain" /\ pipe = 0
Excused == broken \/ "flag" \in cause

\* Bytes that came are analysed, unless the receiver is wedged; frames in the
\* ring go out, unless the SPI thread is stalled; frames that wait go out once
\* there is a connection; a lost update of uMsgFlag or two senders at a time
\* may undo each (serial_link.c:159).
LinkFlows ==
    /\ rxRing # <<>> ~> rxRing = <<>> \/ Wedged \/ Excused
    /\ w # r ~> w = r \/ Stalled \/ broken
    /\ wait # <<>> /\ conn = "yes" ~> wait = <<>> \/ Stalled \/ Excused
=============================================================================
