-------------------------- MODULE RemoteSim_proofs --------------------------
(***************************************************************************)
(* Proofs about the two halves of remote_sim that keep books without a     *)
(* lock.                                                                   *)
(*                                                                         *)
(* CardControl, for any identifiers and any bounds: why the unlocked       *)
(* promises bring the process down only after an untimely answer or two    *)
(* threads at once, and why the books about the card are right.            *)
(*                                                                         *)
(* RemoteSimDaemon, for every number of restarts of the modem and of lost  *)
(* connections: that the modem knows what the daemon's books say whenever  *)
(* both threads rest, that no event is repeated, and that an exit leaves no*)
(* remote SIM behind outside the named windows, unless an event was not    *)
(* taken or two threads were in a notify function at once.                 *)
(***************************************************************************)
EXTENDS CardControl, RemoteSimDaemon, TLAPS

-----------------------------------------------------------------------------
(* The card: CardControl.                                                  *)

\* Only the main thread powers the card on.
MainPowers ==
    /\ pc["card"] \notin {"powerSent", "powerWait"}
    /\ goal["card"] # "powerOn"

\* The protocol of a promise: one request is answered for the one wait.
Waits(t, p, wait) ==
    pc[t] = wait => /\ promise[p].waiter = t /\ promise[p].val = future[t]
                    /\ future[t] # "broken"
                    /\ inFlight[p] = IF future[t] = "unset" THEN 1 ELSE 0
Sends(t, p, sent) == pc[t] = sent => inFlight[p] = 1
NobodyWaits(p, sent, wait) ==
    /\ (\A t \in Thread : pc[t] \notin {sent, wait}) => inFlight[p] = 0
    /\ (\A t \in Thread : pc[t] # wait) => promise[p].waiter = "nobody"

Protocol ==
    /\ ~crashed
    /\ ~(Inside("main") /\ Inside("card"))
    /\ \A t \in Thread : Sends(t, "open", "openSent") /\ Waits(t, "open", "openWait")
    /\ \A t \in Thread : Sends(t, "powerOn", "powerSent") /\ Waits(t, "powerOn", "powerWait")
    /\ NobodyWaits("open", "openSent", "openWait")
    /\ NobodyWaits("powerOn", "powerSent", "powerWait")

Untroubled == cause \cap {"early", "late", "overlap"} = {}

\* The flag and the modem: they differ only while a notice or an answer is on
\* its way.
Opened(t) == pc[t] = "openWait" /\ future[t] = "ok"
Exact ==
    /\ sapOpen => cardIn
    /\ inFlight["close"] = 0
    /\ cardConnected_ => sapOpen \/ (~cardIn /\ notices > 0)
    /\ sapOpen => cardConnected_ \/ \E t \in Thread : Opened(t)
    /\ \A t \in Thread : Opened(t) => sapOpen

Basics == TypeOK /\ notices <= changes /\ MainPowers /\ ApduMapDrains
IInv ==
    /\ Basics
    /\ Untroubled => Protocol
    /\ cause = {} => Exact

-----------------------------------------------------------------------------
(* Requests and threads. *)

LEMMA TheOther == Other("main") = "card" /\ Other("card") = "main"
<1>1. \A u \in Thread : u # "main" <=> u = "card"
  BY DEF Thread
<1>2. \A u \in Thread : u # "card" <=> u = "main"
  BY DEF Thread
<1> QED BY <1>1, <1>2 DEF Other, Thread

LEMMA SentOne ==
  ASSUME inFlight \in [Kind -> Nat], NEW k \in Kind, Sent(k)
  PROVE  /\ inFlight' \in [Kind -> Nat] /\ inFlight'[k] = inFlight[k] + 1
         /\ \A j \in Kind : j # k => inFlight'[j] = inFlight[j]
  BY DEF Sent

LEMMA AnsweredOne ==
  ASSUME inFlight \in [Kind -> Nat], NEW k \in Kind, inFlight[k] > 0, Answered(k)
  PROVE  /\ inFlight' \in [Kind -> Nat] /\ inFlight'[k] = inFlight[k] - 1
         /\ \A j \in Kind : j # k => inFlight'[j] = inFlight[j]
  BY DEF Answered

LEMMA RequestedOne ==
  ASSUME inFlight \in [Kind -> Nat], NEW k \in Kind, Request(k)
  PROVE  /\ inFlight' \in [Kind -> Nat]
         /\ \A j \in Kind : j # k => inFlight'[j] = inFlight[j]
  BY DEF Request, Sent

-----------------------------------------------------------------------------
(* Types, and what needs no history: one lemma for each part of the program. *)

LEMMA InitHolds == Init => IInv
<1> SUFFICES ASSUME Init PROVE IInv
  OBVIOUS
<1>1. TypeOK
  <2>1. /\ pc \in [Thread -> {"idle", "openSent", "openWait", "powerSent", "powerWait"}]
        /\ goal \in [Thread -> Goal] /\ future \in [Thread -> Value] /\ inFlight \in [Kind -> Nat]
    BY DEF Init, Goal, Value
  <2>2. promise \in [Promise -> [val : Value, waiter : Thread \cup {"nobody"}]]
    BY DEF Init, Value
  <2>3. {notices, changes} \subseteq 0 .. MaxCard /\ cause \in SUBSET Cause
    BY CardAssumption DEF Init
  <2> QED BY <2>1, <2>2, <2>3 DEF Init, TypeOK
<1>2. notices <= changes /\ MainPowers /\ ApduMapDrains
  BY DEF Init, MainPowers, ApduMapDrains, Thread
<1>3. Protocol
  BY DEF Init, Protocol, Inside, Sends, Waits, NobodyWaits, Thread, Promise, Kind
<1>4. Exact
  BY DEF Init, Exact, Opened, Kind
<1> QED BY <1>1, <1>2, <1>3, <1>4 DEF IInv, Basics

LEMMA OpenSapConnBasics ==
  ASSUME Basics, NEW t \in Thread, NEW g \in Goal, NEW present, OpenSapConn(t, g, present),
         t = "card" => g # "powerOn"
  PROVE  /\ inFlight' \in [Kind -> Nat] /\ cause' \in SUBSET Cause
         /\ pc' \in [Thread -> {"idle", "openSent", "openWait", "powerSent", "powerWait"}]
         /\ goal' \in [Thread -> Goal] /\ MainPowers'
<1>1. CASE Returns(t) /\ UNCHANGED <<inFlight, cause>>
  BY <1>1 DEF Returns, Basics, TypeOK, MainPowers, Goal, Thread
<1>2. CASE Sent("open") /\ pc' = [pc EXCEPT ![t] = "openSent"] /\ goal' = [goal EXCEPT ![t] = g]
  <2>1. inFlight' \in [Kind -> Nat]
    BY <1>2, SentOne DEF Basics, TypeOK, Kind
  <2>2. CASE cause' = cause \/ cause' = cause \cup {"overlap"}
    BY <1>2, <2>1, <2>2 DEF Basics, TypeOK, MainPowers, Cause, Thread
  <2> QED BY <1>2, <2>2 DEF OpenSapConn
<1> QED BY <1>1, <1>2 DEF OpenSapConn

LEMMA HandlerBasics == Basics /\ Handler => Basics'
<1> SUFFICES ASSUME Basics, Handler PROVE Basics'
  OBVIOUS
<1>1. CASE ConnectToCard
  <2>1. /\ inFlight' \in [Kind -> Nat] /\ cause' \in SUBSET Cause
        /\ pc' \in [Thread -> {"idle", "openSent", "openWait", "powerSent", "powerWait"}]
        /\ goal' \in [Thread -> Goal] /\ MainPowers'
    <3>1. CASE cardConnected_
      BY <1>1, <3>1, RequestedOne DEF ConnectToCard, Basics, TypeOK, MainPowers, Kind
    <3>2. CASE ~cardConnected_
      BY <1>1, <3>2, OpenSapConnBasics DEF ConnectToCard, Thread, Goal
    <3> QED BY <3>1, <3>2
  <2> QED BY <1>1, <2>1 DEF ConnectToCard, Rest, Basics, TypeOK, ApduMapDrains
<1>2. CASE DisconnectFromCard
  <2>1. inFlight' \in [Kind -> Nat] /\ cause' \in SUBSET Cause
    BY <1>2, SentOne DEF DisconnectFromCard, Basics, TypeOK, Kind, Cause
  <2> QED BY <1>2, <2>1 DEF DisconnectFromCard, Rest, Basics, TypeOK, ApduMapDrains, MainPowers
<1>3. CASE PowerUpCard
  <2>1. /\ inFlight' \in [Kind -> Nat] /\ cause' \in SUBSET Cause
        /\ pc' \in [Thread -> {"idle", "openSent", "openWait", "powerSent", "powerWait"}]
        /\ goal' \in [Thread -> Goal] /\ MainPowers'
    <3>1. CASE cardConnected_
      <4>1. CASE UNCHANGED <<inFlight, pc, goal>>
        BY <1>3, <3>1, <4>1 DEF PowerUpCard, Basics, TypeOK, MainPowers
      <4>2. CASE Sent("powerOn") /\ pc' = [pc EXCEPT !["main"] = "powerSent"] /\ goal' = [goal EXCEPT !["main"] = "powerOn"]
        <5>1. inFlight' \in [Kind -> Nat]
          BY <4>2, SentOne DEF Basics, TypeOK, Kind
        <5> QED BY <1>3, <3>1, <4>2, <5>1 DEF PowerUpCard, Basics, TypeOK, MainPowers, Thread, Goal
      <4> QED BY <1>3, <3>1, <4>1, <4>2 DEF PowerUpCard
    <3>2. CASE ~cardConnected_
      BY <1>3, <3>2, OpenSapConnBasics DEF PowerUpCard, Thread, Goal
    <3> QED BY <3>1, <3>2
  <2> QED BY <1>3, <2>1 DEF PowerUpCard, Rest, Basics, TypeOK, ApduMapDrains
<1>4. ASSUME NEW k \in Kind, PowerDownOrReset(k) PROVE Basics'
  <2>1. inFlight' \in [Kind -> Nat]
    BY <1>4, RequestedOne DEF PowerDownOrReset, Basics, TypeOK
  <2> QED BY <1>4, <2>1 DEF PowerDownOrReset, Rest, Basics, TypeOK, ApduMapDrains, MainPowers
<1>5. ASSUME NEW a \in Apdu, SendApduToSim(a) PROVE Basics'
  <2>1. TypeOK'
    BY <1>5 DEF SendApduToSim, Rest, Basics, TypeOK
  <2>2. ApduMapDrains'
    BY <1>5 DEF SendApduToSim, Basics, ApduMapDrains
  <2> QED BY <1>5, <2>1, <2>2 DEF SendApduToSim, Rest, Basics, MainPowers
<1> QED BY <1>1, <1>2, <1>3, <1>4, <1>5 DEF Handler

LEMMA ListenerBasics == Basics /\ OnCardInfoChanged => Basics'
<1> SUFFICES ASSUME Basics, OnCardInfoChanged PROVE Basics'
  OBVIOUS
<1>1. /\ inFlight' \in [Kind -> Nat] /\ cause' \in SUBSET Cause
      /\ pc' \in [Thread -> {"idle", "openSent", "openWait", "powerSent", "powerWait"}]
      /\ goal' \in [Thread -> Goal] /\ MainPowers' /\ cardPresent_' \in BOOLEAN /\ cardConnected_' \in BOOLEAN
  <2>1. CASE ~cardIn
    BY <2>1 DEF OnCardInfoChanged, Absent, Basics, TypeOK, MainPowers, Cause
  <2>2. CASE cardIn /\ ~cardConnected_ /\ daemonConnected_
    BY <2>2, OpenSapConnBasics DEF OnCardInfoChanged, Thread, Goal, Basics, TypeOK
  <2>3. CASE cardIn /\ ~(~cardConnected_ /\ daemonConnected_)
    BY <2>3, RequestedOne DEF OnCardInfoChanged, Basics, TypeOK, MainPowers, Kind
  <2> QED BY <2>1, <2>2, <2>3
<1>2. notices' \in 0 .. MaxCard /\ notices' <= changes'
  BY CardAssumption DEF OnCardInfoChanged, Basics, TypeOK
<1> QED BY <1>1, <1>2 DEF OnCardInfoChanged, Basics, TypeOK, ApduMapDrains

LEMMA WaitingBasics == ASSUME NEW t \in Thread, Basics, Waiting(t) PROVE Basics'
<1>1. ASSUME NEW p \in Promise, NEW sent, NEW wait \in {"openWait", "powerWait"},
             ReplacePromise(t, p, sent, wait), p = "powerOn" => sent = "powerSent", p = "open" => wait = "openWait"
      PROVE  Basics'
  <2>1. promise' \in [Promise -> [val : Value, waiter : Thread \cup {"nobody"}]]
    BY <1>1 DEF ReplacePromise, FreshPromise, Basics, TypeOK, Value
  <2>2. future' \in [Thread -> Value]
    BY <1>1 DEF ReplacePromise, BrokenBy, Basics, TypeOK, Value
  <2>3. MainPowers'
    BY <1>1 DEF ReplacePromise, Basics, TypeOK, MainPowers, Thread, Promise
  <2> QED BY <1>1, <2>1, <2>2, <2>3 DEF ReplacePromise, Basics, TypeOK, ApduMapDrains, flags, modem
<1>2. ASSUME NEW p \in Promise, ForgetWaiter(p, t)
      PROVE  promise' \in [Promise -> [val : Value, waiter : Thread \cup {"nobody"}]]
  BY <1>2 DEF ForgetWaiter, Basics, TypeOK
<1>3. ASSUME Returns(t)
      PROVE  /\ pc' \in [Thread -> {"idle", "openSent", "openWait", "powerSent", "powerWait"}]
             /\ goal' \in [Thread -> Goal] /\ MainPowers'
  BY <1>3 DEF Returns, Basics, TypeOK, MainPowers, Goal, Thread
<1>4. ASSUME NEW p \in Promise, NEW wait, WaitTimesOut(t, p, wait) PROVE Basics'
  <2>1. cause' \in SUBSET Cause
    BY <1>4 DEF WaitTimesOut, Basics, TypeOK, Cause
  <2>2. Returns(t) /\ ForgetWaiter(p, t) /\ UNCHANGED <<flags, apduRespCbMap_, future, daemonConnected_, crashed, modem, failedApdus>>
    BY <1>4 DEF WaitTimesOut
  <2> QED BY <1>2, <1>3, <2>1, <2>2 DEF Basics, TypeOK, ApduMapDrains, flags, modem
<1>5. CASE OpenReady(t)
  <2>1. promise' \in [Promise -> [val : Value, waiter : Thread \cup {"nobody"}]]
    BY <1>2, <1>5 DEF OpenReady, Promise
  <2>2. /\ pc' \in [Thread -> {"idle", "openSent", "openWait", "powerSent", "powerWait"}]
        /\ goal' \in [Thread -> Goal] /\ MainPowers' /\ inFlight' \in [Kind -> Nat] /\ cardConnected_' \in BOOLEAN
    <3>1. CASE Returns(t) /\ UNCHANGED <<cardConnected_, inFlight>>
      BY <1>3, <3>1 DEF Basics, TypeOK
    <3>2. CASE Returns(t) /\ cardConnected_' /\ UNCHANGED inFlight
      BY <1>3, <3>2, <1>5 DEF Basics, TypeOK, OpenReady, ConnectedAfterOpen
    <3>3. CASE Returns(t) /\ Request(goal[t]) /\ cardConnected_' = TRUE /\ goal[t] \in {"atrReset", "atrInserted"}
      BY <1>3, <3>3, RequestedOne DEF Basics, TypeOK, Kind
    <3>4. CASE goal[t] = "powerOn" /\ Sent("powerOn") /\ pc' = [pc EXCEPT ![t] = "powerSent"] /\ UNCHANGED goal /\ cardConnected_' = TRUE
      <4>1. inFlight' \in [Kind -> Nat]
        BY <3>4, SentOne DEF Basics, TypeOK, Kind
      <4> QED BY <3>4, <4>1 DEF Basics, TypeOK, MainPowers, Thread
    <3> QED BY <1>5, <3>1, <3>2, <3>3, <3>4 DEF OpenReady, ConnectedAfterOpen
  <2> QED BY <1>5, <2>1, <2>2 DEF OpenReady, Basics, TypeOK, ApduMapDrains
<1>6. CASE PowerReady(t)
  <2>1. promise' \in [Promise -> [val : Value, waiter : Thread \cup {"nobody"}]]
    BY <1>2, <1>6 DEF PowerReady, Promise
  <2>2. inFlight' \in [Kind -> Nat]
    BY <1>6, RequestedOne DEF PowerReady, Basics, TypeOK, Kind
  <2> QED BY <1>3, <1>6, <2>1, <2>2 DEF PowerReady, Basics, TypeOK, ApduMapDrains, flags
<1> QED BY <1>1, <1>4, <1>5, <1>6 DEF Waiting, Promise

LEMMA CallbackBasics == Basics /\ Callback => Basics'
<1> SUFFICES ASSUME Basics, Callback PROVE Basics'
  OBVIOUS
<1>1. ASSUME NEW p \in Promise, NEW sent, NEW v \in {"ok", "failed"}, PromiseCallback(p, sent, v) PROVE Basics'
  <2>1. inFlight' \in [Kind -> Nat]
    BY <1>1, AnsweredOne DEF PromiseCallback, Basics, TypeOK, Kind, Promise
  <2>2. /\ promise' \in [Promise -> [val : Value, waiter : Thread \cup {"nobody"}]]
        /\ future' \in [Thread -> Value] /\ crashed' \in BOOLEAN
    <3>1. v \in Value /\ crashed' \in BOOLEAN
      BY <1>1 DEF PromiseCallback, SetPromise, Basics, TypeOK, Value
    <3>2. CASE UNCHANGED <<promise, future>>
      BY <3>1, <3>2 DEF Basics, TypeOK
    <3>3. CASE promise' = [promise EXCEPT ![p].val = v]
      <4>1. promise' \in [Promise -> [val : Value, waiter : Thread \cup {"nobody"}]]
        BY <3>1, <3>3 DEF Basics, TypeOK
      <4>2. future' = future \/ \E w \in Thread : future' = [future EXCEPT ![w] = v]
        BY <1>1 DEF PromiseCallback, SetPromise
      <4> QED BY <3>1, <4>1, <4>2 DEF Basics, TypeOK
    <3> QED BY <1>1, <3>1, <3>2, <3>3 DEF PromiseCallback, SetPromise
  <2>3. cause' \in SUBSET Cause /\ sapOpen' \in BOOLEAN
    BY <1>1 DEF PromiseCallback, Basics, TypeOK, Cause
  <2> QED BY <1>1, <2>1, <2>2, <2>3 DEF PromiseCallback, Basics, TypeOK, ApduMapDrains, MainPowers, flags
<1>2. ASSUME NEW k \in Kind, PlainCallback(k) PROVE Basics'
  <2>1. inFlight' \in [Kind -> Nat] /\ sapOpen' \in BOOLEAN
    BY <1>2, AnsweredOne DEF PlainCallback, Basics, TypeOK
  <2> QED BY <1>2, <2>1 DEF PlainCallback, CallbackRest, threads, Basics, TypeOK, ApduMapDrains, MainPowers, flags
<1>3. CASE ResetCallback
  <2>1. inFlight' \in [Kind -> Nat]
    BY <1>3 DEF ResetCallback, Answered, Basics, TypeOK, Kind
  <2> QED BY <1>3, <2>1 DEF ResetCallback, CallbackRest, threads, Basics, TypeOK, ApduMapDrains, MainPowers, flags
<1>4. ASSUME NEW a \in Apdu, ApduCallback(a) PROVE Basics'
  BY <1>4 DEF ApduCallback, ApduErased, threads, Basics, TypeOK, ApduMapDrains, MainPowers, flags
<1> QED BY <1>1, <1>2, <1>3, <1>4 DEF Callback, Promise

LEMMA EnvironmentBasics ==
  ASSUME Basics, (\E in \in BOOLEAN : CardChanges(in)) \/ DaemonComesOrGoes PROVE Basics'
<1>1. ASSUME NEW in \in BOOLEAN, CardChanges(in) PROVE Basics'
  <2>1. notices' \in 0 .. MaxCard /\ changes' \in 0 .. MaxCard /\ notices' <= changes'
    BY <1>1, CardAssumption DEF CardChanges, Basics, TypeOK
  <2>2. cause' \in SUBSET Cause /\ sapOpen' \in BOOLEAN
    BY <1>1 DEF CardChanges, Basics, TypeOK, Cause
  <2> QED BY <1>1, <2>1, <2>2 DEF CardChanges, threads, Basics, TypeOK, ApduMapDrains, MainPowers, flags
<1>2. CASE DaemonComesOrGoes
  BY <1>2 DEF DaemonComesOrGoes, threads, modem, Basics, TypeOK, ApduMapDrains, MainPowers, flags
<1> QED BY <1>1, <1>2

-----------------------------------------------------------------------------
(* The promises, as long as no answer is untimely and no threads overlap. *)

\* Nothing that waits or is waited for.
promiseVars == <<pc, promise, future, crashed>>

LEMMA ProtocolStays ==
  ASSUME Protocol, UNCHANGED promiseVars,
         inFlight'["open"] = inFlight["open"], inFlight'["powerOn"] = inFlight["powerOn"]
  PROVE  Protocol'
  BY DEF Protocol, promiseVars, Inside, Sends, Waits, NobodyWaits

LEMMA OpenSapConnProtocol ==
  ASSUME Basics, Protocol, NEW t \in Thread, NEW g, NEW present, OpenSapConn(t, g, present),
         pc[t] = "idle", UNCHANGED <<promise, future, crashed>>, "overlap" \notin cause'
  PROVE  Protocol'
<1>1. CASE Returns(t) /\ UNCHANGED <<inFlight, cause>>
  <2>1. pc' = pc
    BY <1>1 DEF Returns, Basics, TypeOK
  <2> QED BY <1>1, <2>1, ProtocolStays DEF promiseVars
<1>2. CASE Sent("open") /\ pc' = [pc EXCEPT ![t] = "openSent"] /\ ~Inside(Other(t))
  <2>1. \A u \in Thread : pc[u] \notin {"openSent", "openWait"}
    BY <1>2, TheOther DEF Inside, Thread
  <2>2. inFlight["open"] = 0 /\ promise["open"].waiter = "nobody"
    BY <2>1 DEF Protocol, NobodyWaits
  <2>3. inFlight'["open"] = 1 /\ inFlight'["powerOn"] = inFlight["powerOn"]
    BY <1>2, <2>2, SentOne DEF Basics, TypeOK, Kind
  <2>4. pc'[t] = "openSent" /\ \A u \in Thread : u # t => pc'[u] = pc[u]
    BY <1>2 DEF Basics, TypeOK
  <2>5. ~(Inside("main") /\ Inside("card"))'
    BY <2>1, <2>4 DEF Inside, Thread
  <2>6. \A u \in Thread : Sends(u, "open", "openSent")' /\ Waits(u, "open", "openWait")'
    BY <2>1, <2>3, <2>4 DEF Sends, Waits
  <2>7. \A u \in Thread : Sends(u, "powerOn", "powerSent")' /\ Waits(u, "powerOn", "powerWait")'
    BY <2>3, <2>4 DEF Protocol, Sends, Waits
  <2>8. NobodyWaits("open", "openSent", "openWait")' /\ NobodyWaits("powerOn", "powerSent", "powerWait")'
    BY <2>1, <2>2, <2>3, <2>4 DEF Protocol, NobodyWaits
  <2> QED BY <2>5, <2>6, <2>7, <2>8 DEF Protocol
<1> QED BY <1>1, <1>2 DEF OpenSapConn

\* The main thread asks for power, from a handler or once the connection is open.
MainAsks ==
    \/ pc["main"] = "idle" /\ promise' = promise
    \/ pc["main"] = "openWait" /\ ForgetWaiter("open", "main") /\ future["main"] # "unset"

LEMMA PowerAsked ==
  ASSUME Basics, Protocol, Sent("powerOn"), pc' = [pc EXCEPT !["main"] = "powerSent"],
         MainAsks, future' = future, ~crashed'
  PROVE  Protocol'
<1>1. \A u \in Thread : pc[u] \notin {"powerSent", "powerWait"}
  BY DEF MainAsks, Basics, MainPowers, Thread
<1>2. inFlight["powerOn"] = 0 /\ promise["powerOn"].waiter = "nobody"
  BY <1>1 DEF Protocol, NobodyWaits
<1>3. inFlight'["powerOn"] = 1 /\ inFlight'["open"] = inFlight["open"]
  BY <1>2, SentOne DEF Basics, TypeOK, Kind
<1>4. pc'["main"] = "powerSent" /\ pc'["card"] = pc["card"]
  BY DEF Basics, TypeOK, Thread
<1>5. ~(Inside("main") /\ Inside("card"))'
  BY <1>4 DEF Inside
<1>6. promise'["powerOn"] = promise["powerOn"]
  BY DEF MainAsks, ForgetWaiter, Basics, TypeOK, Promise
<1>7. promise'["open"].val = promise["open"].val
  BY DEF MainAsks, ForgetWaiter, Basics, TypeOK, Promise
<1>8. CASE pc["main"] = "idle" /\ promise' = promise
  <2>1. \A u \in Thread : Sends(u, "open", "openSent")' /\ Waits(u, "open", "openWait")'
    BY <1>8, <1>3, <1>4 DEF Protocol, Sends, Waits, Thread
  <2>2. NobodyWaits("open", "openSent", "openWait")'
    BY <1>8, <1>3, <1>4 DEF Protocol, NobodyWaits, Thread
  <2>3. \A u \in Thread : Sends(u, "powerOn", "powerSent")' /\ Waits(u, "powerOn", "powerWait")'
    BY <1>1, <1>3, <1>4 DEF Sends, Waits, Thread
  <2>4. NobodyWaits("powerOn", "powerSent", "powerWait")'
    BY <1>2, <1>3, <1>4, <1>6 DEF NobodyWaits, Thread
  <2> QED BY <1>5, <2>1, <2>2, <2>3, <2>4 DEF Protocol
<1>9. CASE pc["main"] = "openWait" /\ ForgetWaiter("open", "main") /\ future["main"] # "unset"
  <2>0. pc["card"] \notin {"openSent", "openWait"}
    BY <1>9 DEF Protocol, Inside
  <2>1. promise["open"].waiter = "main" /\ inFlight["open"] = 0
    BY <1>9 DEF Protocol, Waits, Thread
  <2>2. promise'["open"].waiter = "nobody"
    BY <1>9, <2>1 DEF ForgetWaiter, Basics, TypeOK, Promise
  <2>3. \A u \in Thread : Sends(u, "open", "openSent")' /\ Waits(u, "open", "openWait")'
    BY <2>0, <1>4 DEF Sends, Waits, Thread
  <2>4. NobodyWaits("open", "openSent", "openWait")'
    BY <1>3, <1>4, <2>1, <2>2 DEF NobodyWaits, Thread
  <2>5. \A u \in Thread : Sends(u, "powerOn", "powerSent")' /\ Waits(u, "powerOn", "powerWait")'
    BY <1>1, <1>3, <1>4 DEF Sends, Waits, Thread
  <2>6. NobodyWaits("powerOn", "powerSent", "powerWait")'
    BY <1>2, <1>3, <1>4, <1>6 DEF NobodyWaits, Thread
  <2> QED BY <1>5, <2>3, <2>4, <2>5, <2>6 DEF Protocol
<1> QED BY <1>8, <1>9 DEF MainAsks

LEMMA HandlerProtocol == Basics /\ Protocol /\ Handler /\ Untroubled' => Protocol'
<1> SUFFICES ASSUME Basics, Protocol, Handler, Untroubled' PROVE Protocol'
  OBVIOUS
<1>0. "overlap" \notin cause' /\ pc["main"] = "idle" /\ UNCHANGED <<promise, future, crashed>>
  BY DEF Untroubled, Handler, ConnectToCard, DisconnectFromCard, PowerUpCard, PowerDownOrReset, SendApduToSim, Reads, Rest
<1>1. CASE ConnectToCard
  <2>1. CASE cardConnected_
    BY <1>1, <2>1, ProtocolStays, RequestedOne DEF ConnectToCard, Rest, promiseVars, Basics, TypeOK, Kind
  <2>2. CASE ~cardConnected_
    BY <1>0, <1>1, <2>2, OpenSapConnProtocol DEF ConnectToCard, Thread
  <2> QED BY <2>1, <2>2
<1>2. CASE DisconnectFromCard
  BY <1>2, ProtocolStays, SentOne DEF DisconnectFromCard, Rest, promiseVars, Basics, TypeOK, Kind
<1>3. CASE PowerUpCard
  <2>1. CASE cardConnected_ /\ UNCHANGED <<inFlight, pc>>
    BY <1>3, <2>1, ProtocolStays DEF PowerUpCard, Rest, promiseVars
  <2>2. CASE cardConnected_ /\ Sent("powerOn") /\ pc' = [pc EXCEPT !["main"] = "powerSent"]
    <3>1. MainAsks /\ future' = future /\ ~crashed'
      BY <1>0 DEF MainAsks, Protocol
    <3> QED BY <2>2, <3>1, PowerAsked
  <2>3. CASE ~cardConnected_
    BY <1>0, <1>3, <2>3, OpenSapConnProtocol DEF PowerUpCard, Thread
  <2> QED BY <1>3, <2>1, <2>2, <2>3 DEF PowerUpCard
<1>4. ASSUME NEW k \in Kind, PowerDownOrReset(k) PROVE Protocol'
  BY <1>4, ProtocolStays, RequestedOne DEF PowerDownOrReset, Rest, promiseVars, Basics, TypeOK, Kind
<1>5. ASSUME NEW a \in Apdu, SendApduToSim(a) PROVE Protocol'
  BY <1>5, ProtocolStays DEF SendApduToSim, Rest, promiseVars
<1> QED BY <1>1, <1>2, <1>3, <1>4, <1>5 DEF Handler

LEMMA ListenerProtocol == Basics /\ Protocol /\ OnCardInfoChanged /\ Untroubled' => Protocol'
<1> SUFFICES ASSUME Basics, Protocol, OnCardInfoChanged, Untroubled' PROVE Protocol'
  OBVIOUS
<1>0. "overlap" \notin cause' /\ pc["card"] = "idle" /\ UNCHANGED <<promise, future, crashed>>
  BY DEF Untroubled, OnCardInfoChanged
<1>1. CASE ~cardIn
  BY <1>0, <1>1, ProtocolStays DEF OnCardInfoChanged, promiseVars
<1>2. CASE cardIn /\ ~cardConnected_ /\ daemonConnected_
  BY <1>0, <1>2, OpenSapConnProtocol DEF OnCardInfoChanged, Thread
<1>3. CASE cardIn /\ ~(~cardConnected_ /\ daemonConnected_)
  BY <1>0, <1>3, ProtocolStays, RequestedOne DEF OnCardInfoChanged, promiseVars, Basics, TypeOK, Kind
<1> QED BY <1>1, <1>2, <1>3

LEMMA EnvironmentProtocol ==
  ASSUME Protocol, (\E in \in BOOLEAN : CardChanges(in)) \/ DaemonComesOrGoes PROVE Protocol'
  BY ProtocolStays DEF CardChanges, DaemonComesOrGoes, threads, modem, promiseVars

LEMMA WaitingProtocol ==
  ASSUME NEW t \in Thread, Basics, Protocol, Waiting(t), Untroubled' PROVE Protocol'
<1>1. CASE ReplacePromise(t, "open", "openSent", "openWait")
  <2>1. pc[t] = "openSent" /\ pc'[t] = "openWait" /\ \A u \in Thread : u # t => pc'[u] = pc[u]
    BY <1>1 DEF ReplacePromise, Basics, TypeOK
  <2>2. \A u \in Thread : u # t => pc[u] \notin {"openSent", "openWait"}
    BY <2>1 DEF Protocol, Inside, Thread
  <2>3. inFlight["open"] = 1 /\ inFlight' = inFlight /\ crashed' = crashed
    BY <1>1, <2>1 DEF Protocol, Sends, ReplacePromise, modem
  <2>4. promise["open"].waiter = "nobody"
    BY <2>1, <2>2 DEF Protocol, NobodyWaits
  <2>5. future' = [future EXCEPT ![t] = "unset"]
    BY <1>1, <2>4 DEF ReplacePromise, BrokenBy, Thread
  <2>6. promise'["open"] = [val |-> "unset", waiter |-> t] /\ promise'["powerOn"] = promise["powerOn"]
    BY <1>1 DEF ReplacePromise, FreshPromise, Basics, TypeOK, Promise
  <2>7. ~(Inside("main") /\ Inside("card"))'
    BY <2>1, <2>2 DEF Inside, Thread
  <2>8. \A u \in Thread : Sends(u, "open", "openSent")' /\ Waits(u, "open", "openWait")'
    BY <2>1, <2>2, <2>3, <2>5, <2>6 DEF Sends, Waits, Basics, TypeOK
  <2>9. \A u \in Thread : Sends(u, "powerOn", "powerSent")' /\ Waits(u, "powerOn", "powerWait")'
    BY <2>1, <2>3, <2>5, <2>6 DEF Protocol, Sends, Waits, Basics, TypeOK
  <2>10. NobodyWaits("open", "openSent", "openWait")' /\ NobodyWaits("powerOn", "powerSent", "powerWait")'
    BY <2>1, <2>3, <2>6 DEF Protocol, NobodyWaits
  <2> QED BY <2>3, <2>7, <2>8, <2>9, <2>10 DEF Protocol
<1>2. CASE ReplacePromise(t, "powerOn", "powerSent", "powerWait")
  <2>1. pc[t] = "powerSent" /\ pc'[t] = "powerWait" /\ \A u \in Thread : u # t => pc'[u] = pc[u]
    BY <1>2 DEF ReplacePromise, Basics, TypeOK
  <2>2. \A u \in Thread : u # t => pc[u] \notin {"powerSent", "powerWait"}
    BY <2>1 DEF Basics, MainPowers, Thread
  <2>3. inFlight["powerOn"] = 1 /\ inFlight' = inFlight /\ crashed' = crashed
    BY <1>2, <2>1 DEF Protocol, Sends, ReplacePromise, modem
  <2>4. promise["powerOn"].waiter = "nobody"
    BY <2>1, <2>2 DEF Protocol, NobodyWaits
  <2>5. future' = [future EXCEPT ![t] = "unset"]
    BY <1>2, <2>4 DEF ReplacePromise, BrokenBy, Thread
  <2>6. promise'["powerOn"] = [val |-> "unset", waiter |-> t] /\ promise'["open"] = promise["open"]
    BY <1>2 DEF ReplacePromise, FreshPromise, Basics, TypeOK, Promise
  <2>7. ~(Inside("main") /\ Inside("card"))'
    BY <2>1 DEF Protocol, Inside, Thread
  <2>8. \A u \in Thread : Sends(u, "open", "openSent")' /\ Waits(u, "open", "openWait")'
    BY <2>1, <2>3, <2>5, <2>6 DEF Protocol, Sends, Waits, Basics, TypeOK
  <2>9. \A u \in Thread : Sends(u, "powerOn", "powerSent")' /\ Waits(u, "powerOn", "powerWait")'
    BY <2>1, <2>2, <2>3, <2>5, <2>6 DEF Sends, Waits, Basics, TypeOK
  <2>10. NobodyWaits("open", "openSent", "openWait")' /\ NobodyWaits("powerOn", "powerSent", "powerWait")'
    BY <2>1, <2>3, <2>6 DEF Protocol, NobodyWaits
  <2> QED BY <2>3, <2>7, <2>8, <2>9, <2>10 DEF Protocol
<1>3. ASSUME pc[t] = "openWait", ForgetWaiter("open", t), Returns(t), inFlight'["open"] = inFlight["open"],
             inFlight["open"] = 0, inFlight'["powerOn"] = inFlight["powerOn"], UNCHANGED future, ~crashed'
      PROVE  Protocol'
  <2>1. pc'[t] = "idle" /\ \A u \in Thread : u # t => pc'[u] = pc[u]
    BY <1>3 DEF Returns, Basics, TypeOK
  <2>2. \A u \in Thread : u # t => pc[u] \notin {"openSent", "openWait"}
    BY <1>3 DEF Protocol, Inside, Thread
  <2>3. promise'["open"].waiter = "nobody" /\ promise'["powerOn"] = promise["powerOn"]
    BY <1>3 DEF Protocol, Waits, ForgetWaiter, Basics, TypeOK, Promise
  <2>4. \A u \in Thread : Sends(u, "open", "openSent")' /\ Waits(u, "open", "openWait")'
    BY <2>1, <2>2 DEF Sends, Waits
  <2>5. \A u \in Thread : Sends(u, "powerOn", "powerSent")' /\ Waits(u, "powerOn", "powerWait")'
    BY <1>3, <2>1, <2>3 DEF Protocol, Sends, Waits
  <2>6. NobodyWaits("open", "openSent", "openWait")' /\ NobodyWaits("powerOn", "powerSent", "powerWait")'
    BY <1>3, <2>1, <2>3 DEF Protocol, NobodyWaits
  <2>7. ~(Inside("main") /\ Inside("card"))'
    BY <2>1 DEF Inside, Thread
  <2> QED BY <1>3, <2>4, <2>5, <2>6, <2>7 DEF Protocol
<1>4. ASSUME pc[t] = "powerWait", ForgetWaiter("powerOn", t), Returns(t), inFlight'["open"] = inFlight["open"],
             inFlight["powerOn"] = 0, inFlight'["powerOn"] = inFlight["powerOn"], UNCHANGED future, ~crashed'
      PROVE  Protocol'
  <2>1. pc'[t] = "idle" /\ \A u \in Thread : u # t => pc'[u] = pc[u]
    BY <1>4 DEF Returns, Basics, TypeOK
  <2>2. \A u \in Thread : u # t => pc[u] \notin {"powerSent", "powerWait"}
    BY <1>4 DEF Basics, MainPowers, Thread
  <2>3. promise'["powerOn"].waiter = "nobody" /\ promise'["open"] = promise["open"]
    BY <1>4 DEF Protocol, Waits, ForgetWaiter, Basics, TypeOK, Promise
  <2>4. \A u \in Thread : Sends(u, "open", "openSent")' /\ Waits(u, "open", "openWait")'
    BY <1>4, <2>1, <2>3 DEF Protocol, Sends, Waits
  <2>5. \A u \in Thread : Sends(u, "powerOn", "powerSent")' /\ Waits(u, "powerOn", "powerWait")'
    BY <2>1, <2>2 DEF Sends, Waits
  <2>6. NobodyWaits("open", "openSent", "openWait")' /\ NobodyWaits("powerOn", "powerSent", "powerWait")'
    BY <1>4, <2>1, <2>3 DEF Protocol, NobodyWaits
  <2>7. ~(Inside("main") /\ Inside("card"))'
    BY <1>4, <2>1 DEF Protocol, Inside, Thread
  <2> QED BY <1>4, <2>4, <2>5, <2>6, <2>7 DEF Protocol
<1>5. CASE WaitTimesOut(t, "open", "openWait")
  <2>1. pc[t] = "openWait" /\ future[t] = "unset" /\ inFlight["open"] = 1
    BY <1>5 DEF WaitTimesOut, Protocol, Waits
  <2>2. "late" \in cause'
    BY <1>5, <2>1 DEF WaitTimesOut
  <2> QED BY <2>2 DEF Untroubled
<1>6. CASE WaitTimesOut(t, "powerOn", "powerWait")
  <2>1. pc[t] = "powerWait" /\ future[t] = "unset" /\ inFlight["powerOn"] = 1
    BY <1>6 DEF WaitTimesOut, Protocol, Waits
  <2>2. "late" \in cause'
    BY <1>6, <2>1 DEF WaitTimesOut
  <2> QED BY <2>2 DEF Untroubled
<1>7. CASE OpenReady(t)
  <2>1. /\ pc[t] = "openWait" /\ future[t] # "unset" /\ ForgetWaiter("open", t)
        /\ crashed' = (future[t] = "broken") /\ UNCHANGED future
    BY <1>7 DEF OpenReady
  <2>2. ~crashed' /\ inFlight["open"] = 0
    BY <2>1 DEF Protocol, Waits
  <2>3. CASE Returns(t) /\ inFlight'["open"] = inFlight["open"] /\ inFlight'["powerOn"] = inFlight["powerOn"]
    BY <1>3, <2>1, <2>2, <2>3
  <2>4. CASE goal[t] = "powerOn" /\ Sent("powerOn") /\ pc' = [pc EXCEPT ![t] = "powerSent"]
    <3>1. t = "main"
      BY <2>4 DEF Basics, MainPowers, Thread
    <3>2. MainAsks /\ future' = future
      BY <2>1, <3>1 DEF MainAsks
    <3>3. pc' = [pc EXCEPT !["main"] = "powerSent"]
      BY <2>4, <3>1
    <3> QED BY <2>2, <2>4, <3>2, <3>3, PowerAsked
  <2>5. \/ Returns(t) /\ (inFlight' = inFlight \/ Request("atrReset") \/ Request("atrInserted"))
        \/ goal[t] = "powerOn" /\ Sent("powerOn") /\ pc' = [pc EXCEPT ![t] = "powerSent"]
    BY <1>7 DEF OpenReady
  <2> QED BY <2>3, <2>4, <2>5, RequestedOne DEF Basics, TypeOK, Kind
<1>8. CASE PowerReady(t)
  <2>1. /\ pc[t] = "powerWait" /\ future[t] # "unset" /\ ForgetWaiter("powerOn", t) /\ Returns(t)
        /\ (inFlight' = inFlight \/ Request("atrReset")) /\ UNCHANGED <<future, crashed>>
    BY <1>8 DEF PowerReady
  <2>2. inFlight["powerOn"] = 0 /\ ~crashed'
    BY <2>1 DEF Protocol, Waits
  <2>3. inFlight'["open"] = inFlight["open"] /\ inFlight'["powerOn"] = inFlight["powerOn"]
    BY <2>1, RequestedOne DEF Basics, TypeOK, Kind
  <2> QED BY <1>4, <2>1, <2>2, <2>3
<1> QED BY <1>1, <1>2, <1>5, <1>6, <1>7, <1>8 DEF Waiting

Places(p, sent, wait) ==
    \/ p = "open" /\ sent = "openSent" /\ wait = "openWait"
    \/ p = "powerOn" /\ sent = "powerSent" /\ wait = "powerWait"

AnswersWait(t, p, sent, wait, v) ==
    /\ pc[t] = wait /\ future[t] = "unset"
    /\ promise' = [promise EXCEPT ![p].val = v] /\ promise[p].waiter = t
    /\ future' = [future EXCEPT ![t] = v] /\ crashed' = crashed
    /\ inFlight[p] = 1 /\ inFlight'[p] = 0 /\ \A j \in Kind : j # p => inFlight'[j] = inFlight[j]
    /\ \A u \in Thread : u # t => pc[u] \notin {sent, wait}

LEMMA PromiseSet ==
  ASSUME Basics, Protocol, NEW p \in Promise, NEW sent, NEW wait, NEW v \in {"ok", "failed"},
         Places(p, sent, wait), PromiseCallback(p, sent, v), Untroubled'
  PROVE  \E t \in Thread : AnswersWait(t, p, sent, wait, v)
<1>1. \A u \in Thread : pc[u] # sent
  BY DEF PromiseCallback, InTime, Untroubled
<1>2. PICK t \in Thread : pc[t] = wait
  BY <1>1 DEF PromiseCallback, Protocol, NobodyWaits, Places
<1>3. \A u \in Thread : u # t => pc[u] \notin {sent, wait}
  BY <1>1, <1>2 DEF Protocol, Inside, Basics, MainPowers, Thread, Places
<1>4. inFlight[p] > 0 /\ Answered(p) /\ p \in Kind
  BY DEF PromiseCallback, Promise, Kind
<1>5. /\ promise[p].waiter = t /\ promise[p].val = future[t]
      /\ inFlight[p] = IF future[t] = "unset" THEN 1 ELSE 0
  BY <1>2 DEF Protocol, Waits, Places
<1>6. future[t] = "unset" /\ promise[p].val = "unset" /\ inFlight[p] = 1
  BY <1>4, <1>5
<1>7. promise' = [promise EXCEPT ![p].val = v] /\ future' = [future EXCEPT ![t] = v] /\ crashed' = crashed
  BY <1>5, <1>6 DEF PromiseCallback, SetPromise
<1>8. inFlight'[p] = 0 /\ \A j \in Kind : j # p => inFlight'[j] = inFlight[j]
  BY <1>4, <1>6, AnsweredOne DEF Basics, TypeOK
<1> QED BY <1>2, <1>3, <1>5, <1>6, <1>7, <1>8 DEF AnswersWait

LEMMA CallbackProtocol == Basics /\ Protocol /\ Callback /\ Untroubled' => Protocol'
<1> SUFFICES ASSUME Basics, Protocol, Callback, Untroubled' PROVE Protocol'
  OBVIOUS
<1>1. ASSUME NEW v \in {"ok", "failed"}, PromiseCallback("open", "openSent", v) PROVE Protocol'
  <2>0. "open" \in Promise /\ Places("open", "openSent", "openWait")
    BY DEF Promise, Places
  <2>1. PICK t \in Thread : AnswersWait(t, "open", "openSent", "openWait", v)
    BY <1>1, <2>0, PromiseSet
  <2>2. pc' = pc /\ inFlight'["powerOn"] = inFlight["powerOn"]
    BY <1>1, <2>1 DEF AnswersWait, PromiseCallback, Kind
  <2>3. /\ promise'["open"].val = v /\ promise'["open"].waiter = t /\ promise'["powerOn"] = promise["powerOn"]
        /\ future'[t] = v /\ \A u \in Thread : u # t => future'[u] = future[u]
    BY <2>1 DEF AnswersWait, Basics, TypeOK, Promise
  <2>4. \A u \in Thread : Sends(u, "open", "openSent")' /\ Waits(u, "open", "openWait")'
    BY <2>1, <2>2, <2>3 DEF AnswersWait, Sends, Waits
  <2>5. \A u \in Thread : Sends(u, "powerOn", "powerSent")' /\ Waits(u, "powerOn", "powerWait")'
    BY <2>1, <2>2, <2>3 DEF AnswersWait, Protocol, Sends, Waits
  <2>6. NobodyWaits("open", "openSent", "openWait")' /\ NobodyWaits("powerOn", "powerSent", "powerWait")'
    BY <2>1, <2>2, <2>3 DEF AnswersWait, Protocol, NobodyWaits
  <2> QED BY <2>1, <2>2, <2>4, <2>5, <2>6 DEF AnswersWait, Protocol, Inside
<1>2. ASSUME NEW v \in {"ok", "failed"}, PromiseCallback("powerOn", "powerSent", v) PROVE Protocol'
  <2>0. "powerOn" \in Promise /\ Places("powerOn", "powerSent", "powerWait")
    BY DEF Promise, Places
  <2>1. PICK t \in Thread : AnswersWait(t, "powerOn", "powerSent", "powerWait", v)
    BY <1>2, <2>0, PromiseSet
  <2>2. pc' = pc /\ inFlight'["open"] = inFlight["open"]
    BY <1>2, <2>1 DEF AnswersWait, PromiseCallback, Kind
  <2>3. /\ promise'["powerOn"].val = v /\ promise'["powerOn"].waiter = t /\ promise'["open"] = promise["open"]
        /\ future'[t] = v /\ \A u \in Thread : u # t => future'[u] = future[u]
    BY <2>1 DEF AnswersWait, Basics, TypeOK, Promise
  <2>4. \A u \in Thread : Sends(u, "open", "openSent")' /\ Waits(u, "open", "openWait")'
    BY <2>1, <2>2, <2>3 DEF AnswersWait, Protocol, Sends, Waits
  <2>5. \A u \in Thread : Sends(u, "powerOn", "powerSent")' /\ Waits(u, "powerOn", "powerWait")'
    BY <2>1, <2>2, <2>3 DEF AnswersWait, Sends, Waits
  <2>6. NobodyWaits("open", "openSent", "openWait")' /\ NobodyWaits("powerOn", "powerSent", "powerWait")'
    BY <2>1, <2>2, <2>3 DEF AnswersWait, Protocol, NobodyWaits
  <2> QED BY <2>1, <2>2, <2>4, <2>5, <2>6 DEF AnswersWait, Protocol, Inside
<1>3. ASSUME NEW k \in Kind, PlainCallback(k) PROVE Protocol'
  BY <1>3, ProtocolStays, AnsweredOne DEF PlainCallback, CallbackRest, threads, promiseVars, Basics, TypeOK, Kind
<1>4. CASE ResetCallback
  <2>1. inFlight'["open"] = inFlight["open"] /\ inFlight'["powerOn"] = inFlight["powerOn"]
    BY <1>4 DEF ResetCallback, Answered, Basics, TypeOK, Kind
  <2> QED BY <1>4, <2>1, ProtocolStays DEF ResetCallback, CallbackRest, threads, promiseVars
<1>5. ASSUME NEW a \in Apdu, ApduCallback(a) PROVE Protocol'
  BY <1>5, ProtocolStays DEF ApduCallback, threads, promiseVars
<1> QED BY <1>1, <1>2, <1>3, <1>4, <1>5 DEF Callback

-----------------------------------------------------------------------------
(* The flag and the modem, when nothing came in between. *)

LEMMA ExactStays ==
  ASSUME Exact, UNCHANGED <<cardIn, cardConnected_, notices, sapOpen>>,
         inFlight'["close"] = inFlight["close"],
         \A t \in Thread : Opened(t)' = Opened(t)
  PROVE  Exact'
  BY DEF Exact

LEMMA HandlerExact == Basics /\ Exact /\ Handler /\ cause' = {} => Exact'
<1> SUFFICES ASSUME Basics, Exact, Handler, cause' = {} PROVE Exact'
  OBVIOUS
<1>1. UNCHANGED <<cardIn, cardConnected_, notices, sapOpen, future>> /\ pc["main"] = "idle"
  BY DEF Handler, ConnectToCard, DisconnectFromCard, PowerUpCard, PowerDownOrReset, SendApduToSim, Reads, Rest
<1>2. \E l \in {"idle", "openSent", "powerSent"} : pc' = [pc EXCEPT !["main"] = l]
  <2>1. ASSUME pc' = pc PROVE pc' = [pc EXCEPT !["main"] = "idle"]
    BY <1>1, <2>1 DEF Basics, TypeOK, Thread
  <2>2. ASSUME NEW g, NEW present, OpenSapConn("main", g, present)
        PROVE  pc' = [pc EXCEPT !["main"] = "idle"] \/ pc' = [pc EXCEPT !["main"] = "openSent"]
    BY <2>2 DEF OpenSapConn, Returns
  <2> QED BY <2>1, <2>2 DEF Handler, ConnectToCard, DisconnectFromCard, PowerUpCard, PowerDownOrReset, SendApduToSim
<1>3. \A t \in Thread : Opened(t)' = Opened(t)
  BY <1>1, <1>2 DEF Opened, Basics, TypeOK
<1>4. inFlight'["close"] = inFlight["close"]
  <2>1. ASSUME NEW k \in Kind, k # "close", Sent(k) \/ Request(k) PROVE inFlight'["close"] = inFlight["close"]
    BY <2>1 DEF Sent, Request, Basics, TypeOK, Kind
  <2>2. CASE DisconnectFromCard
    BY <2>2 DEF DisconnectFromCard
  <2>3. CASE ConnectToCard
    BY <2>1, <2>3 DEF ConnectToCard, OpenSapConn, Kind
  <2>4. CASE PowerUpCard
    BY <2>1, <2>4 DEF PowerUpCard, OpenSapConn, Kind
  <2>5. ASSUME NEW k \in Kind, PowerDownOrReset(k) PROVE inFlight'["close"] = inFlight["close"]
    BY <2>1, <2>5 DEF PowerDownOrReset
  <2> QED BY <2>2, <2>3, <2>4, <2>5 DEF Handler, SendApduToSim
<1> QED BY <1>1, <1>3, <1>4, ExactStays

LEMMA ListenerExact == Basics /\ Exact /\ OnCardInfoChanged /\ cause' = {} => Exact'
<1> SUFFICES ASSUME Basics, Exact, OnCardInfoChanged, cause' = {} PROVE Exact'
  OBVIOUS
<1>1. pc["card"] = "idle" /\ UNCHANGED <<cardIn, sapOpen, future>>
  BY DEF OnCardInfoChanged
<1>2. CASE ~cardIn
  <2>1. ~cardConnected_' /\ UNCHANGED <<inFlight, pc>>
    BY <1>2 DEF OnCardInfoChanged, Absent
  <2>2. ~sapOpen
    BY <1>2 DEF Exact
  <2> QED BY <1>1, <2>1, <2>2 DEF Exact, Opened
<1>3. CASE cardIn
  <2>1. cardConnected_' = cardConnected_ /\ inFlight'["close"] = inFlight["close"]
    BY <1>3 DEF OnCardInfoChanged, OpenSapConn, Sent, Request, Basics, TypeOK, Kind
  <2>2. \E l \in {"idle", "openSent"} : pc' = [pc EXCEPT !["card"] = l]
    <3>1. ASSUME pc' = pc PROVE pc' = [pc EXCEPT !["card"] = "idle"]
      BY <1>1, <3>1 DEF Basics, TypeOK, Thread
    <3> QED BY <1>3, <3>1 DEF OnCardInfoChanged, OpenSapConn, Returns
  <2>3. \A t \in Thread : Opened(t)' = Opened(t)
    BY <1>1, <2>2 DEF Opened, Basics, TypeOK
  <2> QED BY <1>1, <1>3, <2>1, <2>3 DEF Exact
<1> QED BY <1>2, <1>3

LEMMA WaitingExact ==
  ASSUME NEW t \in Thread, Basics, Protocol, Exact, Waiting(t), cause' = {} PROVE Exact'
<1>1. ASSUME ReplacePromise(t, "open", "openSent", "openWait") PROVE Exact'
  <2>1. pc[t] = "openSent" /\ pc' = [pc EXCEPT ![t] = "openWait"]
    BY <1>1 DEF ReplacePromise
  <2>2. promise["open"].waiter = "nobody"
    BY <2>1 DEF Protocol, NobodyWaits, Inside, Thread
  <2>3. future' = [future EXCEPT ![t] = "unset"]
    BY <1>1, <2>2 DEF ReplacePromise, BrokenBy, Thread
  <2>4. \A u \in Thread : Opened(u)' = Opened(u)
    BY <2>1, <2>3 DEF Opened, Basics, TypeOK
  <2> QED BY <1>1, <2>4, ExactStays DEF ReplacePromise, flags, modem
<1>2. ASSUME ReplacePromise(t, "powerOn", "powerSent", "powerWait") PROVE Exact'
  <2>1. pc[t] = "powerSent" /\ pc' = [pc EXCEPT ![t] = "powerWait"]
    BY <1>2 DEF ReplacePromise
  <2>2. promise["powerOn"].waiter = "nobody"
    BY <2>1 DEF Protocol, NobodyWaits, Basics, MainPowers, Thread
  <2>3. future' = [future EXCEPT ![t] = "unset"]
    BY <1>2, <2>2 DEF ReplacePromise, BrokenBy, Thread
  <2>4. \A u \in Thread : Opened(u)' = Opened(u)
    BY <2>1, <2>3 DEF Opened, Basics, TypeOK
  <2> QED BY <1>2, <2>4, ExactStays DEF ReplacePromise, flags, modem
<1>3. ASSUME NEW p, NEW wait, WaitTimesOut(t, p, wait) PROVE Exact'
  <2>1. future[t] = "unset" /\ future' = future /\ pc' = [pc EXCEPT ![t] = "idle"]
    BY <1>3 DEF WaitTimesOut, Returns
  <2>2. \A u \in Thread : Opened(u)' = Opened(u)
    BY <2>1 DEF Opened, Basics, TypeOK
  <2> QED BY <1>3, <2>2, ExactStays DEF WaitTimesOut, flags, modem
<1>4. CASE OpenReady(t)
  <2>1. /\ UNCHANGED <<cardIn, sapOpen, notices, future>> /\ inFlight'["close"] = inFlight["close"]
        /\ \E l \in {"idle", "powerSent"} : pc' = [pc EXCEPT ![t] = l]
    BY <1>4 DEF OpenReady, Returns, Sent, Request, Basics, TypeOK, Kind
  <2>2. \A u \in Thread : u # t => Opened(u)' = Opened(u)
    BY <2>1 DEF Opened, Basics, TypeOK
  <2>3. ~Opened(t)'
    BY <2>1 DEF Opened, Basics, TypeOK
  <2>4. CASE future[t] = "ok"
    <3>1. cardConnected_' /\ sapOpen
      BY <1>4, <2>4 DEF OpenReady, ConnectedAfterOpen, Exact, Opened
    <3> QED BY <2>1, <2>2, <2>3, <3>1 DEF Exact
  <2>5. CASE future[t] # "ok"
    <3>1. cardConnected_' = cardConnected_ /\ ~Opened(t)
      BY <1>4, <2>5 DEF OpenReady, Opened
    <3> QED BY <2>1, <2>2, <2>3, <3>1 DEF Exact
  <2> QED BY <2>4, <2>5
<1>5. CASE PowerReady(t)
  <2>1. /\ inFlight'["close"] = inFlight["close"] /\ future' = future
        /\ pc[t] = "powerWait" /\ pc' = [pc EXCEPT ![t] = "idle"]
    BY <1>5 DEF PowerReady, Returns, Sent, Request, Basics, TypeOK, Kind
  <2>2. \A u \in Thread : Opened(u)' = Opened(u)
    BY <2>1 DEF Opened, Basics, TypeOK
  <2> QED BY <1>5, <2>1, <2>2, ExactStays DEF PowerReady, flags
<1> QED BY <1>1, <1>2, <1>3, <1>4, <1>5 DEF Waiting

LEMMA CallbackExact == Basics /\ Protocol /\ Exact /\ Callback /\ cause' = {} => Exact'
<1> SUFFICES ASSUME Basics, Protocol, Exact, Callback, cause' = {} PROVE Exact'
  OBVIOUS
<1>0. Untroubled'
  BY DEF Untroubled
<1>1. ASSUME NEW v \in {"ok", "failed"}, PromiseCallback("open", "openSent", v) PROVE Exact'
  <2>0. "open" \in Promise /\ Places("open", "openSent", "openWait")
    BY DEF Promise, Places
  <2>1. PICK t \in Thread : AnswersWait(t, "open", "openSent", "openWait", v)
    BY <1>0, <1>1, <2>0, PromiseSet
  <2>2. /\ pc' = pc /\ inFlight'["close"] = inFlight["close"] /\ UNCHANGED <<cardIn, cardConnected_, notices>>
        /\ sapOpen' = (sapOpen \/ v = "ok") /\ (v = "ok" => cardIn)
    BY <1>1, <2>1 DEF PromiseCallback, AnswersWait, Kind, flags
  <2>3. pc[t] = "openWait" /\ future'[t] = v /\ \A u \in Thread : u # t => future'[u] = future[u]
    BY <2>1 DEF AnswersWait, Basics, TypeOK
  <2>4. ~Opened(t) /\ Opened(t)' = (v = "ok") /\ \A u \in Thread : u # t => Opened(u)' = Opened(u)
    BY <2>1, <2>2, <2>3 DEF AnswersWait, Opened
  <2> QED BY <2>2, <2>4 DEF Exact, Basics, TypeOK
<1>2. ASSUME NEW v \in {"ok", "failed"}, PromiseCallback("powerOn", "powerSent", v) PROVE Exact'
  <2>0. "powerOn" \in Promise /\ Places("powerOn", "powerSent", "powerWait")
    BY DEF Promise, Places
  <2>1. PICK t \in Thread : AnswersWait(t, "powerOn", "powerSent", "powerWait", v)
    BY <1>0, <1>2, <2>0, PromiseSet
  <2>2. pc' = pc /\ inFlight'["close"] = inFlight["close"] /\ UNCHANGED <<cardIn, cardConnected_, notices, sapOpen>>
    BY <1>2, <2>1 DEF PromiseCallback, AnswersWait, Kind, flags, Basics, TypeOK
  <2>3. \A u \in Thread : Opened(u)' = Opened(u)
    BY <2>1, <2>2 DEF AnswersWait, Opened, Basics, TypeOK
  <2> QED BY <2>2, <2>3, ExactStays
<1>3. ASSUME NEW k \in Kind, PlainCallback(k) PROVE Exact'
  <2>1. k # "close"
    BY <1>3 DEF PlainCallback, Exact
  <2>2. inFlight'["close"] = inFlight["close"] /\ sapOpen' = sapOpen
    BY <1>3, <2>1, AnsweredOne DEF PlainCallback, Basics, TypeOK, Kind
  <2> QED BY <1>3, <2>2, ExactStays DEF PlainCallback, CallbackRest, threads, flags, Opened
<1>4. CASE ResetCallback
  <2>1. inFlight'["close"] = inFlight["close"]
    BY <1>4 DEF ResetCallback, Answered, Basics, TypeOK, Kind
  <2> QED BY <1>4, <2>1, ExactStays DEF ResetCallback, CallbackRest, threads, flags, Opened
<1>5. ASSUME NEW a \in Apdu, ApduCallback(a) PROVE Exact'
  BY <1>5, ExactStays DEF ApduCallback, threads, flags, Opened
<1> QED BY <1>1, <1>2, <1>3, <1>4, <1>5 DEF Callback

LEMMA EnvironmentExact ==
  ASSUME Basics, Exact, (\E in \in BOOLEAN : CardChanges(in)) \/ DaemonComesOrGoes, cause' = {} PROVE Exact'
<1>1. ASSUME NEW in \in BOOLEAN, CardChanges(in) PROVE Exact'
  <2>1. UNCHANGED <<cardConnected_, pc, future, inFlight>> /\ cardIn' = in /\ sapOpen' = (sapOpen /\ in) /\ notices' = notices + 1
    BY <1>1 DEF CardChanges, flags, threads
  <2>2. \A t \in Thread : Opened(t)' = Opened(t)
    BY <2>1 DEF Opened
  <2>3. notices \in Nat
    BY CardAssumption DEF Basics, TypeOK
  <2>4. CASE in = cardIn
    <3>1. sapOpen' = sapOpen /\ cardIn' = cardIn
      BY <2>1, <2>4 DEF Exact, Basics, TypeOK
    <3>2. notices > 0 => notices' > 0
      BY <2>1, <2>3
    <3> QED BY <2>1, <2>2, <3>1, <3>2 DEF Exact
  <2>5. CASE in # cardIn
    <3>1. notices = 0 /\ \A t \in Thread : ~Inside(t)
      BY <1>1, <2>3, <2>5 DEF CardChanges
    <3>2. \A t \in Thread : ~Opened(t)
      BY <3>1 DEF Inside, Opened
    <3> QED BY <2>1, <2>2, <2>3, <2>5, <3>1, <3>2 DEF Exact, Basics, TypeOK
  <2> QED BY <2>4, <2>5
<1>2. CASE DaemonComesOrGoes
  BY <1>2, ExactStays DEF DaemonComesOrGoes, flags, threads, modem, Opened
<1> QED BY <1>1, <1>2

-----------------------------------------------------------------------------
(* The theorems. *)

LEMMA CauseGrows == Basics /\ Next => cause \subseteq cause'
<1> SUFFICES ASSUME Basics, Next PROVE cause \subseteq cause'
  OBVIOUS
<1>1. CASE Handler \/ OnCardInfoChanged
  BY <1>1 DEF Handler, ConnectToCard, DisconnectFromCard, PowerUpCard, PowerDownOrReset, SendApduToSim, OnCardInfoChanged, OpenSapConn
<1>2. CASE Callback
  BY <1>2 DEF Callback, PromiseCallback, PlainCallback, ResetCallback, ApduCallback, CallbackRest
<1>3. ASSUME NEW t \in Thread, Waiting(t) PROVE cause \subseteq cause'
  BY <1>3 DEF Waiting, ReplacePromise, WaitTimesOut, OpenReady, PowerReady
<1>4. CASE (\E in \in BOOLEAN : CardChanges(in)) \/ DaemonComesOrGoes
  BY <1>4 DEF CardChanges, DaemonComesOrGoes
<1> QED BY <1>1, <1>2, <1>3, <1>4 DEF Next

LEMMA NextKeeps == IInv /\ [Next]_vars => IInv'
<1> SUFFICES ASSUME IInv, [Next]_vars PROVE IInv'
  OBVIOUS
<1>1. CASE Next
  <2>1. Basics'
    BY <1>1, HandlerBasics, ListenerBasics, CallbackBasics, WaitingBasics, EnvironmentBasics DEF IInv, Next
  <2>2. cause \subseteq cause'
    BY <1>1, CauseGrows DEF IInv
  <2>3. ASSUME Untroubled' PROVE Protocol'
    <3>1. Basics /\ Protocol
      BY <2>2, <2>3 DEF IInv, Untroubled
    <3> QED BY <1>1, <2>3, <3>1, HandlerProtocol, ListenerProtocol, CallbackProtocol, WaitingProtocol, EnvironmentProtocol DEF Next
  <2>4. ASSUME cause' = {} PROVE Exact'
    <3>1. Basics /\ Protocol /\ Exact
      BY <2>2, <2>4 DEF IInv, Untroubled
    <3> QED BY <1>1, <2>4, <3>1, HandlerExact, ListenerExact, CallbackExact, WaitingExact, EnvironmentExact DEF Next
  <2> QED BY <2>1, <2>3, <2>4 DEF IInv
<1>2. CASE UNCHANGED vars
  <2>1. Basics'
    BY <1>2 DEF IInv, Basics, TypeOK, MainPowers, ApduMapDrains, vars, flags, threads, modem
  <2>2. Protocol => Protocol'
    BY <1>2, ProtocolStays DEF vars, threads, modem, promiseVars
  <2>3. Exact => Exact'
    BY <1>2, ExactStays DEF vars, flags, threads, modem, Opened
  <2> QED BY <1>2, <2>1, <2>2, <2>3 DEF IInv, Untroubled, vars
<1> QED BY <1>1, <1>2

LEMMA CardInductive == Spec => []IInv
  BY InitHolds, NextKeeps, PTL DEF Spec

\* A promise is set twice or broken (CardControl.cpp:425) only after an answer
\* came outside its wait or two threads were in openSapConn(), for any bounds.
THEOREM CardCrashExplained == Spec => []CrashExplained
<1>1. IInv => CrashExplained
  BY DEF IInv, CrashExplained, Untroubled, Protocol
<1> QED BY <1>1, CardInductive, PTL

\* cardConnected_ agrees with the modem once nothing is under way, but for the
\* causes named, and the map of callbacks holds the APDUs in flight and those
\* whose transmission failed (CardControl.cpp).
THEOREM CardBooksAgree == Spec => []BooksAgree
<1>1. IInv => BooksAgree
  <2> SUFFICES ASSUME IInv PROVE BooksAgree
    OBVIOUS
  <2>1. ASSUME Quiet, cause = {} PROVE cardConnected_ = sapOpen
    <3>1. notices = 0 /\ \A t \in Thread : ~Opened(t)
      BY <2>1 DEF Quiet, Opened
    <3>2. Exact
      BY <2>1 DEF IInv
    <3>3. cardConnected_ \in BOOLEAN /\ sapOpen \in BOOLEAN
      BY DEF IInv, Basics, TypeOK
    <3> QED BY <3>1, <3>2, <3>3 DEF Exact
  <2> QED BY <2>1 DEF IInv, Basics, BooksAgree, ConnectedExact
<1> QED BY <1>1, CardInductive, PTL

-----------------------------------------------------------------------------
(* The daemon and its modem: RemoteSimDaemon.                              *)

\* A thread, or initDaemon(), is about to note event e.
Setting(e) ==
    \/ \E t \in DaemonThread : daemonPc[t] = <<"set", e>>
    \/ e = "available" /\ phase = "sent"

\* The listener has yet to act on a restart.
Pending ==
    \/ \E i \in 1 .. Len(modemNotices) : modemNotices[i] = "unavailable"
    \/ daemonPc["listener"] = <<"check", "unavailable">>

\* One thread is in a notify function, and what it tested still holds.
Alone == ~(InNotify("main") /\ InNotify("listener"))
Testing ==
    /\ \A t \in DaemonThread, e \in Event :
         daemonPc[t] \in {<<"send", e>>, <<"set", e>>} => Needed(e)
    /\ phase = "sent" => ~modemConnected_

\* The modem is ahead of the books while an event has to be noted, and behind
\* them from a restart to the end of what the listener does about it.
Ahead == modemHas /\ ~modemConnected_ => Setting("available")
Gone == Setting("unavailable") => ~modemHas
Behind ==
    ~modemHas /\ (modemConnected_ \/ Setting("available")) /\ ~Setting("unavailable")
      => eventsSent = << >> /\ (Pending \/ daemonPc["listener"] = <<"send", "unavailable">>)

\* The modem believes the last event it took, and that event was news.
LastEvent ==
    eventsSent # << >> =>
      /\ eventsSent \in Event \X (Event \cup {"none"})
      /\ eventsSent[1] # eventsSent[2] /\ modemHas = (eventsSent[1] = "available")

Told == Alone /\ Testing /\ Ahead /\ Gone /\ Behind /\ LastEvent

\* The main thread is in no notify function before the loop, and until the modem
\* restarts its listener has nothing to do.
MainStarts == phase \notin {"loop", "exit"} => daemonPc["main"] = Idle
ListenerQuiet ==
    ssrs = 0 => serviceUp /\ modemNotices = << >> /\ daemonPc["listener"] = Idle
Starting == ssrs = 0 /\ phase \in {"ready", "found", "sent"} => clientConnected_

\* The books at each step of the main loop: an event under way is the one the
\* client's state calls for.
BooksByStep ==
    ssrs = 0 /\ phase = "loop" =>
      /\ daemonPc["main"] = Idle => modemConnected_ = clientConnected_
      /\ \A e \in Event :
           daemonPc["main"] \in Step \X {e} => Needed(e) /\ clientConnected_ = (e = "available")

DaemonQuiet == MainStarts /\ ListenerQuiet /\ Starting /\ BooksByStep
DaemonIInv ==
    /\ DaemonTypeOK
    /\ DaemonQuiet
    /\ phase # "exit" /\ daemonCause = {} => Told

-----------------------------------------------------------------------------
(* Facts about the operators.                                              *)

\* What an event that is sent leaves in the history keeps its type.
LEMMA SendKeepsType ==
    ASSUME DaemonTypeOK, NEW e \in Event, NEW seen \in SUBSET Accident, SendEvent(e, seen)
    PROVE  /\ modemHas' \in BOOLEAN /\ eventsSent' \in Seq(Event \cup {"none"})
           /\ daemonCause' \in SUBSET Accident
<1>1. CASE EventLost(e, seen)
  BY <1>1 DEF EventLost, DaemonTypeOK, Accident
<1>2. CASE EventTaken(e, seen)
  <2> DEFINE last == IF eventsSent = << >> THEN "none" ELSE eventsSent[1]
  <2>1. last \in Event \cup {"none"}
    BY DEF DaemonTypeOK
  <2>2. eventsSent' = <<e, last>> /\ modemHas' = (e = "available") /\ daemonCause' = seen
    BY <1>2 DEF EventTaken
  <2> QED
    BY <2>1, <2>2
<1> QED
  BY <1>1, <1>2 DEF SendEvent

\* An event that leaves no accident behind tells the modem, or tells it what it
\* knows already.
LEMMA SendTells ==
    ASSUME DaemonTypeOK, NEW e \in Event, NEW seen, SendEvent(e, seen), daemonCause' = {}
    PROVE  /\ seen = {} /\ modemHas' = (e = "available")
           /\ \/ eventsSent' = <<e, IF eventsSent = << >> THEN "none" ELSE eventsSent[1]>>
              \/ eventsSent' = eventsSent /\ modemHas' = modemHas
<1>1. CASE EventTaken(e, seen)
  BY <1>1 DEF EventTaken
<1>2. CASE EventLost(e, seen)
  <2>1. modemHas = (e = "available")
    BY <1>2 DEF EventLost
  <2> QED
    BY <1>2, <2>1 DEF EventLost
<1> QED
  BY <1>1, <1>2 DEF SendEvent

\* The step after a pass of the loop is one of the steps.
LEMMA AfterPassIsStep == AfterPass \in Pc
  BY DEF AfterPass, Pc, Step, Event, Idle

\* A thread about to do a step of a notify function is between test and note
\* exactly when that step is not the test.
LEMMA InNotifyIs ==
    ASSUME NEW t \in DaemonThread
    PROVE  /\ InNotify(t) <=> \/ \E e \in Event : daemonPc[t] \in {<<"send", e>>, <<"set", e>>}
                              \/ t = "main" /\ phase = "sent"
           /\ InNotify(t)' <=> \/ \E e \in Event : daemonPc[t]' \in {<<"send", e>>, <<"set", e>>}
                               \/ t = "main" /\ phase' = "sent"
  BY DEF InNotify

-----------------------------------------------------------------------------
(* The type invariant is inductive by itself.                              *)

LEMMA TypeStep == DaemonTypeOK /\ [DaemonNext]_daemonVars => DaemonTypeOK'
<1> SUFFICES ASSUME DaemonTypeOK, [DaemonNext]_daemonVars PROVE DaemonTypeOK'
  OBVIOUS
<1> USE DaemonAssumption DEF DaemonAssumption
<1>1. CASE AcceptFirst \/ SubsystemReady \/ InitSet
  BY <1>1 DEF DaemonTypeOK, AcceptFirst, SubsystemReady, InitSet, Phase, modemVars
<1>2. CASE InitSend
  <2> PICK seen \in SUBSET Accident : SendEvent("available", seen)
    BY <1>2 DEF InitSend, DaemonTypeOK, Accident
  <2> QED
    BY <1>2, SendKeepsType DEF DaemonTypeOK, InitSend, modemVars, Event, Phase
<1>3. CASE InitFails
  <2>1. daemonCause' \in SUBSET Accident /\ modemHas' = modemHas /\ eventsSent' = eventsSent
    BY <1>3 DEF InitFails, EventLost, DaemonTypeOK, Accident
  <2> QED
    BY <1>3, <2>1 DEF DaemonTypeOK, InitFails, modemVars, Phase
<1>4. CASE HandleClientConnection
  <2>1. Comparing \in Pc
    BY DEF Pc
  <2>2. daemonPc' \in [DaemonThread -> Pc]
    BY <1>4, <2>1 DEF DaemonTypeOK, HandleClientConnection
  <2>3. drops' \in 0 .. MaxDrop
    BY <1>4 DEF DaemonTypeOK, HandleClientConnection
  <2>4. clientConnected_' \in BOOLEAN
    BY <1>4 DEF DaemonTypeOK, HandleClientConnection
  <2> QED
    BY <1>4, <2>2, <2>3, <2>4 DEF DaemonTypeOK, HandleClientConnection, modemVars
<1>5. CASE Compare
  BY <1>5, AfterPassIsStep DEF DaemonTypeOK, Compare, modemVars
<1>6. ASSUME NEW t \in DaemonThread, Notify(t) PROVE DaemonTypeOK'
  <2> PICK e \in Event : NotifyCheck(t, e) \/ NotifySend(t, e) \/ NotifySet(t, e)
    BY <1>6 DEF Notify
  <2>0. Idle \in Pc /\ <<"send", e>> \in Pc /\ <<"set", e>> \in Pc
    BY DEF Pc, Step
  <2>1. CASE NotifyCheck(t, e)
    <3>1. daemonCause' \in SUBSET Accident
      BY <2>1 DEF NotifyCheck, DaemonTypeOK, Accident
    <3>2. daemonPc' \in [DaemonThread -> Pc]
      BY <2>0, <2>1 DEF NotifyCheck, DaemonTypeOK
    <3> QED
      BY <2>1, <3>1, <3>2 DEF DaemonTypeOK, NotifyCheck, modemVars
  <2>2. CASE NotifySend(t, e)
    <3>1. SendEvent(e, daemonCause) /\ daemonCause \in SUBSET Accident
      BY <2>2 DEF NotifySend, DaemonTypeOK
    <3> QED
      BY <2>0, <2>2, <3>1, SendKeepsType DEF DaemonTypeOK, NotifySend, modemVars
  <2>3. CASE NotifySet(t, e)
    BY <2>0, <2>3 DEF DaemonTypeOK, NotifySet, Books, modemVars
  <2> QED
    BY <2>1, <2>2, <2>3
<1>7. CASE OnServiceStatusChange
  <2>1. modemNotices' \in Seq(Event)
    BY <1>7 DEF DaemonTypeOK, OnServiceStatusChange
  <2>2. daemonPc' \in [DaemonThread -> Pc]
    <3>1. AfterNotice \in Pc
      BY DEF AfterNotice, Pc, Step, Event
    <3> QED
      BY <1>7, <3>1 DEF DaemonTypeOK, OnServiceStatusChange
  <2> QED
    BY <1>7, <2>1, <2>2 DEF DaemonTypeOK, OnServiceStatusChange
<1>8. CASE Terminate
  <2>1. /\ modemHas' \in BOOLEAN /\ eventsSent' \in Seq(Event \cup {"none"})
        /\ modemConnected_' \in BOOLEAN /\ daemonCause' \in SUBSET Accident
    <3>1. CASE Needed("unavailable")
      <4>1. SendEvent("unavailable", daemonCause) /\ daemonCause \in SUBSET Accident
        BY <1>8, <3>1 DEF Terminate, Released, DaemonTypeOK
      <4> QED
        BY <1>8, <3>1, <4>1, SendKeepsType DEF Terminate, Released, Event
    <3>2. CASE ~Needed("unavailable")
      BY <1>8, <3>2 DEF Terminate, Released, DaemonTypeOK
    <3> QED
      BY <3>1, <3>2
  <2> QED
    BY <1>8, <2>1 DEF DaemonTypeOK, Terminate, Released, modemVars, Phase
<1>9. CASE ServiceDown
  <2>1. ssrs' \in 0 .. MaxSsr
    BY <1>9 DEF DaemonTypeOK, ServiceDown
  <2>2. modemNotices' \in Seq(Event) /\ eventsSent' \in Seq(Event \cup {"none"})
    BY <1>9 DEF DaemonTypeOK, ServiceDown, Event
  <2> QED
    BY <1>9, <2>1, <2>2 DEF DaemonTypeOK, ServiceDown
<1>10. CASE ServiceBack
  BY <1>10 DEF DaemonTypeOK, ServiceBack, Event
<1>11. CASE UNCHANGED daemonVars
  BY <1>11 DEF DaemonTypeOK, daemonVars, modemVars
<1> QED
  BY <1>1, <1>2, <1>3, <1>4, <1>5, <1>6, <1>7, <1>8, <1>9, <1>10, <1>11
  DEF DaemonNext, Main, Listener, DaemonThread

-----------------------------------------------------------------------------
(* Until the modem restarts, the main loop alone keeps the books.          *)

\* A restart of the modem is never taken back: after one, only the first phases
\* have to be looked at.
LEMMA RestartsGrow ==
    ASSUME DaemonTypeOK, [DaemonNext]_daemonVars, ssrs # 0
    PROVE  ssrs' # 0
<1> USE DEF DaemonTypeOK
<1>1. CASE ServiceDown
  BY <1>1 DEF ServiceDown
<1>2. CASE ~ServiceDown
  BY <1>2 DEF DaemonNext, AcceptFirst, SubsystemReady, InitSend, InitSet, InitFails, Main,
     Listener, HandleClientConnection, Compare, Notify, NotifyCheck, NotifySend, NotifySet,
     OnServiceStatusChange, Terminate, ServiceBack, daemonVars, modemVars
<1> QED
  BY <1>1, <1>2

\* The main thread enters a notify function in the loop only.
LEMMA MainStartsStays ==
    ASSUME DaemonTypeOK, MainStarts, [DaemonNext]_daemonVars
    PROVE  MainStarts'
<1> USE DEF MainStarts, DaemonTypeOK, DaemonThread, modemVars
<1>1. CASE AcceptFirst \/ SubsystemReady \/ InitSend \/ InitSet \/ InitFails
  BY <1>1 DEF AcceptFirst, SubsystemReady, InitSend, InitSet, InitFails
<1>2. CASE HandleClientConnection \/ Compare \/ Terminate
  BY <1>2 DEF HandleClientConnection, Compare, Terminate
<1>3. ASSUME NEW t \in DaemonThread, Notify(t) PROVE MainStarts'
  <2> PICK e \in Event : NotifyCheck(t, e) \/ NotifySend(t, e) \/ NotifySet(t, e)
    BY <1>3 DEF Notify
  <2>1. \E s \in Step : daemonPc[t] = <<s, e>>
    BY DEF NotifyCheck, NotifySend, NotifySet, Step
  <2>2. daemonPc[t] # Idle
    BY <2>1 DEF Step, Idle
  <2>3. phase' = phase /\ (t = "listener" => daemonPc'["main"] = daemonPc["main"])
    BY DEF NotifyCheck, NotifySend, NotifySet
  <2> QED
    BY <2>2, <2>3
<1>4. CASE OnServiceStatusChange \/ ServiceDown \/ ServiceBack \/ UNCHANGED daemonVars
  BY <1>4 DEF OnServiceStatusChange, ServiceDown, ServiceBack, daemonVars
<1> QED
  BY <1>1, <1>2, <1>3, <1>4 DEF DaemonNext, Main, Listener

LEMMA DaemonQuietStays ==
    ASSUME DaemonTypeOK, DaemonQuiet, [DaemonNext]_daemonVars
    PROVE  DaemonQuiet'
<1> USE DEF DaemonTypeOK, DaemonQuiet, ListenerQuiet, Starting, BooksByStep, modemVars
<1>0. MainStarts'
  BY MainStartsStays
<1>1. CASE ssrs # 0
  BY <1>0, <1>1, RestartsGrow
<1>2. CASE ssrs = 0
  <2> USE <1>2
  <2>0. serviceUp /\ modemNotices = << >> /\ daemonPc["listener"] = Idle
    OBVIOUS
  <2>1. CASE AcceptFirst \/ SubsystemReady \/ InitSend \/ InitFails
    BY <1>0, <2>1 DEF AcceptFirst, SubsystemReady, InitSend, InitFails
  <2>2. CASE InitSet
    <3>1. daemonPc'["main"] = Idle /\ modemConnected_' /\ clientConnected_'
      BY <2>2 DEF InitSet, MainStarts
    <3>2. \A e \in Event : daemonPc'["main"] \notin Step \X {e}
      BY <3>1 DEF Step, Idle
    <3> QED
      BY <1>0, <2>2, <3>1, <3>2 DEF InitSet
  <2>3. CASE HandleClientConnection
    <3>1. phase' = "loop" /\ daemonPc'["main"] = Comparing /\ daemonPc'["listener"] = daemonPc["listener"]
      BY <2>3 DEF HandleClientConnection, DaemonThread
    <3> QED
      BY <1>0, <2>3, <3>1 DEF HandleClientConnection, Event, Step, Idle, Comparing
  <2>4. CASE Compare
    <3>1. phase' = "loop" /\ daemonPc'["main"] = AfterPass /\ daemonPc'["listener"] = daemonPc["listener"]
      BY <2>4 DEF Compare, DaemonThread
    <3> QED
      BY <1>0, <2>4, <3>1 DEF Compare, AfterPass, Needed, Event, Step, Idle, Comparing
  <2>5. CASE Notify("main")
    <3> PICK e \in Event : NotifyCheck("main", e) \/ NotifySend("main", e) \/ NotifySet("main", e)
      BY <2>5 DEF Notify
    <3>0. PICK s \in Step : daemonPc["main"] = <<s, e>>
      BY DEF NotifyCheck, NotifySend, NotifySet, Step
    <3>1. daemonPc["main"] \in Step \X {e}
      BY <3>0
    <3>2. phase = "loop"
      <4>1. daemonPc["main"] # Idle
        BY <3>0 DEF Step, Idle
      <4>2. phase # "exit"
        BY DEF NotifyCheck, NotifySend, NotifySet
      <4> QED
        BY <4>1, <4>2 DEF MainStarts
    <3>3. Needed(e) /\ clientConnected_ = (e = "available")
      BY <3>1, <3>2
    <3>4. phase' = phase /\ clientConnected_' = clientConnected_ /\ ssrs' = ssrs
          /\ serviceUp' = serviceUp /\ modemNotices' = modemNotices
          /\ daemonPc'["listener"] = daemonPc["listener"]
      BY DEF NotifyCheck, NotifySend, NotifySet, DaemonThread
    <3>5. CASE NotifySet("main", e)
      <4>1. daemonPc'["main"] = Idle /\ modemConnected_' = (e = "available")
        BY <3>5 DEF NotifySet, Books, DaemonThread
      <4>2. \A f \in Event : daemonPc'["main"] \notin Step \X {f}
        BY <4>1 DEF Step, Idle
      <4> QED
        BY <1>0, <3>2, <3>3, <3>4, <4>1, <4>2
    <3>6. CASE NotifyCheck("main", e) \/ NotifySend("main", e)
      <4>1. \/ daemonPc'["main"] = <<"send", e>>
            \/ daemonPc'["main"] = <<"set", e>>
        BY <3>3, <3>6 DEF NotifyCheck, NotifySend, DaemonThread
      <4>2. daemonPc'["main"] # Idle /\ modemConnected_' = modemConnected_
        <5>1. daemonPc'["main"] # Idle
          BY <4>1 DEF Idle
        <5>2. modemConnected_' = modemConnected_
          BY <3>6 DEF NotifyCheck, NotifySend
        <5> QED
          BY <5>1, <5>2
      <4>3. \A f \in Event : daemonPc'["main"] \in Step \X {f} => f = e
        BY <4>1
      <4> QED
        BY <1>0, <3>2, <3>3, <3>4, <4>2, <4>3 DEF Needed
    <3> QED
      BY <3>5, <3>6
  <2>6. ~Listener
    BY <2>0 DEF Listener, OnServiceStatusChange, Notify, NotifyCheck, NotifySend, NotifySet, Idle
  <2>7. CASE Terminate
    BY <1>0, <2>7 DEF Terminate
  <2>8. CASE ServiceDown
    BY <1>0, <2>8 DEF ServiceDown
  <2>9. ~ServiceBack
    BY <2>0 DEF ServiceBack
  <2>10. CASE UNCHANGED daemonVars
    BY <1>0, <2>10 DEF daemonVars, Needed
  <2> QED
    BY <2>1, <2>2, <2>3, <2>4, <2>5, <2>6, <2>7, <2>8, <2>9, <2>10 DEF DaemonNext, Main
<1> QED
  BY <1>1, <1>2

-----------------------------------------------------------------------------
(* While nothing has gone wrong, the books, the modem and the events agree. *)

\* An accident is never taken back.
LEMMA AccidentsStay ==
    ASSUME DaemonTypeOK, [DaemonNext]_daemonVars, daemonCause' = {}
    PROVE  daemonCause = {}
<1>1. ASSUME NEW e \in Event, NEW seen, SendEvent(e, seen) PROVE seen = {}
  BY <1>1, SendTells
<1>2. CASE InitSend
  BY <1>1, <1>2 DEF InitSend, Event
<1>3. CASE InitFails
  BY <1>3 DEF InitFails, EventLost
<1>4. ASSUME NEW t \in DaemonThread, Notify(t) PROVE daemonCause = {}
  BY <1>1, <1>4 DEF Notify, NotifyCheck, NotifySend, NotifySet
<1>5. CASE Terminate
  BY <1>1, <1>5 DEF Terminate, Released, Event
<1> QED
  BY <1>2, <1>3, <1>4, <1>5 DEF DaemonNext, AcceptFirst, SubsystemReady, InitSet, Main, Listener,
     HandleClientConnection, Compare, OnServiceStatusChange, ServiceDown, ServiceBack,
     daemonVars, DaemonThread

\* Told speaks of these alone.
LEMMA ToldStays ==
    ASSUME Told, modemHas' = modemHas, modemConnected_' = modemConnected_,
           eventsSent' = eventsSent,
           \A t \in DaemonThread, e \in Event, s \in {"send", "set"} :
             daemonPc'[t] = <<s, e>> <=> daemonPc[t] = <<s, e>>,
           (phase' = "sent") <=> (phase = "sent"),
           Pending => Pending'
    PROVE  Told'
<1>1. \A e \in Event : Setting(e)' <=> Setting(e)
  BY DEF Setting
<1>2. Alone' /\ Testing'
  <2>1. \A t \in DaemonThread : InNotify(t)' <=> InNotify(t)
    BY InNotifyIs
  <2> QED
    BY <2>1 DEF Told, Alone, Testing, Needed, DaemonThread
<1>3. Ahead' /\ Gone'
  BY <1>1 DEF Told, Ahead, Gone, Event
<1>4. Behind'
  BY <1>1 DEF Told, Behind, Event, DaemonThread
<1> QED
  BY <1>2, <1>3, <1>4 DEF Told, LastEvent

\* initDaemon() announces the client while nobody is in a notify function.
LEMMA InitSendTold ==
    ASSUME DaemonTypeOK, MainStarts, Told, InitSend, daemonCause' = {}
    PROVE  Told'
<1> DEFINE seen == daemonCause \cup IF modemConnected_ \/ InNotify("listener")
                                      THEN {"untested"} ELSE {}
<1>1. SendEvent("available", seen) /\ phase = "found" /\ phase' = "sent" /\ daemonPc["main"] = Idle
      /\ UNCHANGED <<daemonPc, modemConnected_, modemNotices>>
  BY DEF InitSend, MainStarts, modemVars
<1>2. seen = {} /\ modemHas'
      /\ \/ eventsSent' = <<"available", IF eventsSent = << >> THEN "none" ELSE eventsSent[1]>>
         \/ eventsSent' = eventsSent /\ modemHas
  <2>1. "available" \in Event /\ SendEvent("available", seen)
    BY <1>1 DEF Event
  <2> HIDE DEF seen
  <2>2. /\ seen = {} /\ modemHas' = ("available" = "available")
        /\ \/ eventsSent' = <<"available", IF eventsSent = << >> THEN "none" ELSE eventsSent[1]>>
           \/ eventsSent' = eventsSent /\ modemHas' = modemHas
    BY <2>1, SendTells
  <2> QED
    BY <2>2 DEF DaemonTypeOK
<1>3. ~modemConnected_ /\ ~InNotify("listener")
  BY <1>2
<1>4. \A t \in DaemonThread, e \in Event : daemonPc[t] \notin {<<"send", e>>, <<"set", e>>}
  BY <1>1, <1>3, InNotifyIs DEF DaemonThread, Idle
<1>5. ~Setting("available") /\ ~Setting("unavailable")
  BY <1>1, <1>4 DEF Setting, Event
<1>6. Setting("available")' /\ ~Setting("unavailable")'
  BY <1>1, <1>4 DEF Setting, Event
<1>7. Alone' /\ Testing'
  BY <1>1, <1>3, <1>4, InNotifyIs DEF Alone, Testing, DaemonThread
<1>8. LastEvent'
  <2>1. ~modemHas
    BY <1>3, <1>5 DEF Told, Ahead
  <2>2. eventsSent = << >> \/ (eventsSent[1] # "available" /\ eventsSent[1] \in Event)
    BY <2>1 DEF Told, LastEvent
  <2>3. eventsSent' = <<"available", IF eventsSent = << >> THEN "none" ELSE eventsSent[1]>>
    BY <1>2, <2>1
  <2> DEFINE last == IF eventsSent = << >> THEN "none" ELSE eventsSent[1]
  <2>4. last \in Event \cup {"none"} /\ last # "available"
    BY <2>2 DEF Event
  <2>5. eventsSent' = <<"available", last>>
    BY <2>3
  <2> HIDE DEF last
  <2> QED
    BY <1>2, <2>4, <2>5 DEF LastEvent, Event
<1> QED
  BY <1>2, <1>6, <1>7, <1>8 DEF Told, Ahead, Gone, Behind

\* initDaemon() notes it, still alone.
LEMMA InitSetTold ==
    ASSUME DaemonTypeOK, MainStarts, Told, InitSet
    PROVE  Told'
<1>1. phase = "sent" /\ phase' = "loop" /\ modemConnected_' /\ daemonPc["main"] = Idle
      /\ UNCHANGED <<daemonPc, modemHas, eventsSent, modemNotices>>
  BY DEF InitSet, MainStarts, modemVars
<1>2. InNotify("main")
  BY <1>1 DEF InNotify
<1>3. \A t \in DaemonThread, e \in Event : daemonPc[t] \notin {<<"send", e>>, <<"set", e>>}
  BY <1>1, <1>2, InNotifyIs DEF DaemonThread, Idle, Told, Alone
<1>4. Setting("available") /\ ~Setting("unavailable")
  BY <1>1, <1>3 DEF Setting, Event
<1>5. ~Setting("available")' /\ ~Setting("unavailable")'
  BY <1>1, <1>3 DEF Setting, Event
<1>6. Alone' /\ Testing'
  BY <1>1, <1>3, InNotifyIs DEF Alone, Testing, DaemonThread
<1>7. Behind'
  BY <1>1, <1>4 DEF Told, Behind, Pending
<1> QED
  BY <1>1, <1>5, <1>6, <1>7 DEF Told, Ahead, Gone, LastEvent

\* Where a thread of a notify function is alone.
LEMMA NotifyPlace ==
    ASSUME DaemonTypeOK, MainStarts, NEW t \in DaemonThread, NEW e \in Event, NEW s \in Step,
           daemonPc[t] = <<s, e>>, phase # "exit", ~InNotify(OtherThread[t])
    PROVE  /\ phase # "sent"
           /\ \A u \in DaemonThread, f \in Event, r \in {"send", "set"} :
                daemonPc[u] = <<r, f>> => u = t /\ f = e /\ r = s
<1>1. phase # "sent"
  <2>1. CASE t = "main"
    BY <2>1 DEF MainStarts, Idle, Step
  <2>2. CASE t = "listener"
    BY <2>2 DEF InNotify, OtherThread
  <2> QED
    BY <2>1, <2>2 DEF DaemonThread
<1>2. ASSUME NEW u \in DaemonThread, NEW f \in Event, NEW r \in {"send", "set"},
             daemonPc[u] = <<r, f>>
      PROVE  u = t /\ f = e /\ r = s
  <2>1. InNotify(u)
    BY <1>2, InNotifyIs
  <2>2. u = t
    BY <2>1 DEF DaemonThread, OtherThread
  <2> QED
    BY <1>2, <2>2
<1> QED
  BY <1>1, <1>2

\* The test: it is passed by one thread at a time.
LEMMA CheckTold ==
    ASSUME DaemonTypeOK, MainStarts, Told, NEW t \in DaemonThread, NEW e \in Event,
           NotifyCheck(t, e), daemonCause' = {}
    PROVE  Told'
<1>1. ~InNotify(OtherThread[t]) /\ daemonPc[t] = <<"check", e>> /\ phase # "exit" /\ phase' = phase
      /\ UNCHANGED <<modemConnected_, modemHas, eventsSent, modemNotices>>
  BY DEF NotifyCheck, modemVars
<1>2. phase # "sent" /\ \A u \in DaemonThread, f \in Event, r \in {"send", "set"} : daemonPc[u] # <<r, f>>
  <2>1. "check" \in Step
    BY DEF Step
  <2> QED
    BY <1>1, <2>1, NotifyPlace
<1>3. \A u \in DaemonThread : u # t => daemonPc'[u] = daemonPc[u]
  BY DEF NotifyCheck, DaemonTypeOK
<1>4. daemonPc'[t] = IF Needed(e) THEN <<"send", e>> ELSE Idle
  BY DEF NotifyCheck, DaemonTypeOK
<1>5. \A u \in DaemonThread, f \in Event : /\ daemonPc'[u] # <<"set", f>>
                                           /\ daemonPc'[u] = <<"send", f>> => u = t /\ f = e /\ Needed(e)
  BY <1>2, <1>3, <1>4 DEF Idle
<1>6. \A f \in Event : ~Setting(f) /\ ~Setting(f)'
  BY <1>1, <1>2, <1>5 DEF Setting
<1>7. Alone' /\ Testing'
  <2>1. Alone'
    BY <1>1, <1>2, <1>5, InNotifyIs DEF Alone, DaemonThread
  <2>2. Testing'
    BY <1>1, <1>2, <1>5 DEF Testing, Needed
  <2> QED
    BY <2>1, <2>2
<1>8. Ahead' /\ Gone' /\ LastEvent'
  BY <1>1, <1>6 DEF Told, Ahead, Gone, LastEvent, Event
<1>9. Behind'
  <2> SUFFICES ASSUME ~modemHas, modemConnected_
               PROVE  eventsSent = << >> /\ (Pending' \/ daemonPc'["listener"] = <<"send", "unavailable">>)
    BY <1>1, <1>6 DEF Behind, Event
  <2>1. eventsSent = << >> /\ (Pending \/ daemonPc["listener"] = <<"send", "unavailable">>)
    BY <1>6 DEF Told, Behind, Event
  <2>2. daemonPc["listener"] # <<"send", "unavailable">>
    BY <1>2 DEF DaemonThread, Event
  <2>3. daemonPc["listener"] = <<"check", "unavailable">> =>
          daemonPc'["listener"] \in {<<"check", "unavailable">>, <<"send", "unavailable">>}
    <3> SUFFICES ASSUME daemonPc["listener"] = <<"check", "unavailable">>
                 PROVE  daemonPc'["listener"] \in {<<"check", "unavailable">>, <<"send", "unavailable">>}
      OBVIOUS
    <3>1. CASE t = "listener"
      <4>0. e = "unavailable"
        BY <1>1, <3>1
      <4>1. e = "unavailable" /\ Needed(e)
        BY <4>0 DEF Needed, DaemonTypeOK
      <4> QED
        BY <1>4, <3>1, <4>1
    <3>2. CASE t # "listener"
      BY <1>3, <3>2 DEF DaemonThread
    <3> QED
      BY <3>1, <3>2
  <2> QED
    BY <1>1, <2>1, <2>2, <2>3 DEF Pending
<1> QED
  BY <1>7, <1>8, <1>9 DEF Told

\* The event: it is news to the modem, or the modem's last restart is still
\* being dealt with.
LEMMA SendTold ==
    ASSUME DaemonTypeOK, MainStarts, Told, NEW t \in DaemonThread, NEW e \in Event,
           NotifySend(t, e), daemonCause' = {}
    PROVE  Told'
<1>1. /\ daemonPc[t] = <<"send", e>> /\ phase # "exit" /\ phase' = phase
      /\ SendEvent(e, daemonCause) /\ UNCHANGED <<modemConnected_, modemNotices>>
  BY DEF NotifySend, modemVars
<1>2. ~InNotify(OtherThread[t])
  <2>1. InNotify(t)
    BY <1>1, InNotifyIs
  <2> QED
    BY <2>1 DEF Told, Alone, OtherThread, DaemonThread
<1>3. phase # "sent" /\ \A u \in DaemonThread, f \in Event, r \in {"send", "set"} :
                          daemonPc[u] = <<r, f>> => u = t /\ f = e /\ r = "send"
  <2>1. "send" \in Step
    BY DEF Step
  <2> QED
    BY <1>1, <1>2, <2>1, NotifyPlace
<1>4. daemonPc'[t] = <<"set", e>> /\ \A u \in DaemonThread : u # t => daemonPc'[u] = daemonPc[u]
  BY DEF NotifySend, DaemonTypeOK
<1>5. Needed(e)
  BY <1>1 DEF Told, Testing
<1>6. \A f \in Event : ~Setting(f) /\ (Setting(f)' <=> f = e)
  <2>1. \A f \in Event : ~Setting(f)
    BY <1>3 DEF Setting
  <2>2. \A u \in DaemonThread, f \in Event : daemonPc'[u] = <<"set", f>> => u = t /\ f = e
    BY <1>3, <1>4
  <2>3. phase' # "sent"
    BY <1>1, <1>3
  <2>4. \A f \in Event : Setting(f)' => f = e
    BY <2>2, <2>3 DEF Setting
  <2>5. Setting(e)'
    BY <1>4 DEF Setting
  <2> QED
    BY <2>1, <2>4, <2>5
<1>7. modemHas' = (e = "available")
      /\ \/ eventsSent' = <<e, IF eventsSent = << >> THEN "none" ELSE eventsSent[1]>>
         \/ eventsSent' = eventsSent /\ modemHas' = modemHas
  BY <1>1, SendTells
<1>8. Alone' /\ Testing'
  <2>1. \A u \in DaemonThread, f \in Event :
          daemonPc'[u] \in {<<"send", f>>, <<"set", f>>} => u = t /\ f = e
    BY <1>3, <1>4
  <2>2. phase' # "sent"
    BY <1>1, <1>3
  <2>3. Alone'
    BY <2>1, <2>2, InNotifyIs DEF Alone, DaemonThread
  <2>4. Testing'
    BY <1>1, <1>5, <2>1, <2>2 DEF Testing, Needed
  <2> QED
    BY <2>3, <2>4
<1>9. Ahead' /\ Gone' /\ Behind'
  BY <1>6, <1>7 DEF Ahead, Gone, Behind, Event
<1>10. LastEvent'
  <2>1. eventsSent # << >> => eventsSent[1] \in Event /\ modemHas = (eventsSent[1] = "available")
    BY DEF Told, LastEvent
  <2>2. eventsSent # << >> => eventsSent[1] # e
    <3>1. CASE e = "available"
      BY <1>5, <1>6, <2>1, <3>1 DEF Told, Ahead, Needed, Event
    <3>2. CASE e = "unavailable"
      BY <1>5, <1>6, <2>1, <3>2 DEF Told, Behind, Needed, Event
    <3> QED
      BY <3>1, <3>2 DEF Event
  <2>3. CASE eventsSent' = eventsSent /\ modemHas' = modemHas
    BY <2>3 DEF Told, LastEvent
  <2>4. CASE eventsSent' = <<e, IF eventsSent = << >> THEN "none" ELSE eventsSent[1]>>
    <3> DEFINE last == IF eventsSent = << >> THEN "none" ELSE eventsSent[1]
    <3>1. last \in Event \cup {"none"} /\ last # e
      BY <2>1, <2>2 DEF Event
    <3>2. eventsSent' = <<e, last>>
      BY <2>4
    <3> HIDE DEF last
    <3> QED
      BY <1>7, <3>1, <3>2 DEF LastEvent
  <2> QED
    BY <1>7, <2>3, <2>4
<1> QED
  BY <1>8, <1>9, <1>10 DEF Told

\* The note: now the books say what the modem was told.
LEMMA SetTold ==
    ASSUME DaemonTypeOK, MainStarts, Told, NEW t \in DaemonThread, NEW e \in Event, NotifySet(t, e)
    PROVE  Told'
<1>1. /\ daemonPc[t] = <<"set", e>> /\ phase # "exit" /\ phase' = phase
      /\ modemConnected_' = (e = "available") /\ UNCHANGED <<modemHas, eventsSent, modemNotices>>
  BY DEF NotifySet, Books, modemVars
<1>2. ~InNotify(OtherThread[t])
  <2>1. InNotify(t)
    BY <1>1, InNotifyIs
  <2> QED
    BY <2>1 DEF Told, Alone, OtherThread, DaemonThread
<1>3. phase # "sent" /\ \A u \in DaemonThread, f \in Event, r \in {"send", "set"} :
                          daemonPc[u] = <<r, f>> => u = t /\ f = e /\ r = "set"
  <2>1. "set" \in Step
    BY DEF Step
  <2> QED
    BY <1>1, <1>2, <2>1, NotifyPlace
<1>4. daemonPc'[t] = Idle /\ \A u \in DaemonThread : u # t => daemonPc'[u] = daemonPc[u]
  BY DEF NotifySet, DaemonTypeOK
<1>5. \A u \in DaemonThread, f \in Event, r \in {"send", "set"} : daemonPc'[u] # <<r, f>>
  BY <1>3, <1>4 DEF Idle
<1>6. \A f \in Event : (Setting(f) <=> f = e) /\ ~Setting(f)'
  <2>1. \A f \in Event : Setting(f) => f = e
    BY <1>3 DEF Setting
  <2>2. Setting(e)
    BY <1>1 DEF Setting
  <2>3. \A f \in Event : ~Setting(f)'
    BY <1>1, <1>3, <1>5 DEF Setting
  <2> QED
    BY <2>1, <2>2, <2>3
<1>7. Alone' /\ Testing'
  <2>1. Alone'
    BY <1>1, <1>3, <1>5, InNotifyIs DEF Alone, DaemonThread
  <2>2. Testing'
    BY <1>1, <1>3, <1>5 DEF Testing
  <2> QED
    BY <2>1, <2>2
<1>8. Ahead' /\ Gone' /\ LastEvent'
  BY <1>1, <1>6 DEF Told, Ahead, Gone, LastEvent, Event
<1>9. Behind'
  <2> SUFFICES ASSUME ~modemHas, e = "available"
               PROVE  eventsSent = << >> /\ Pending'
    BY <1>1, <1>6 DEF Behind, Event
  <2>1. eventsSent = << >> /\ (Pending \/ daemonPc["listener"] = <<"send", "unavailable">>)
    BY <1>6 DEF Told, Behind, Event
  <2>2. daemonPc["listener"] # <<"send", "unavailable">>
    BY <1>3 DEF DaemonThread, Event
  <2>3. daemonPc["listener"] = <<"check", "unavailable">> => daemonPc'["listener"] = daemonPc["listener"]
    BY <1>1, <1>4 DEF DaemonThread
  <2> QED
    BY <1>1, <2>1, <2>2, <2>3 DEF Pending
<1> QED
  BY <1>7, <1>8, <1>9 DEF Told

\* The listener is called: a restart it has yet to act on becomes its next step.
LEMMA NoticeTold ==
    ASSUME DaemonTypeOK, Told, OnServiceStatusChange
    PROVE  Told'
<1>1. /\ daemonPc["listener"] = Idle /\ modemNotices # << >> /\ modemNotices' = Tail(modemNotices)
      /\ phase' = phase /\ UNCHANGED <<modemConnected_, modemHas, eventsSent>>
  BY DEF OnServiceStatusChange
<1>2. daemonPc'["listener"] = AfterNotice /\ daemonPc'["main"] = daemonPc["main"]
  BY DEF OnServiceStatusChange, DaemonTypeOK, DaemonThread
<1>3. \A t \in DaemonThread, e \in Event, s \in {"send", "set"} :
        daemonPc'[t] = <<s, e>> <=> daemonPc[t] = <<s, e>>
  BY <1>1, <1>2 DEF AfterNotice, DaemonThread, Idle
<1>4. ASSUME Pending PROVE Pending'
  <2>1. PICK i \in 1 .. Len(modemNotices) : modemNotices[i] = "unavailable"
    BY <1>1, <1>4 DEF Pending, Idle
  <2>2. CASE i = 1
    BY <1>2, <2>1, <2>2 DEF AfterNotice, Pending
  <2>3. CASE i # 1
    <3>1. i - 1 \in 1 .. Len(modemNotices') /\ modemNotices'[i - 1] = "unavailable"
      BY <1>1, <2>1, <2>3 DEF DaemonTypeOK
    <3> QED
      BY <3>1 DEF Pending
  <2> QED
    BY <2>2, <2>3
<1> QED
  BY <1>1, <1>3, <1>4, ToldStays

\* A restart: the modem forgets, and a notice is on its way.
LEMMA ServiceTold ==
    ASSUME DaemonTypeOK, Told, ServiceDown \/ ServiceBack
    PROVE  Told'
<1>1. UNCHANGED <<daemonPc, phase, modemConnected_>>
  BY DEF ServiceDown, ServiceBack
<1>2. CASE ServiceBack
  <2>1. modemNotices' = Append(modemNotices, "available") /\ UNCHANGED <<modemHas, eventsSent>>
    BY <1>2 DEF ServiceBack
  <2>2. Pending => Pending'
    BY <1>1, <2>1 DEF Pending, DaemonTypeOK
  <2> QED
    BY <1>1, <2>1, <2>2, ToldStays
<1>3. CASE ServiceDown
  <2>1. modemNotices' = Append(modemNotices, "unavailable") /\ ~modemHas' /\ eventsSent' = << >>
    BY <1>3 DEF ServiceDown
  <2>2. Pending'
    <3>1. Len(modemNotices) + 1 \in 1 .. Len(modemNotices') /\ modemNotices'[Len(modemNotices) + 1] = "unavailable"
      BY <2>1 DEF DaemonTypeOK
    <3> QED
      BY <3>1 DEF Pending
  <2>3. Alone' /\ Testing'
    BY <1>1 DEF Told, Alone, Testing, InNotify, Needed
  <2> QED
    BY <2>1, <2>2, <2>3 DEF Told, Ahead, Gone, Behind, LastEvent
<1> QED
  BY <1>2, <1>3

LEMMA NextTold ==
    ASSUME DaemonTypeOK, MainStarts, Told, [DaemonNext]_daemonVars,
           daemonCause' = {}, phase' # "exit"
    PROVE  Told'
<1>1. CASE InitSend
  BY <1>1, InitSendTold
<1>2. CASE InitSet
  BY <1>2, InitSetTold
<1>3. ~InitFails /\ ~Terminate
  BY DEF InitFails, Terminate
<1>4. ASSUME NEW t \in DaemonThread, Notify(t) PROVE Told'
  BY <1>4, CheckTold, SendTold, SetTold DEF Notify
<1>5. CASE OnServiceStatusChange
  BY <1>5, NoticeTold
<1>6. CASE ServiceDown \/ ServiceBack
  BY <1>6, ServiceTold
<1>7. CASE AcceptFirst \/ SubsystemReady \/ UNCHANGED daemonVars
  BY <1>7, ToldStays DEF AcceptFirst, SubsystemReady, daemonVars, modemVars, Pending
<1>8. CASE HandleClientConnection \/ Compare
  <2>1. /\ daemonPc["main"] \in {Idle, Comparing} /\ daemonPc'["listener"] = daemonPc["listener"]
        /\ daemonPc'["main"] \in {Comparing, AfterPass}
    BY <1>8 DEF HandleClientConnection, Compare, DaemonTypeOK, DaemonThread
  <2>2. \A t \in DaemonThread, e \in Event, s \in {"send", "set"} :
          daemonPc'[t] = <<s, e>> <=> daemonPc[t] = <<s, e>>
    BY <2>1 DEF AfterPass, DaemonThread, Idle, Comparing
  <2>3. UNCHANGED <<phase, modemConnected_, modemHas, eventsSent, modemNotices>>
    BY <1>8 DEF HandleClientConnection, Compare, modemVars
  <2>4. Pending => Pending'
    BY <2>1, <2>3 DEF Pending
  <2> QED
    BY <2>2, <2>3, <2>4, ToldStays
<1> QED
  BY <1>1, <1>2, <1>3, <1>4, <1>5, <1>6, <1>7, <1>8 DEF DaemonNext, Main, Listener, DaemonThread

-----------------------------------------------------------------------------
(* The theorems.                                                           *)

\* The strengthening holds of every state of the daemon.
THEOREM DaemonInductive == DaemonSpec => []DaemonIInv
<1>1. DaemonInit => DaemonIInv
  <2> SUFFICES ASSUME DaemonInit PROVE DaemonIInv
    OBVIOUS
  <2>1. daemonPc \in [DaemonThread -> Pc] /\ \A t \in DaemonThread : daemonPc[t] = Idle
    BY DEF DaemonInit, Pc
  <2>2. DaemonTypeOK
    <3>1. drops \in 0 .. MaxDrop /\ ssrs \in 0 .. MaxSsr
      BY DaemonAssumption DEF DaemonAssumption, DaemonInit
    <3>2. modemNotices \in Seq(Event) /\ eventsSent \in Seq(Event \cup {"none"})
      BY DEF DaemonInit
    <3> QED
      BY <2>1, <3>1, <3>2 DEF DaemonInit, DaemonTypeOK, Phase, Accident
  <2>3. DaemonQuiet
    BY <2>1 DEF DaemonInit, DaemonQuiet, MainStarts, ListenerQuiet, Starting, BooksByStep, DaemonThread
  <2>4. Alone /\ Testing /\ ~Setting("available") /\ ~Setting("unavailable")
    BY <2>1, InNotifyIs DEF DaemonInit, Alone, Testing, Setting, DaemonThread, Idle
  <2> QED
    BY <2>2, <2>3, <2>4 DEF DaemonIInv, DaemonInit, Told, Ahead, Gone, Behind, LastEvent
<1>2. DaemonIInv /\ [DaemonNext]_daemonVars => DaemonIInv'
  <2> SUFFICES ASSUME DaemonIInv, [DaemonNext]_daemonVars PROVE DaemonIInv'
    OBVIOUS
  <2>1. DaemonTypeOK' /\ DaemonQuiet'
    BY TypeStep, DaemonQuietStays DEF DaemonIInv
  <2>2. ASSUME phase' # "exit", daemonCause' = {} PROVE Told'
    <3>1. phase # "exit"
      BY <2>2 DEF DaemonNext, AcceptFirst, SubsystemReady, InitSend, InitSet, InitFails, Main,
         Listener, HandleClientConnection, Compare, Notify, NotifyCheck, NotifySend, NotifySet,
         OnServiceStatusChange, Terminate, ServiceDown, ServiceBack, daemonVars
    <3>2. daemonCause = {}
      BY <2>2, AccidentsStay DEF DaemonIInv
    <3> QED
      BY <2>2, <3>1, <3>2, NextTold DEF DaemonIInv, DaemonQuiet
  <2> QED
    BY <2>1, <2>2 DEF DaemonIInv
<1> QED
  BY <1>1, <1>2, PTL DEF DaemonSpec

\* Unless an event was not taken or two threads met, at rest the modem believes
\* what the daemon's books say, over any number of restarts; and until the first
\* restart the books say whether there is a client.
THEOREM DaemonBooksExact == DaemonSpec => []BooksExact
<1>1. DaemonIInv => BooksExact
  <2> SUFFICES ASSUME DaemonIInv PROVE BooksExact
    OBVIOUS
  <2>1. ASSUME AtRest, daemonCause = {} PROVE modemHas = modemConnected_
    <3>1. Told /\ phase = "loop" /\ modemNotices = << >> /\ \A t \in DaemonThread : daemonPc[t] = Idle
      BY <2>1 DEF AtRest, DaemonIInv
    <3>2. ~Setting("available") /\ ~Setting("unavailable")
      BY <3>1 DEF Setting, Idle
    <3>3. ~Pending /\ daemonPc["listener"] # <<"send", "unavailable">>
      BY <3>1 DEF Pending, Idle, DaemonThread
    <3> QED
      BY <3>1, <3>2, <3>3 DEF Told, Ahead, Behind, DaemonIInv, DaemonTypeOK
  <2> QED
    BY <2>1 DEF DaemonIInv, DaemonQuiet, BooksByStep, BooksExact
<1> QED
  BY <1>1, DaemonInductive, PTL

\* With the same exceptions the modem is never told twice in a row what it knows.
THEOREM DaemonToldOnce == DaemonSpec => []ToldOnce
<1>1. DaemonIInv => ToldOnce
  BY DEF DaemonIInv, Told, LastEvent, ToldOnce
<1> QED
  BY <1>1, DaemonInductive, PTL

\* With the same exceptions the process exits with the modem still believing in a
\* remote SIM only when the signal comes between an event and its note, or when
\* initDaemon() gives up after the listener announced the client.
THEOREM DaemonReleasedAtExit == DaemonSpec => ReleasedAtExit
<1> DEFINE Excused == \/ phase = "sent" \/ \E t \in DaemonThread : daemonPc[t] = <<"set", "available">>
                      \/ phase \in {"ready", "found"} /\ modemConnected_'
           Exit == phase # "exit" /\ phase' = "exit" /\ modemHas' /\ daemonCause' = {} => Excused
<1>1. DaemonIInv /\ [DaemonNext]_daemonVars => [Exit]_daemonVars
  <2> SUFFICES ASSUME DaemonIInv, [DaemonNext]_daemonVars, phase # "exit", phase' = "exit",
                      modemHas', daemonCause' = {}
               PROVE  Excused
    OBVIOUS
  <2>0. DaemonTypeOK /\ Told
    BY AccidentsStay DEF DaemonIInv
  <2>1. InitFails \/ Terminate
    BY DEF DaemonNext, AcceptFirst, SubsystemReady, InitSend, InitSet, Main, Listener,
       HandleClientConnection, Compare, Notify, NotifyCheck, NotifySend, NotifySet,
       OnServiceStatusChange, ServiceDown, ServiceBack, daemonVars
  <2>2. modemHas
    <3>1. CASE InitFails
      BY <3>1 DEF InitFails, EventLost
    <3>2. CASE Terminate /\ Needed("unavailable")
      BY <2>0, <3>2, SendTells DEF Terminate, Released, Event
    <3>3. CASE Terminate /\ ~Needed("unavailable")
      BY <3>3 DEF Terminate, Released
    <3> QED
      BY <2>1, <3>1, <3>2, <3>3
  <2>3. CASE Terminate
    <3>1. ~modemConnected_
      BY <2>0, <2>3, SendTells DEF Terminate, Released, Needed, Event
    <3> QED
      BY <2>0, <2>2, <3>1 DEF Told, Ahead, Setting
  <2>4. CASE InitFails
    BY <2>0, <2>2, <2>4 DEF InitFails, Told, Ahead, Setting
  <2> QED
    BY <2>1, <2>3, <2>4
<1> QED
  BY <1>1, DaemonInductive, PTL DEF DaemonSpec, ReleasedAtExit

=============================================================================
