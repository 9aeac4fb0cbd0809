----------------------------- MODULE CardControl -----------------------------
(***************************************************************************)
(* The card side of sap-card-provider (CardControl.cpp).                   *)
(*                                                                         *)
(* The main thread acts on the requests the daemon forwards; the card      *)
(* listener's thread acts on changes of the card; both open the SAP        *)
(* connection through openSapConn(), which sends the request, then replaces*)
(* openConnPromise_ and waits up to five seconds for the callback, on a    *)
(* third thread, to set it.  No lock protects the promises or the flags.   *)
(*                                                                         *)
(* A std::promise is its value and, while one waits, the thread that waits *)
(* for it.  Setting a promise twice throws in the callback, and replacing  *)
(* an unset one makes the waiting get() throw: the process dies.           *)
(***************************************************************************)
EXTENDS Integers, FiniteSets

CONSTANTS
    Apdu,       \* APDU identifiers, one byte on the wire
    MaxReq,     \* bound: requests in flight when the next message is read
    MaxCard,    \* bound: insertions, removals and other changes of the card
    Untimely    \* which responses come outside the wait: "early", "late"

ASSUME CardAssumption ==
    /\ MaxReq \in Nat /\ MaxCard \in Nat /\ Untimely \in SUBSET {"early", "late"}

Thread == {"main", "card"}
Kind == {"open", "close", "powerOn", "powerOff", "reset", "atrReset", "atrInserted"}
Goal == {"none", "atrReset", "atrInserted", "powerOn"}
Value == {"unset", "ok", "failed", "broken"}
Cause == {"early", "late", "overlap", "closed", "flicker"}

VARIABLES
    cardPresent_, cardConnected_,  \* CardControl's flags
    apduRespCbMap_,     \* the keys of the map of APDU callbacks
    pc,                 \* where each thread is in openSapConn, requestPowerOn
    goal,               \* what it does once the connection is open
    promise,            \* the current promise: its value, who waits
    future,             \* what a waiting thread's future holds
    daemonConnected_,   \* SimConnection: there is a daemon
    crashed,            \* an exception left a thread
    cardIn, sapOpen,    \* modem: a card is inserted; SAP is open
    inFlight,           \* modem: requests it has yet to answer, by kind
    apdus,              \* modem: APDUs it has yet to answer
    notices,            \* changes the card listener has yet to be called for
    changes,            \* changes of the card so far
    failedApdus,        \* history: ids whose transmission failed
    cause               \* history: what may make flags and modem disagree

flags == <<cardPresent_, cardConnected_>>
threads == <<pc, goal, promise, future>>
modem == <<cardIn, sapOpen, inFlight, apdus, notices, changes>>
vars == <<flags, apduRespCbMap_, threads, daemonConnected_, crashed, modem,
          failedApdus, cause>>

Promise == {"open", "powerOn"}

Init ==
    /\ cardIn \in BOOLEAN /\ cardPresent_ = cardIn /\ cardConnected_ = FALSE
    /\ apduRespCbMap_ = {} /\ apdus = {} /\ failedApdus = {}
    /\ pc = [t \in Thread |-> "idle"] /\ goal = [t \in Thread |-> "none"]
    /\ promise = [p \in Promise |-> [val |-> "unset", waiter |-> "nobody"]]
    /\ future = [t \in Thread |-> "unset"]
    /\ daemonConnected_ = TRUE /\ crashed = FALSE
    /\ sapOpen = FALSE /\ inFlight = [k \in Kind |-> 0]
    /\ notices = 0 /\ changes = 0 /\ cause = {}

Inside(t) == pc[t] \in {"openSent", "openWait"}
Other(t) == CHOOSE u \in Thread : u # t
Sent(k) == inFlight' = [inFlight EXCEPT ![k] = @ + 1]
Answered(k) == inFlight' = [inFlight EXCEPT ![k] = @ - 1]

\* A call to the SapCardManager that returns at once: it may be refused.
Request(k) == Sent(k) \/ UNCHANGED inFlight

Returns(t) == pc' = [pc EXCEPT ![t] = "idle"] /\ goal' = [goal EXCEPT ![t] = "none"]

-----------------------------------------------------------------------------
(* openSapConn() by thread t, for the sake of g.                           *)

OpenSapConn(t, g, present) ==
    \/ /\ Returns(t)                       \* no card, or the request is refused
       /\ UNCHANGED <<inFlight, cause>>
    \/ /\ present
       /\ Sent("open")
       /\ pc' = [pc EXCEPT ![t] = "openSent"] /\ goal' = [goal EXCEPT ![t] = g]
       /\ cause' = IF Inside(Other(t)) THEN cause \cup {"overlap"} ELSE cause

\* openConnPromise_ = std::promise<bool>(), or powerOnPromise_ likewise: what
\* the thread that waited for the old promise finds in its future.
BrokenBy(p) ==
    LET old == promise[p] IN
    IF old.waiter \in Thread /\ old.val = "unset"
    THEN [future EXCEPT ![old.waiter] = "broken"] ELSE future

ReusedPromise(t, p) == [promise[p] EXCEPT !.waiter = t]
FreshPromise(t, p) == [val |-> "unset", waiter |-> t]

\* From the request to the wait: the promise is replaced.
ReplacePromise(t, p, sent, wait) ==
    /\ ~crashed /\ pc[t] = sent
    /\ promise' = [promise EXCEPT ![p] = FreshPromise(t, p)]
    /\ future' = [BrokenBy(p) EXCEPT ![t] = "unset"]
    /\ pc' = [pc EXCEPT ![t] = wait]
    /\ UNCHANGED <<flags, apduRespCbMap_, goal, daemonConnected_, crashed, modem,
                   failedApdus, cause>>

ForgetWaiter(p, t) ==
    promise' = [promise EXCEPT ![p].waiter = IF @ = t THEN "nobody" ELSE @]

\* wait_for() is bounded; a response that comes in time comes before its end.
NeverTimesOut(p) == FALSE
MayTimeOut(p) == inFlight[p] = 0 \/ "late" \in Untimely

\* wait_for() times out.
WaitTimesOut(t, p, wait) ==
    /\ ~crashed /\ pc[t] = wait /\ future[t] = "unset"
    /\ MayTimeOut(p)
    /\ Returns(t) /\ ForgetWaiter(p, t)
    /\ cause' = IF inFlight[p] > 0 THEN cause \cup {"late"} ELSE cause
    /\ UNCHANGED <<flags, apduRespCbMap_, future, daemonConnected_, crashed, modem,
                   failedApdus>>

\* cardConnected_ once openConnFuture.get() has returned true.
ConnectedAfterOpen == TRUE

\* openConnFuture is ready: get(), and on success the rest of the caller.
OpenReady(t) ==
    /\ ~crashed /\ pc[t] = "openWait" /\ future[t] # "unset"
    /\ ForgetWaiter("open", t)
    /\ crashed' = (future[t] = "broken")
    /\ IF future[t] = "ok"
       THEN /\ cardConnected_' = ConnectedAfterOpen
            /\ \/ /\ goal[t] \in {"atrReset", "atrInserted"}
                  /\ Request(goal[t]) /\ Returns(t)
               \/ /\ goal[t] = "powerOn" /\ Sent("powerOn")
                  /\ pc' = [pc EXCEPT ![t] = "powerSent"] /\ UNCHANGED goal
               \/ /\ goal[t] = "powerOn" /\ UNCHANGED inFlight /\ Returns(t)
       ELSE Returns(t) /\ UNCHANGED <<cardConnected_, inFlight>>
    /\ UNCHANGED <<cardPresent_, apduRespCbMap_, future, daemonConnected_, cardIn,
                   sapOpen, apdus, notices, changes, failedApdus, cause>>

\* powerOnFuture is ready: on success powerUpCard() requests the AtR.
PowerReady(t) ==
    /\ ~crashed /\ pc[t] = "powerWait" /\ future[t] # "unset"
    /\ ForgetWaiter("powerOn", t)
    /\ IF future[t] = "ok" THEN Request("atrReset") ELSE UNCHANGED inFlight
    /\ Returns(t)
    /\ UNCHANGED <<flags, apduRespCbMap_, future, daemonConnected_, crashed, cardIn,
                   sapOpen, apdus, notices, changes, failedApdus, cause>>

-----------------------------------------------------------------------------
(* handleDaemonMsg() on the main thread.                                   *)

\* The loop has a message, and is not inside a handler.
Reads == /\ ~crashed /\ pc["main"] = "idle" /\ daemonConnected_
         /\ \A k \in Kind : inFlight[k] < MaxReq

\* What the handlers below leave alone.
Rest == <<cardPresent_, cardConnected_, promise, future, daemonConnected_, crashed,
          cardIn, sapOpen, notices, changes>>

\* CARD_CONNECT_MSG: connectToCard().
ConnectToCard ==
    /\ Reads
    /\ IF cardConnected_
       THEN Request("atrReset") /\ UNCHANGED <<pc, goal, cause>>
       ELSE OpenSapConn("main", "atrReset", cardPresent_)
    /\ UNCHANGED <<Rest, apduRespCbMap_, apdus, failedApdus>>

\* CARD_DISCONNECT_MSG: disconnectFromCard().  closeConnCb_ only logs:
\* cardConnected_ stays as it is.
DisconnectFromCard ==
    /\ Reads /\ cardConnected_
    /\ \/ Sent("close") /\ cause' = cause \cup {"closed"}
       \/ UNCHANGED <<inFlight, cause>>
    /\ UNCHANGED <<Rest, pc, goal, apduRespCbMap_, apdus, failedApdus>>

\* CARD_POWER_UP_MSG: powerUpCard().
PowerUpCard ==
    /\ Reads
    /\ IF cardConnected_
       THEN /\ \/ /\ Sent("powerOn")
                  /\ pc' = [pc EXCEPT !["main"] = "powerSent"]
                  /\ goal' = [goal EXCEPT !["main"] = "powerOn"]
               \/ UNCHANGED <<inFlight, pc, goal>>
            /\ UNCHANGED cause
       ELSE OpenSapConn("main", "powerOn", cardPresent_)
    /\ UNCHANGED <<Rest, apduRespCbMap_, apdus, failedApdus>>

\* CARD_POWER_DOWN_MSG and CARD_RESET_MSG: powerDownCard() and resetCard().
PowerDownOrReset(k) ==
    /\ Reads /\ cardConnected_ /\ k \in {"powerOff", "reset"}
    /\ Request(k)
    /\ UNCHANGED <<Rest, pc, goal, apduRespCbMap_, apdus, failedApdus, cause>>

\* APDU_TRANSFER_MSG: sendApduToSim().
SendApduToSim(a) ==
    /\ Reads /\ cardConnected_ /\ a \notin apdus
    /\ apduRespCbMap_' = apduRespCbMap_ \cup {a}
    /\ \/ apdus' = apdus \cup {a} /\ failedApdus' = failedApdus \ {a}
       \/ UNCHANGED apdus /\ failedApdus' = failedApdus \cup {a}
    /\ UNCHANGED <<Rest, pc, goal, inFlight, cause>>

-----------------------------------------------------------------------------
(* CardListener::onCardInfoChanged() on the card listener's thread.        *)

\* The flags after the card was found absent.
AbsentForgetsPresence == cardPresent_' = FALSE /\ UNCHANGED cardConnected_
Absent == cardPresent_' = FALSE /\ cardConnected_' = FALSE

OnCardInfoChanged ==
    /\ ~crashed /\ pc["card"] = "idle" /\ notices > 0
    /\ notices' = notices - 1
    /\ IF ~cardIn
       THEN /\ Absent
            /\ cause' = IF Inside("main") THEN cause \cup {"overlap"} ELSE cause
            /\ UNCHANGED <<pc, goal, inFlight>>
       ELSE /\ cardPresent_' = TRUE /\ UNCHANGED cardConnected_
            /\ IF ~cardConnected_ /\ daemonConnected_
               THEN OpenSapConn("card", "atrInserted", TRUE)
               ELSE Request("atrInserted") /\ UNCHANGED <<pc, goal, cause>>
    /\ UNCHANGED <<apduRespCbMap_, promise, future, daemonConnected_, crashed,
                   cardIn, sapOpen, apdus, changes, failedApdus>>

-----------------------------------------------------------------------------
(* Callbacks, on a thread of the SDK.  The modem answers in any order.     *)

\* An answer is in time when the thread that asked waits for it.
InTime(p, sent) == \A t \in Thread : pc[t] # sent

\* setOpenConnPromiseValue() and setPowerOnPromiseValue().
SetPromise(p, v) ==
    LET w == promise[p].waiter IN
    IF promise[p].val # "unset"
    THEN crashed' = TRUE /\ UNCHANGED <<promise, future>>
    ELSE /\ promise' = [promise EXCEPT ![p].val = v]
         /\ future' = IF w \in Thread THEN [future EXCEPT ![w] = v] ELSE future
         /\ UNCHANGED crashed

\* OpenConnectionCallback and PowerOnCallback::commandResponse().
PromiseCallback(p, sent, v) ==
    /\ ~crashed /\ inFlight[p] > 0
    /\ InTime(p, sent) \/ "early" \in Untimely
    /\ p = "open" /\ v = "ok" => cardIn
    /\ Answered(p)
    /\ SetPromise(p, v)
    /\ sapOpen' = (sapOpen \/ (p = "open" /\ v = "ok"))
    /\ cause' = IF InTime(p, sent) THEN cause ELSE cause \cup {"early"}
    /\ UNCHANGED <<flags, apduRespCbMap_, pc, goal, daemonConnected_, cardIn, apdus,
                   notices, changes, failedApdus>>

CallbackRest == <<flags, apduRespCbMap_, threads, daemonConnected_, crashed, cardIn,
                  apdus, notices, changes, failedApdus, cause>>

\* CloseConnectionCallback, PowerOffCallback, AtrResponseCallback: nothing
\* but the message to the daemon, if any.
PlainCallback(k) ==
    /\ ~crashed /\ inFlight[k] > 0 /\ k \in {"close", "powerOff", "atrReset", "atrInserted"}
    /\ Answered(k)
    /\ sapOpen' = (sapOpen /\ k # "close")
    /\ UNCHANGED CallbackRest

\* ResetCallback: on success requestAtrAfterReset().
ResetCallback ==
    /\ ~crashed /\ inFlight["reset"] > 0
    /\ \/ Answered("reset")
       \/ inFlight' = [inFlight EXCEPT !["reset"] = @ - 1, !["atrReset"] = @ + 1]
    /\ UNCHANGED <<CallbackRest, sapOpen>>

\* ApduResponseCallback::onResponse(): the response is sent, the key erased.
ApduErased(a) == apduRespCbMap_ \ {a}

ApduCallback(a) ==
    /\ ~crashed /\ a \in apdus
    /\ apdus' = apdus \ {a} /\ apduRespCbMap_' = ApduErased(a)
    /\ UNCHANGED <<flags, threads, daemonConnected_, crashed, cardIn, sapOpen,
                   inFlight, notices, changes, failedApdus, cause>>

-----------------------------------------------------------------------------
(* The environment.                                                        *)

\* The card is inserted, removed, or changes in another way; a removal takes
\* the SAP connection with it.
CardChanges(in) ==
    /\ ~crashed /\ changes < MaxCard
    /\ cardIn' = in /\ sapOpen' = (sapOpen /\ in)
    /\ notices' = notices + 1 /\ changes' = changes + 1
    /\ cause' = IF in # cardIn /\ (notices > 0 \/ \E t \in Thread : Inside(t))
                THEN cause \cup {"flicker"} ELSE cause
    /\ UNCHANGED <<flags, apduRespCbMap_, threads, daemonConnected_, crashed,
                   inFlight, apdus, failedApdus>>

\* The main loop finds the daemon gone, or connects again.
DaemonComesOrGoes ==
    /\ ~crashed /\ pc["main"] = "idle" /\ daemonConnected_' = ~daemonConnected_
    /\ UNCHANGED <<flags, apduRespCbMap_, threads, crashed, modem, failedApdus, cause>>

Handler == \/ ConnectToCard \/ DisconnectFromCard \/ PowerUpCard
           \/ \E k \in Kind : PowerDownOrReset(k)
           \/ \E a \in Apdu : SendApduToSim(a)

Waiting(t) == \/ ReplacePromise(t, "open", "openSent", "openWait")
              \/ WaitTimesOut(t, "open", "openWait")
              \/ OpenReady(t)
              \/ ReplacePromise(t, "powerOn", "powerSent", "powerWait")
              \/ WaitTimesOut(t, "powerOn", "powerWait")
              \/ PowerReady(t)

Callback == \/ \E v \in {"ok", "failed"} :
                 \/ PromiseCallback("open", "openSent", v)
                 \/ PromiseCallback("powerOn", "powerSent", v)
            \/ \E k \in Kind : PlainCallback(k)
            \/ ResetCallback
            \/ \E a \in Apdu : ApduCallback(a)

Next == \/ Handler \/ OnCardInfoChanged \/ Callback
        \/ \E t \in Thread : Waiting(t)
        \/ \E in \in BOOLEAN : CardChanges(in)
        \/ DaemonComesOrGoes

\* Threads that wait go on: wait_for() is bounded, and the modem answers.
Fairness == /\ \A t \in Thread : WF_vars(Waiting(t))
            /\ WF_vars(Callback)

Spec == Init /\ [][Next]_vars /\ Fairness

-----------------------------------------------------------------------------
(* Properties.                                                             *)

\* The state keeps its type: the maps, promises and threads of CardControl hold
\* only what the functions put there.
TypeOK ==
    /\ cardPresent_ \in BOOLEAN /\ cardConnected_ \in BOOLEAN
    /\ apduRespCbMap_ \in SUBSET Apdu
    /\ pc \in [Thread -> {"idle", "openSent", "openWait", "powerSent", "powerWait"}]
    /\ goal \in [Thread -> Goal]
    /\ promise \in [Promise -> [val : Value, waiter : Thread \cup {"nobody"}]]
    /\ future \in [Thread -> Value]
    /\ daemonConnected_ \in BOOLEAN /\ crashed \in BOOLEAN
    /\ cardIn \in BOOLEAN /\ sapOpen \in BOOLEAN
    /\ inFlight \in [Kind -> Nat] /\ apdus \in SUBSET Apdu
    /\ notices \in 0 .. MaxCard /\ changes \in 0 .. MaxCard
    /\ failedApdus \in SUBSET Apdu /\ cause \in SUBSET Cause

\* The promises bring the process down only after a response came outside the
\* five seconds of its wait or before the wait, or after two threads were in
\* openSapConn() at once.
CrashExplained == crashed => cause \cap {"early", "late", "overlap"} # {}

\* When nothing is under way, cardConnected_ says whether the SAP connection is
\* open, unless a response was untimely, threads overlapped, the modem asked to
\* disconnect, or a change of the card overtook the listener.
Quiet == /\ \A t \in Thread : pc[t] = "idle"
         /\ notices = 0 /\ inFlight["open"] = 0
ConnectedExact == Quiet /\ cause = {} => cardConnected_ = sapOpen

\* Callbacks are kept for the APDUs in flight, and for no others but those whose
\* transmission was refused.
ApduMapDrains == apdus \subseteq apduRespCbMap_ /\ apduRespCbMap_ \subseteq apdus \cup failedApdus

\* What CardControl keeps about the card agrees with the modem: its flag once
\* nothing is under way, and its map of callbacks always.
BooksAgree == TypeOK /\ ConnectedExact /\ ApduMapDrains

\* The main thread always gets back to the link: no handler blocks for ever.
MainReturns == []<>(pc["main"] = "idle" \/ crashed)

=============================================================================
