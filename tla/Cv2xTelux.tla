----------------------------- MODULE Cv2xTelux -----------------------------
(***************************************************************************)
(* The data calls of the cv2x-daemon reference application: Cv2xTelux.cpp, *)
(* with the modem it talks to.  Cv2xDaemon adds the main thread.           *)
(*                                                                         *)
(* Three threads may start the two data calls: the main thread at boot,    *)
(* the thread that brings the radio's notices when the radio becomes       *)
(* active, and the thread that brings the data service's notices after a   *)
(* restart of the modem.  A fourth one brings the news of the calls.       *)
(* Notices of one service come in order, one at a time.  tx and rx status  *)
(* change together and SUSPENDED is handled as ACTIVE is, so a status is   *)
(* INACTIVE, ACTIVE or UNKNOWN; NO_NET stands for every status of a call   *)
(* but INVALID and CONNECTED.                                              *)
(***************************************************************************)
EXTENDS Naturals, Sequences, FiniteSets

CONSTANT MaxTrouble     \* bound: power changes and refusals, and twice the restarts

ASSUME TroubleAssumption == MaxTrouble \in Nat \ {0}

Starter == {"main", "radio", "data"}
Asker == {"main", "radio"}
Kind == {"ip", "nonIp"}

VARIABLES
    cv2xStatus_, isInitializationDone_, isPostSSRV2XDone_,  \* Cv2xTelux
    dcInfo,         \* dcInfoIP_ and dcInfoNonIP_ are not null
    dataLib,        \* how initDataLibrary() and registerDataListeners() ended
    callStatus,     \* DataConnectionListener: ipStatus_ and nonIpStatus_
    awaiting,       \* the data listener waits for isPostSSRV2XDone_
    step,           \* where a thread is in findProfilesAndStartDataCalls()
    leg,            \* and in each of its two startDataCall()
    registered,     \* the radio listener is registered
    runs,           \* the process runs: it has not ended and is not suspended
    radio,          \* modem: the radio, "down" during a restart
    notices,        \* modem: notices for the radio listener
    call,           \* modem: the data calls
    info,           \* modem: their news, not yet delivered
    request,        \* modem: the request of a thread to start the radio
    dataUp,         \* modem: the data services are there
    available,      \* modem: SERVICE_AVAILABLE is due to the data listener
    troubles,       \* power changes, refusals and twice the restarts so far
    cause           \* history: what went wrong around the daemon

flagVars == <<cv2xStatus_, isInitializationDone_, isPostSSRV2XDone_, dcInfo>>
startVars == <<step, leg>>
listenVars == <<dataLib, callStatus, awaiting>>
processVars == <<registered, runs>>
radioVars == <<radio, notices, call, info>>
modemVars == <<request, dataUp, available>>

Step == {"idle", "finding", "calling", "skipped", "called", "failed", "done"}
LegStep == {"none", "start", "answered", "waiting", "ok", "failed"}
Status == {"INVALID", "CONNECTED", "NO_NET"}
Request == {"none", "asked", "started", "refused"}
Cause == {"ssr", "radioFailed", "noCall", "noNews", "missed", "late"}

NoLegs == [k \in Kind |-> "none"]

TeluxInit ==
    /\ cv2xStatus_ = "UNKNOWN" /\ isInitializationDone_ = FALSE
    /\ isPostSSRV2XDone_ = FALSE /\ dcInfo = FALSE /\ dataLib = "none"
    /\ callStatus = [k \in Kind |-> "INVALID"] /\ awaiting = FALSE
    /\ step = [t \in Starter |-> "idle"] /\ leg = [t \in Starter |-> NoLegs]
    /\ registered = FALSE /\ runs = TRUE
    /\ \/ radio = "off" /\ troubles = 0
       \/ radio = "on" /\ troubles = 1     \* left on by an earlier daemon
    /\ notices = <<>>
    /\ call = [k \in Kind |-> "none"] /\ info = [k \in Kind |-> <<>>]
    /\ request = [t \in Asker |-> "none"]
    /\ dataUp = TRUE /\ available = FALSE /\ cause = {}

historyVars == <<troubles, cause>>

Blame(c, when) ==
    cause' = (IF when THEN cause \cup {c} ELSE cause) /\ UNCHANGED troubles
Troubles(n, c) ==
    troubles + n <= MaxTrouble /\ troubles' = troubles + n /\ cause' = cause \cup c
Trouble(c) == Troubles(1, c)
\* A request is refused, by a modem that could serve it or by one that cannot.
Refused(c, served) == IF served THEN Trouble({c}) ELSE Blame(c, TRUE)

-----------------------------------------------------------------------------
(* The requests to the radio, with what the modem does.                    *)

Tell(queue, n) == notices' = IF registered THEN queue \o n ELSE queue

\* startV2xRadio() on thread t: its request ...
StartV2xRadio(t) ==
    request' = [request EXCEPT ![t] = "asked"] /\ UNCHANGED <<dataUp, available>>

\* ... which the modem serves later, whether or not the process still runs, ...
ServeStart(t) ==
    /\ request[t] = "asked"
    /\ \/ /\ radio # "down" /\ radio' = "on"
          /\ request' = [request EXCEPT ![t] = "started"]
          /\ Tell(notices, IF radio = "off" THEN <<"ACTIVE">> ELSE <<>>)
          /\ UNCHANGED historyVars
       \/ /\ Refused("radioFailed", radio # "down")
          /\ request' = [request EXCEPT ![t] = "refused"]
          /\ UNCHANGED <<radio, notices>>
    /\ UNCHANGED <<flagVars, listenVars, processVars, startVars, call, info, dataUp, available>>

\* ... and the answer, with which the wait for it ends.
Answered(t, answer) ==
    /\ request[t] = answer /\ request' = [request EXCEPT ![t] = "none"]
    /\ UNCHANGED <<dataUp, available>>

\* stopV2xRadio(): the data calls end with V2X mode.
Lost(k) == IF call[k] = "none" THEN info[k] ELSE Append(info[k], "NO_NET")

StopV2xRadio ==
    \/ /\ radio' = "off" /\ Tell(notices, <<"INACTIVE">>)
       /\ info' = [k \in Kind |-> Lost(k)] /\ call' = [k \in Kind |-> "none"]
       /\ UNCHANGED historyVars
    \/ Trouble({"radioFailed"}) /\ UNCHANGED radioVars

-----------------------------------------------------------------------------
(* findProfilesAndStartDataCalls(), on thread t.                           *)

Begin(t) == dcInfo' = TRUE /\ step' = [step EXCEPT ![t] = "finding"]

\* Only the main thread looks at the result.
Ends(t, result) ==
    /\ step' = [step EXCEPT ![t] = IF t = "main" THEN result ELSE "idle"]
    /\ leg' = [leg EXCEPT ![t] = NoLegs]

\* The profiles are found, or not, once the data services are ready; an inactive
\* radio leaves the calls to onStatusChanged().
FindProfilesFails(t) ==
    /\ runs /\ step[t] = "finding"
    /\ Ends(t, "failed") /\ Trouble({"noCall"})
    /\ UNCHANGED <<flagVars, listenVars, processVars, radioVars, modemVars>>

FindProfiles(t) ==
    /\ runs /\ step[t] = "finding" /\ dataUp
    /\ \/ /\ cv2xStatus_ = "INACTIVE"
          /\ step' = [step EXCEPT ![t] = "skipped"] /\ UNCHANGED leg
       \/ /\ cv2xStatus_ # "INACTIVE"
          /\ step' = [step EXCEPT ![t] = "calling"]
          /\ leg' = [leg EXCEPT ![t] = [k \in Kind |-> "start"]]
    /\ UNCHANGED <<flagVars, listenVars, processVars, radioVars, modemVars, historyVars>>

\* startDataCall(): the request and its response.  A call that is up already
\* gives no further news.
StartDataCall(t, k) ==
    /\ runs /\ leg[t][k] = "start"
    /\ \/ /\ leg' = [leg EXCEPT ![t][k] = "failed"]
          /\ Refused("noCall", radio = "on" /\ dataUp) /\ UNCHANGED call
       \/ /\ radio = "on" /\ dataUp
          /\ leg' = [leg EXCEPT ![t][k] = "answered"]
          /\ call' = [call EXCEPT ![k] = IF @ = "none" THEN "connecting" ELSE @]
          /\ Blame("noNews", call[k] = "up")
    /\ UNCHANGED <<flagVars, listenVars, processVars, step, radio, notices, info, modemVars>>

\* waitDataCallConnect() waits at least once.
WaitDataCallConnect(t, k) ==
    /\ runs /\ leg[t][k] = "answered"
    /\ leg' = [leg EXCEPT ![t][k] = "waiting"]
    /\ UNCHANGED <<flagVars, listenVars, processVars, step, radioVars, modemVars, historyVars>>

\* Its loop, when it is woken.
AfterWakeConnected(s) == IF s = "CONNECTED" THEN "ok" ELSE "waiting"
AfterWake(s) == CASE s = "INVALID" -> "waiting"
                  [] s = "CONNECTED" -> "ok"
                  [] OTHER -> "failed"

\* startDataCalls() returns when both legs have.
Join(t) ==
    /\ runs /\ step[t] = "calling" /\ \A k \in Kind : leg[t][k] \in {"ok", "failed"}
    /\ \/ /\ \A k \in Kind : leg[t][k] = "ok"
          /\ step' = [step EXCEPT ![t] = "called"] /\ UNCHANGED leg
       \/ (\E k \in Kind : leg[t][k] = "failed") /\ Ends(t, "failed")
    /\ UNCHANGED <<flagVars, listenVars, processVars, radioVars, modemVars, historyVars>>

SetInitializationDone(t) ==
    /\ runs /\ step[t] \in {"skipped", "called"}
    /\ isInitializationDone_' = TRUE /\ Ends(t, "done")
    /\ UNCHANGED <<cv2xStatus_, isPostSSRV2XDone_, dcInfo, listenVars, processVars,
                   radioVars, modemVars, historyVars>>

-----------------------------------------------------------------------------
(* The radio listener.                                                     *)

\* The data listener keeps mutex_ while it starts the calls.
MutexFree == step["data"] = "idle"
RadioTurn == runs /\ step["radio"] = "idle" /\ request["radio"] = "none" /\ notices # <<>>

StartsNever(s) == FALSE
StartsCalls(s) == cv2xStatus_ = "INACTIVE" /\ s = "ACTIVE" /\ isInitializationDone_

OnStatusChanged ==
    /\ RadioTurn /\ Head(notices) \in {"INACTIVE", "ACTIVE"} /\ MutexFree
    /\ isPostSSRV2XDone_' = TRUE
    /\ cv2xStatus_' = Head(notices) /\ notices' = Tail(notices)
    /\ IF StartsCalls(Head(notices)) THEN Begin("radio") ELSE UNCHANGED <<dcInfo, step>>
    /\ Blame("noCall", /\ Head(notices) = "ACTIVE" /\ ~isInitializationDone_
                       /\ \E t \in Starter : step[t] = "skipped")
    /\ UNCHANGED <<isInitializationDone_, listenVars, processVars, leg, radio, call, info,
                   modemVars>>

\* onServiceStatusChange(), which does not take mutex_.
OnServiceUnavailable ==
    /\ RadioTurn /\ Head(notices) = "down" /\ notices' = Tail(notices)
    /\ isPostSSRV2XDone_' = FALSE
    /\ UNCHANGED <<cv2xStatus_, isInitializationDone_, dcInfo, listenVars, processVars,
                   startVars, radio, call, info, modemVars, historyVars>>

OnServiceAvailable ==
    /\ \/ /\ RadioTurn /\ Head(notices) = "up" /\ notices' = Tail(notices)
          /\ StartV2xRadio("radio")
       \/ /\ runs /\ \E answer \in {"started", "refused"} : Answered("radio", answer)
          /\ UNCHANGED notices
    /\ UNCHANGED <<flagVars, listenVars, processVars, startVars, radio, call, info, historyVars>>

-----------------------------------------------------------------------------
(* The data listener.                                                      *)

\* The task of runAsDaemon(): initDataLibrary() and registerDataListeners().
InitDataLibrary ==
    /\ runs /\ dataLib = "none" /\ dataLib' \in {"ready", "failed"}
    /\ UNCHANGED <<flagVars, callStatus, awaiting, processVars, startVars, radioVars,
                   modemVars, historyVars>>

\* onServiceStatusChange(), up to the wait and from there: the cached status is
\* reset.
StatusAfterSsr == [k \in Kind |-> "INVALID"]

DataServiceAvailable ==
    /\ runs /\ available /\ ~awaiting /\ step["data"] = "idle" /\ dataLib = "ready"
    /\ available' = FALSE /\ awaiting' = TRUE /\ callStatus' = StatusAfterSsr
    /\ UNCHANGED <<flagVars, dataLib, processVars, startVars, radioVars, request, dataUp,
                   historyVars>>

RadioBack ==
    /\ runs /\ awaiting /\ isPostSSRV2XDone_
    /\ awaiting' = FALSE /\ Begin("data")
    /\ UNCHANGED <<cv2xStatus_, isInitializationDone_, isPostSSRV2XDone_, dataLib,
                   callStatus, processVars, leg, radioVars, modemVars, historyVars>>

\* onDataCallInfoChanged(): notify_all wakes every leg that waits, of either kind.
OnDataCallInfoChanged(k) ==
    /\ runs /\ dataLib = "ready" /\ info[k] # <<>>
    /\ callStatus' = [callStatus EXCEPT ![k] = Head(info[k])]
    /\ info' = [info EXCEPT ![k] = Tail(@)]
    /\ leg' = [t \in Starter |-> [j \in Kind |->
                 IF leg[t][j] = "waiting" THEN AfterWake(callStatus'[j]) ELSE leg[t][j]]]
    /\ Blame("noNews", \E t \in Starter : leg[t][k] = "answered")
    /\ UNCHANGED <<flagVars, dataLib, awaiting, processVars, step, radio, notices, call,
                   modemVars>>

-----------------------------------------------------------------------------
(* The modem.                                                              *)

Connect(k) ==
    /\ runs /\ call[k] = "connecting"
    /\ \/ /\ call' = [call EXCEPT ![k] = "up"] /\ UNCHANGED historyVars
          /\ info' = [info EXCEPT ![k] = Append(@, "CONNECTED")]
       \/ /\ call' = [call EXCEPT ![k] = "none"] /\ Trouble({"noCall"})
          /\ info' = [info EXCEPT ![k] = Append(@, "NO_NET")]
    /\ UNCHANGED <<flagVars, listenVars, processVars, startVars, radio, notices, modemVars>>

\* The modem restarts; its services come back in either order.
ModemFails ==
    /\ runs /\ radio # "down" /\ dataUp
    /\ Troubles(2, {"ssr"}) /\ radio' = "down" /\ dataUp' = FALSE
    /\ Tell(notices, <<"down">>)
    /\ call' = [k \in Kind |-> "none"] /\ info' = [k \in Kind |-> Lost(k)]
    /\ UNCHANGED <<flagVars, listenVars, processVars, startVars, request, available>>

RadioRecovers ==
    /\ runs /\ radio = "down" /\ radio' = "off"
    /\ Tell(notices, <<"up">>) \/ Tell(notices, <<"up", "INACTIVE">>)
    /\ UNCHANGED <<flagVars, listenVars, processVars, startVars, call, info, modemVars, historyVars>>

DataRecovers ==
    /\ runs /\ ~dataUp /\ dataUp' = TRUE /\ available' = (dataLib = "ready")
    /\ UNCHANGED <<flagVars, listenVars, processVars, startVars, radioVars, request, historyVars>>

-----------------------------------------------------------------------------

Leg(t, k) == StartDataCall(t, k) \/ WaitDataCallConnect(t, k)
RadioListener == OnStatusChanged \/ OnServiceUnavailable \/ OnServiceAvailable

TeluxNext ==
    \/ \E t \in Starter : FindProfilesFails(t) \/ FindProfiles(t) \/ Join(t)
                          \/ SetInitializationDone(t)
    \/ \E t \in Starter, k \in Kind : Leg(t, k)
    \/ RadioListener \/ InitDataLibrary \/ DataServiceAvailable \/ RadioBack
    \/ \E k \in Kind : OnDataCallInfoChanged(k) \/ Connect(k)
    \/ ModemFails \/ RadioRecovers \/ DataRecovers \/ \E t \in Asker : ServeStart(t)
=============================================================================
