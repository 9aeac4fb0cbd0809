------------------------------ MODULE ECallApp ------------------------------
(***************************************************************************)
(* The eCall reference application: ECallManager.cpp and TelClient.cpp,    *)
(* with the thermal auto-shutdown mode (ThermShutdown) and the location    *)
(* updates they switch with the call.  The voice session is switched at    *)
(* the same two places and is a module of its own (VoiceSession).          *)
(*                                                                         *)
(* The user's thread triggers or answers a call: it sets the location and  *)
(* the thermal mode up, sends the request and only then                    *)
(* assigns callListener_.  The telephony thread is called back with the    *)
(* responses and with the end of a call, in any order, and clears down.    *)
(* The bounded wait for a first location only delays the request.          *)
(***************************************************************************)
EXTENDS ThermShutdown, FiniteSets

CONSTANTS
    MaxCall,    \* bound: calls in the life of the application
    MaxTry      \* bound: times the user triggers or answers

ASSUME CallAssumption == MaxCall \in Nat /\ MaxTry \in Nat

Call == 1 .. MaxCall
NoCall == 0

VARIABLES
    eCallInprogress_,   \* TelClient
    eCall_,             \* TelClient: the call it follows, or NoCall
    callListener_,      \* TelClient: it has the manager to call back
    phoneId_,           \* ECallManager: 1, or -1 when there is no call
    locListener_,       \* LocationClient: updates are on
    locRefused,         \* history: the location service refused a command
    user,               \* the user's thread
    tries,              \* times the user triggered or answered
    tel,                \* the telephony thread
    nulls,              \* it ends with eCall_ = nullptr
    calls,              \* modem: the state of each call
    pending,            \* callbacks the telephony thread has yet to run
    mine,               \* history: calls placed or answered by the application
    over,               \* history: calls whose end was handled
    cause               \* history: what may make the application lose a call

locVars == <<locListener_, locRefused>>
telVars == <<eCallInprogress_, eCall_, callListener_, phoneId_, locVars, tel, nulls>>
modemVars == <<calls, pending>>
vars == <<thermVars, telVars, user, tries, modemVars, mine, over, cause>>

CallState == {"free", "dialing", "incoming", "answering", "alive", "ended"}
Callback == [kind : {"make", "answer"}, call : Call, ok : BOOLEAN]
            \cup [kind : {"end"}, call : Call, ok : {TRUE}]
Cause == {"early", "late", "endedFirst", "nulled"}

Init ==
    /\ ThermInit
    /\ eCallInprogress_ = FALSE /\ eCall_ = NoCall /\ callListener_ = FALSE
    /\ phoneId_ = -1 /\ locListener_ = FALSE /\ locRefused = FALSE
    /\ user = "idle" /\ tries = 0 /\ tel = "idle" /\ nulls = FALSE
    /\ calls = [c \in Call |-> "free"] /\ pending = {}
    /\ mine = {} /\ over = {} /\ cause = {}

Blame(c, when) == IF when THEN {c} ELSE {}

\* The next call to be made, if the bound allows one.
Unused == {c \in Call : calls[c] = "free" /\ \A d \in Call : calls[d] = "free" => c <= d}
Incoming == {c \in Call : calls[c] = "incoming"}

-----------------------------------------------------------------------------
(* ECallManager.                                                           *)

\* startLocUpdates() and stopLocUpdates(): nothing changes when they fail.
Locate(on) == \/ locListener_' = on /\ UNCHANGED locRefused
              \/ locRefused' = TRUE /\ UNCHANGED locListener_

\* setup(): location and thermal mode; phoneId_ was assigned before.
Setup ==
    /\ Locate(TRUE)
    /\ DisableAutoShutdown
    /\ phoneId_' = 1

\* cleanup(), also called as onCallDisconnect().
LocationAfterCall == FALSE

Cleanup ==
    /\ Locate(LocationAfterCall)
    /\ EnableAutoShutdown
    /\ phoneId_' = -1

\* A call is refused while another is in progress.
MayCall == ~eCallInprogress_

\* triggerECall() and answerCall(), up to the request.
Prepare(next) ==
    /\ user = "idle" /\ MayCall
    /\ tries < MaxTry /\ tries' = tries + 1
    /\ Setup /\ user' = next
    /\ UNCHANGED <<eCallInprogress_, eCall_, callListener_, tel, nulls, modemVars,
                   mine, over, cause>>

TriggerECall == Unused # {} /\ Prepare("calling")
AnswerCall == Prepare("answering")

-----------------------------------------------------------------------------
(* TelClient, on the user's thread.                                        *)

\* The request was refused, or there is no call to answer: the progress state
\* is FALSE again and the manager cleans up.
RequestFails ==
    /\ user \in {"calling", "answering"}
    /\ Cleanup /\ user' = "idle"
    /\ eCallInprogress_' = FALSE
    /\ eCall_' = IF user = "answering" /\ Incoming # {} THEN NoCall ELSE eCall_
    /\ UNCHANGED <<callListener_, tel, nulls, modemVars, mine, over, cause, tries>>

\* startECall(), up to the request.
StartECall(c) ==
    /\ user = "calling" /\ c \in Unused
    /\ eCallInprogress_' = TRUE
    /\ calls' = [calls EXCEPT ![c] = "dialing"]
    /\ user' = "listening" /\ mine' = mine \cup {c}
    /\ UNCHANGED <<thermVars, eCall_, callListener_, phoneId_,
                   locVars, tel, nulls, pending, over, cause, tries>>

\* answer(), up to the request.
Answer(c) ==
    /\ user = "answering" /\ c \in Incoming
    /\ eCall_' = c /\ eCallInprogress_' = TRUE
    /\ calls' = [calls EXCEPT ![c] = "answering"]
    /\ user' = "listening" /\ mine' = mine \cup {c}
    /\ cause' = IF tel # "idle" THEN cause \cup {"nulled"} ELSE cause
    /\ UNCHANGED <<thermVars, callListener_, phoneId_, locVars, tel,
                   nulls, pending, over, tries>>

\* callListener_ = callListener, after either request.
AssignListener ==
    /\ user = "listening" /\ user' = "idle"
    /\ callListener_' = TRUE
    /\ UNCHANGED <<thermVars, eCallInprogress_, eCall_, phoneId_,
                   locVars, tel, nulls, modemVars, mine, over, cause, tries>>

-----------------------------------------------------------------------------
(* TelClient, on the telephony thread.                                     *)

\* The manager is called back, if it is known, and forgotten.
ClearDownUncalled ==
    callListener_' = FALSE /\ UNCHANGED <<thermVars, locVars, phoneId_>>
ClearDown ==
    /\ callListener_' = FALSE
    /\ IF callListener_ THEN Cleanup
       ELSE UNCHANGED <<thermVars, locVars, phoneId_>>

\* What the history notes when callback b is run.
Noted(b) ==
    Blame("early", ~callListener_ /\ user = "listening")
    \cup Blame("late", b.kind = "answer" /\ b.call \in over)

\* makeCallResponse() and AnswerCommandCallback on failure, onCallInfoChange()
\* for the end of eCall_: first the manager.
ClearsDownFailed(b) == b.kind # "end" /\ ~b.ok
ClearsDown(b) == IF b.kind = "end" THEN eCall_ = b.call ELSE ~b.ok

RunClearDown(b) ==
    /\ tel = "idle" /\ b \in pending /\ ClearsDown(b)
    /\ ClearDown
    /\ tel' = "clearing" /\ nulls' = (b.kind # "make")
    /\ pending' = pending \ {b}
    /\ cause' = cause \cup Noted(b)
    /\ over' = IF b.kind = "end" THEN over \cup {b.call} ELSE over
    /\ UNCHANGED <<eCallInprogress_, eCall_, user, tries, calls, mine>>

\* setECallProgressState(false) ...
ProgressAfterCall == FALSE

ClearProgress ==
    /\ tel = "clearing" /\ eCallInprogress_' = ProgressAfterCall
    /\ tel' = IF nulls THEN "nulling" ELSE "idle"
    /\ UNCHANGED <<thermVars, eCall_, callListener_, phoneId_, locVars,
                   nulls, user, modemVars, mine, over, cause, tries>>

\* ... and eCall_ = nullptr.
ClearCall ==
    /\ tel = "nulling" /\ eCall_' = NoCall /\ tel' = "idle" /\ nulls' = FALSE
    /\ UNCHANGED <<thermVars, eCallInprogress_, callListener_, phoneId_,
                   locVars, user, modemVars, mine, over, cause, tries>>

\* The callbacks that clear nothing down: success, or the end of another call.
FollowedCall(b) == IF b.kind = "make" THEN b.call ELSE eCall_

RunPlain(b) ==
    /\ tel = "idle" /\ b \in pending /\ ~ClearsDown(b)
    /\ eCall_' = FollowedCall(b)
    /\ pending' = pending \ {b}
    /\ cause' = cause \cup Blame("endedFirst", b.kind = "end" /\ b.call \in mine \ {eCall_})
    /\ over' = IF b.kind = "end" THEN over \cup {b.call} ELSE over
    /\ UNCHANGED <<thermVars, eCallInprogress_, callListener_, phoneId_,
                   locVars, tel, nulls, user, tries, calls, mine>>

-----------------------------------------------------------------------------
(* The modem.                                                              *)

Modem(c, state, news) ==
    /\ calls' = [calls EXCEPT ![c] = state] /\ pending' = pending \cup news
    /\ UNCHANGED <<thermVars, telVars, user, mine, over, cause, tries>>

Rings(c) == c \in Unused /\ Modem(c, "incoming", {})

\* The response to makeECall() or to answer().
Responds(c, ok) ==
    \/ /\ calls[c] = "dialing"
       /\ Modem(c, IF ok THEN "alive" ELSE "ended", {[kind |-> "make", call |-> c, ok |-> ok]})
    \/ /\ calls[c] = "answering"
       /\ Modem(c, IF ok THEN "alive" ELSE "incoming", {[kind |-> "answer", call |-> c, ok |-> ok]})

\* A call ends: the other party hangs up, or hangup() asked for it.
Ends(c) ==
    /\ calls[c] \in {"incoming", "answering", "alive"}
    /\ Modem(c, "ended", {[kind |-> "end", call |-> c, ok |-> TRUE]}
         \cup (IF calls[c] = "answering" THEN {[kind |-> "answer", call |-> c, ok |-> FALSE]}
               ELSE {}))

ThermStep == /\ ThermListener
             /\ UNCHANGED <<telVars, user, modemVars, mine, over, cause, tries>>
ThermService == /\ Reenable
                /\ UNCHANGED <<telVars, user, modemVars, mine, over, cause, tries>>

UserStep == \/ RequestFails \/ AssignListener
            \/ \E c \in Call : StartECall(c) \/ Answer(c)
TelStep == \/ ClearProgress \/ ClearCall
           \/ \E b \in pending : RunClearDown(b) \/ RunPlain(b)
ModemStep == \E c \in Call : \/ Rings(c) \/ Ends(c)
                             \/ \E ok \in BOOLEAN : Responds(c, ok)

Next == \/ TriggerECall \/ AnswerCall \/ UserStep \/ TelStep \/ ModemStep
        \/ ThermStep \/ ThermService

\* Threads run, and services answer.
Fairness == /\ WF_vars(UserStep) /\ WF_vars(TelStep)
            /\ WF_vars(ThermStep)

Spec == Init /\ [][Next]_vars /\ Fairness

-----------------------------------------------------------------------------
(* Properties.                                                             *)

\* The state keeps its type: eCall_ is a call of the list or none, and phoneId_ a
\* slot of the phone list or the value before a call.
TypeOK ==
    /\ ThermTypeOK
    /\ eCallInprogress_ \in BOOLEAN /\ eCall_ \in Call \cup {NoCall}
    /\ callListener_ \in BOOLEAN /\ phoneId_ \in {-1, 1} /\ locVars \in BOOLEAN \X BOOLEAN
    /\ user \in {"idle", "calling", "answering", "listening"}
    /\ tries \in 0 .. MaxTry
    /\ tel \in {"idle", "clearing", "nulling"} /\ nulls \in BOOLEAN
    /\ calls \in [Call -> CallState] /\ pending \in SUBSET Callback
    /\ mine \in SUBSET Call /\ over \in SUBSET Call /\ cause \in SUBSET Cause

Live(c) == c \in mine /\ calls[c] = "alive"
Quiet == /\ user = "idle" /\ tel = "idle" /\ pending = {}
         /\ \A c \in Call : calls[c] \notin {"dialing", "answering"}

\* While a call of the application is up, thermal shutdown is not allowed, its
\* phone is known and location updates are on, unless a callback was run too
\* early, too late or out of order, or a command was refused.
CallGuarded ==
    cause = {} /\ (\E c \in Call : Live(c)) =>
      /\ eCallInprogress_ /\ phoneId_ = 1 /\ (locListener_ \/ locRefused)
      /\ "refused" \notin thermCause => ~shutdownAllowed_

\* Once every call is over and every callback has run, nothing of the call is
\* left: a new call can be made, and thermal shutdown is allowed.
ClearedDown ==
    Quiet /\ cause = {} /\ ~(\E c \in Call : Live(c)) =>
      /\ ~eCallInprogress_ /\ ~callListener_ /\ eCall_ = NoCall
      /\ (~locListener_ \/ locRefused) /\ phoneId_ = -1 /\ shutdownAllowed_

\* The application never has two calls of its own at a time.
OneCall == cause = {} => Cardinality({c \in Call : Live(c)}) <= 1

\* The service's auto-shutdown mode is disabled exactly during a call, unless a
\* command was refused or the listener's command overtook the end of a call.
ModeFollowsCall ==
    Quiet /\ cause = {} /\ thermCause = {} /\ ~notice /\ thermPc = "idle"
      => (mode = "disabled" <=> \E c \in Call : Live(c))

\* What the application has switched follows its calls, of which there is one at a
\* time: during the call, after it, and at the thermal service. The variables keep
\* their type.
CallFollowed == TypeOK /\ OneCall /\ CallGuarded /\ ClearedDown /\ ModeFollowsCall

\* When the service enables the mode during a call, it is disabled again.
ShutdownHeldOff ==
    (mode = "enabled" /\ cause = {} /\ thermCause = {} /\ \E c \in Call : Live(c))
      ~> (mode = "disabled" \/ cause # {} \/ thermCause # {} \/ ~\E c \in Call : Live(c))

\* The end of the call the application follows is always noticed.
EndNoticed == \A c \in Call : (eCall_ = c /\ calls[c] = "ended" /\ cause = {})
                                ~> (eCall_ # c \/ cause # {})

=============================================================================
