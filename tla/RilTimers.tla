----------------------------- MODULE RilTimers -----------------------------
(***************************************************************************)
(* The timers of the RIL daemon: timer_list and the wakeup pipe of         *)
(* libril/ril_event.cpp, and in libril/ril.cpp the timed callbacks of the  *)
(* vendor's RIL and the wake timer every unsolicited response adds (in the *)
(* build of services/ril/CMakeLists.txt, with the reference RIL's version  *)
(* 12, its callback does nothing and the timer is only cancelled, fired    *)
(* and freed).  Threads of the vendor's RIL report and ask for callbacks   *)
(* while the event thread fires timers; it reports too, between timers, as *)
(* it does when a client connects or a request makes news.                 *)
(***************************************************************************)
EXTENDS Integers, Sequences, FiniteSets

CONSTANTS
    Vendor,     \* threads of the vendor's RIL
    MaxReports, \* bound: unsolicited responses
    MaxCalls    \* bound: timed callbacks asked for

ASSUME RilTimersAssumption ==
    IsFiniteSet(Vendor) /\ "event" \notin Vendor /\ MaxReports \in Nat /\ MaxCalls \in Nat

Thread == Vendor \cup {"event"}
Timer == 1 .. (MaxReports + MaxCalls)

VARIABLES
    timer_list,     \* timers, the earliest first
    pending_list,   \* timers that fire now
    created,        \* timers so far
    calls,          \* those that are callbacks of the vendor
    freed,          \* timers freed
    s_last_wake_timeout_info,   \* 0 for NULL
    pipe,           \* the wakeup pipe holds bytes
    woken,          \* the event loop has the wakeup event to fire
    blocking,       \* its select() has no timeout
    ev,             \* its place
    job,            \* of each thread: the call it is in
    dead,           \* a NULL pointer was written through
    called,         \* history: callbacks made
    cause           \* history: what made a pointer stale

listVars == <<timer_list, pending_list, created, calls, freed, called>>
loopVars == <<pipe, woken, blocking, ev>>
lastVars == <<s_last_wake_timeout_info, dead, cause>>
vars == <<listVars, loopVars, lastVars, job>>

NoJob == [at |-> "none", what |-> "none", seen |-> 0, timer |-> 0]
Entered(what) == [at |-> "timer", what |-> what, seen |-> 0, timer |-> 0]
At(t, place) == job[t].at = place /\ ~dead
Move(t, place) == job' = [job EXCEPT ![t].at = place]
Return(t) == job' = [job EXCEPT ![t] = NoJob]

\* "lag": a wake timer fired before the thread that added it stored it;
\* "look": the pointer changed between a look at it and the write through it.
Cause == {"lag", "look"}
Blame(c, when) == IF when THEN {c} ELSE {}

Init ==
    /\ timer_list = <<>> /\ pending_list = <<>> /\ created = 0 /\ calls = {}
    /\ freed = {} /\ called = {}
    /\ s_last_wake_timeout_info = 0 /\ dead = FALSE /\ cause = {}
    /\ pipe = TRUE /\ woken = FALSE /\ blocking = FALSE /\ ev = "loop"
    /\ job = [t \in Thread |-> NoJob]

-----------------------------------------------------------------------------
(* RIL_onUnsolicitedResponse() up to sendResponse(), and                   *)
(* RIL_requestTimedCallback().  A thread in a call counts for the bounds.  *)

Free(t) == job[t] = NoJob /\ ~dead /\ (t = "event" => ev = "fire")
InCall(what) == Cardinality({t \in Thread : job[t].what = what /\ job[t].at = "timer"})
Reports == created - Cardinality(calls)

Report(t) ==
    /\ Free(t) /\ Reports + InCall("report") < MaxReports
    /\ job' = [job EXCEPT ![t] = Entered("report")]
    /\ UNCHANGED <<listVars, loopVars, lastVars>>

RequestTimedCallback(t) ==
    /\ Free(t) /\ Cardinality(calls) + InCall("callback") < MaxCalls
    /\ job' = [job EXCEPT ![t] = Entered("callback")]
    /\ UNCHANGED <<listVars, loopVars, lastVars>>

Insert(seq, i, x) == SubSeq(seq, 1, i) \o <<x>> \o SubSeq(seq, i + 1, Len(seq))

\* ril_timer_add().  Wake timers have one delay, so a new one goes behind the
\* others; the delay of a callback is the vendor's.
AddTimer(t) ==
    LET id == created + 1
        wake == job[t].what = "report"
    IN  /\ At(t, "timer")
        /\ \E i \in 0 .. Len(timer_list) :
              /\ wake => \A j \in i + 1 .. Len(timer_list) : timer_list[j] \in calls
              /\ timer_list' = Insert(timer_list, i, id)
        /\ created' = id
        /\ calls' = IF wake THEN calls ELSE calls \cup {id}
        /\ job' = [job EXCEPT ![t].at = "trigger", ![t].timer = id]
        /\ UNCHANGED <<pending_list, freed, called, loopVars, lastVars>>

NoTrigger(t) == UNCHANGED pipe
triggerEvLoop(t) == pipe' = (pipe \/ t # "event")

TimerAdded(t) ==
    /\ At(t, "trigger") /\ triggerEvLoop(t)
    /\ IF job[t].what = "callback" THEN Return(t) ELSE Move(t, "look")
    /\ UNCHANGED <<listVars, woken, blocking, ev, lastVars>>

\* The wake timer before this one, if any, is cancelled ...
LookAtLast(t) ==
    /\ At(t, "look")
    /\ job' = [job EXCEPT ![t].seen = s_last_wake_timeout_info,
                          ![t].at = IF s_last_wake_timeout_info = 0 THEN "store" ELSE "cancel"]
    /\ UNCHANGED <<listVars, loopVars, lastVars>>

\* ... through the pointer, which the build reads again or not.
CancelLast(t) ==
    /\ At(t, "cancel")
    /\ \E target \in {job[t].seen, s_last_wake_timeout_info} :
          dead' = (target = 0)
    /\ cause' = cause \cup Blame("look", job[t].seen # s_last_wake_timeout_info)
    /\ Move(t, "store")
    /\ UNCHANGED <<listVars, loopVars, s_last_wake_timeout_info>>

\* Freed, or past the check of userTimerCallback().
Fired(p) == p \in freed \/ (ev = "free" /\ p = Head(pending_list))

StoreLast(t) ==
    /\ At(t, "store")
    /\ s_last_wake_timeout_info' = job[t].timer
    /\ cause' = cause \cup Blame("lag", Fired(job[t].timer))
    /\ Return(t)
    /\ UNCHANGED <<listVars, loopVars, dead>>

-----------------------------------------------------------------------------
(* ril_event_loop(), userTimerCallback().                                  *)

Event(place) == ev = place /\ job["event"] = NoJob /\ ~dead

\* calcNextTimeout() and the entry of select()
EnterSelect ==
    /\ Event("loop")
    /\ blocking' = (timer_list = <<>>) /\ ev' = "select"
    /\ UNCHANGED <<listVars, pipe, woken, lastVars, job>>

\* What removeFromList() leaves of the timers when n of them expired.
AllStay(n) == timer_list
Remaining(n) == SubSeq(timer_list, n + 1, Len(timer_list))

\* processTimeouts(): time decides how many fire.
LeaveSelect ==
    /\ Event("select")
    /\ \E n \in 0 .. Len(timer_list) :
          /\ pipe \/ (~blocking /\ n > 0)
          /\ pending_list' = SubSeq(timer_list, 1, n)
          /\ timer_list' = Remaining(n)
    /\ woken' = pipe /\ ev' = "fire"
    /\ UNCHANGED <<created, calls, freed, called, pipe, blocking, lastVars, job>>

\* userTimerCallback() ...
NotCleared(p) == s_last_wake_timeout_info
Cleared(p) == IF s_last_wake_timeout_info = p THEN 0 ELSE s_last_wake_timeout_info

FireTimer ==
    /\ Event("fire") /\ pending_list # <<>>
    /\ LET p == Head(pending_list)
       IN  /\ called' = called \cup (calls \cap {p})
           /\ s_last_wake_timeout_info' = Cleared(p)
    /\ ev' = "free"
    /\ UNCHANGED <<timer_list, pending_list, created, calls, freed, pipe, woken, blocking,
                   dead, cause, job>>

\* ... and its free()
FreeTimer ==
    /\ Event("free")
    /\ freed' = freed \cup {Head(pending_list)}
    /\ pending_list' = Tail(pending_list)
    /\ ev' = "fire"
    /\ UNCHANGED <<timer_list, created, calls, called, pipe, woken, blocking, lastVars, job>>

processWakeupCallback ==
    /\ Event("fire") /\ pending_list = <<>> /\ woken
    /\ pipe' = FALSE /\ woken' = FALSE
    /\ UNCHANGED <<listVars, blocking, ev, lastVars, job>>

FirePendingEnds ==
    /\ Event("fire") /\ pending_list = <<>> /\ ~woken
    /\ ev' = "loop"
    /\ UNCHANGED <<listVars, pipe, woken, blocking, lastVars, job>>

-----------------------------------------------------------------------------
EventLoop ==
    \/ EnterSelect \/ LeaveSelect \/ FireTimer \/ FreeTimer
    \/ processWakeupCallback \/ FirePendingEnds

InLibril(t) ==
    AddTimer(t) \/ TimerAdded(t) \/ LookAtLast(t) \/ CancelLast(t) \/ StoreLast(t)

Next ==
    \/ EventLoop
    \/ \E t \in Thread : InLibril(t) \/ Report(t) \/ RequestTimedCallback(t)

Spec == Init /\ [][Next]_vars
        /\ WF_vars(EventLoop)
        /\ \A t \in Thread : WF_vars(InLibril(t))

-----------------------------------------------------------------------------
(* Properties.                                                             *)

\* A timer is in one list at most, once, and not freed.
ListsSound ==
    /\ \A list \in {timer_list, pending_list} : \A i \in DOMAIN list :
          list[i] \notin freed /\ \A j \in DOMAIN list : list[i] = list[j] => i = j
    /\ \A i \in DOMAIN timer_list, j \in DOMAIN pending_list :
          timer_list[i] # pending_list[j]

\* Type correctness, with what the lists promise (addToList, removeFromList).
TypeOK ==
    /\ ListsSound
    /\ timer_list \in Seq(Timer) /\ pending_list \in Seq(Timer)
    /\ created \in 0 .. MaxReports + MaxCalls
    /\ calls \subseteq Timer /\ freed \subseteq Timer /\ called \subseteq calls
    /\ s_last_wake_timeout_info \in 0 .. created
    /\ pipe \in BOOLEAN /\ woken \in BOOLEAN /\ blocking \in BOOLEAN
    /\ ev \in {"loop", "select", "fire", "free"}
    /\ job \in [Thread -> [at : {"none", "timer", "trigger", "look", "cancel", "store"},
                           what : {"none", "report", "callback"},
                           seen : 0 .. created, timer : 0 .. created]]
    /\ dead \in BOOLEAN /\ cause \subseteq Cause

\* Every timer that was added is fired, whatever select() was waiting for when
\* it was added; a callback of the vendor is made before its timer is freed.
TimersFire ==
    \A p \in Timer : created >= p ~> dead \/ (p \in freed /\ (p \in calls => p \in called))

\* The pointer to the last wake timer never dangles, and is not NULL when it is
\* written through, but for the two overlaps nothing in the code excludes.
WakeTimerKnown ==
    (s_last_wake_timeout_info \in freed \/ dead) => cause # {}
=============================================================================
