-------------------------- MODULE RilTimers_proofs --------------------------
(***************************************************************************)
(* Proofs about RilTimers, for every finite set of threads and all bounds: *)
(* its type invariant with the soundness of the two timer lists, and that  *)
(* the pointer to the last wake timer goes wrong in two overlaps only.     *)
(***************************************************************************)
EXTENDS RilTimers, FiniteSetTheorems, SequenceTheorems, TLAPS

Ids == 1 .. created
Place == {"none", "timer", "trigger", "look", "cancel", "store"}
What == {"none", "report", "callback"}

\* The lists hold timers that were added, each once and none that was freed.
Lists ==
    /\ created \in Nat
    /\ timer_list \in Seq(Ids) /\ pending_list \in Seq(Ids)
    /\ calls \subseteq Ids /\ freed \subseteq Ids /\ called \subseteq calls
    /\ ListsSound

\* Where the event loop is, and what it has in hand there.
Loop ==
    /\ pipe \in BOOLEAN /\ woken \in BOOLEAN /\ blocking \in BOOLEAN
    /\ ev \in {"loop", "select", "fire", "free"}
    /\ ev \in {"loop", "select"} => pending_list = <<>>
    /\ ev = "free" => pending_list # <<>>

\* What each thread in a call knows.
Jobs ==
    /\ job \in [Thread -> [at : Place, what : What, seen : 0 .. created, timer : 0 .. created]]
    /\ \A t \in Thread :
          /\ job[t].at = "timer" => job[t].what \in {"report", "callback"}
          /\ job[t].at = "cancel" => job[t].seen # 0

\* The threads in a call have their share of the bounds.
InTimer(what) == {t \in Thread : job[t].what = what /\ job[t].at = "timer"}
Bounded ==
    /\ Reports + Cardinality(InTimer("report")) <= MaxReports
    /\ Cardinality(calls) + Cardinality(InTimer("callback")) <= MaxCalls

\* The pointer: it is good, and a thread in a call will write through a good
\* one, unless an overlap was noted.
Pointer ==
    /\ s_last_wake_timeout_info \in 0 .. created
    /\ dead \in BOOLEAN /\ cause \subseteq Cause
    /\ (\/ s_last_wake_timeout_info \in freed
        \/ ev = "free" /\ s_last_wake_timeout_info = Head(pending_list)
        \/ dead) => cause # {}

IInv == Lists /\ Loop /\ Jobs /\ Bounded /\ Pointer

-----------------------------------------------------------------------------
(* The bounds in the terms of the proof.                                   *)

LEMMA InCallIsCardinality == \A what : InCall(what) = Cardinality(InTimer(what))
  BY DEF InCall, InTimer

LEMMA ThreadsFinite == IsFiniteSet(Thread)
  BY RilTimersAssumption, FS_AddElement DEF RilTimersAssumption, Thread

\* Threads of one sort that are about to add a timer, before and after a step.
LEMMA InTimerFinite == \A what : IsFiniteSet(InTimer(what)) /\ Cardinality(InTimer(what)) \in Nat
<1> TAKE what
<1>1. InTimer(what) \in SUBSET Thread
  BY DEF InTimer
<1> QED
  BY <1>1, ThreadsFinite, FS_Subset, FS_CardinalityType

LEMMA CallsFinite ==
    ASSUME Lists PROVE IsFiniteSet(calls) /\ Cardinality(calls) \in Nat
<1>1. IsFiniteSet(Ids)
  BY FS_Interval DEF Lists, Ids
<1> QED
  BY <1>1, FS_Subset, FS_CardinalityType DEF Lists

\* There are never more timers than the bounds allow.
LEMMA CreatedBounded ==
    ASSUME Lists, Bounded PROVE created \in 0 .. MaxReports + MaxCalls
  BY InTimerFinite, CallsFinite, RilTimersAssumption
     DEF Lists, Bounded, Reports, RilTimersAssumption

LEMMA IInvImpliesTypeOK == IInv => TypeOK
<1> SUFFICES ASSUME IInv PROVE TypeOK
  OBVIOUS
<1>1. created \in 0 .. MaxReports + MaxCalls
  BY CreatedBounded DEF IInv
<1>2. Ids \subseteq Timer
  BY <1>1, RilTimersAssumption DEF Ids, Timer, RilTimersAssumption
<1>3. timer_list \in Seq(Timer) /\ pending_list \in Seq(Timer)
  BY <1>2, SeqMonotonic DEF IInv, Lists
<1>4. job \in [Thread -> [at : {"none", "timer", "trigger", "look", "cancel", "store"},
                          what : {"none", "report", "callback"},
                          seen : 0 .. created, timer : 0 .. created]]
  BY DEF IInv, Jobs, Place, What
<1> QED
  BY <1>1, <1>2, <1>3, <1>4 DEF IInv, Lists, Loop, Pointer, TypeOK

LEMMA IInvImpliesWakeTimerKnown == IInv => WakeTimerKnown
  BY DEF IInv, Pointer, WakeTimerKnown

-----------------------------------------------------------------------------
LEMMA InitIInv == Init => IInv
<1> SUFFICES ASSUME Init PROVE IInv
  OBVIOUS
<1>1. Lists
  BY DEF Init, Lists, ListsSound, Ids
<1>2. Loop
  BY DEF Init, Loop
<1>3. Jobs
  BY DEF Init, Jobs, NoJob, Place, What
<1>4. Bounded
  <2>1. Cardinality(InTimer("report")) = 0 /\ Cardinality(InTimer("callback")) = 0
    <3>1. \A what : InTimer(what) = {}
      BY DEF Init, InTimer, NoJob
    <3> QED
      BY <3>1, FS_EmptySet
  <2>2. created = 0 /\ Cardinality(calls) = 0
    BY FS_EmptySet DEF Init
  <2> QED
    BY <2>1, <2>2, RilTimersAssumption DEF Bounded, Reports, RilTimersAssumption
<1>5. Pointer
  <2>1. ~dead /\ dead \in BOOLEAN
    BY DEF Init
  <2> QED
    BY <2>1 DEF Init, Pointer, Cause
<1> QED
  BY <1>1, <1>2, <1>3, <1>4, <1>5 DEF IInv

-----------------------------------------------------------------------------
(* What a step leaves alone stays as it was.                               *)

LEMMA ListsKept == Lists /\ UNCHANGED listVars => Lists'
  BY DEF Lists, ListsSound, Ids, listVars

LEMMA LoopKept == Loop /\ UNCHANGED <<pending_list, loopVars>> => Loop'
  BY DEF Loop, loopVars

LEMMA PointerKept ==
    Pointer /\ UNCHANGED <<created, freed, ev, pending_list, lastVars>> => Pointer'
  BY DEF Pointer, lastVars

\* No thread comes to be about to add a timer, or ceases to be.
LEMMA BoundedKept ==
    ASSUME Bounded, UNCHANGED <<created, calls>>,
           \A u \in Thread : /\ job'[u].at = "timer" <=> job[u].at = "timer"
                             /\ job[u].at = "timer" => job'[u].what = job[u].what
    PROVE  Bounded'
<1>1. \A what : InTimer(what)' = InTimer(what)
  BY DEF InTimer
<1> QED
  BY <1>1 DEF Bounded, Reports

-----------------------------------------------------------------------------
(* The threads that report and ask for callbacks.                          *)

LEMMA ReportStep ==
    ASSUME IInv, NEW t \in Thread, Report(t) \/ RequestTimedCallback(t) PROVE IInv'
<1> PICK w \in {"report", "callback"} :
      /\ Free(t)
      /\ job' = [job EXCEPT ![t] = Entered(w)]
      /\ UNCHANGED <<listVars, loopVars, lastVars>>
      /\ w = "report" => Reports + InCall("report") < MaxReports
      /\ w = "callback" => Cardinality(calls) + InCall("callback") < MaxCalls
  BY DEF Report, RequestTimedCallback
<1>1. job[t] = NoJob
  BY DEF Free
<1>2. Lists' /\ Loop' /\ Pointer'
  BY ListsKept, LoopKept, PointerKept DEF IInv, listVars, loopVars
<1>3. Jobs'
  <2>1. Entered(w) \in [at : Place, what : What, seen : 0 .. created, timer : 0 .. created]
    BY DEF Entered, Place, What, IInv, Lists
  <2> QED
    BY <2>1 DEF IInv, Jobs, Entered, listVars
<1>4. Bounded'
  <2>1. job[t].at # "timer"
    BY <1>1 DEF NoJob
  <2>2. InTimer(w)' = InTimer(w) \cup {t} /\ t \notin InTimer(w)
    BY <2>1 DEF InTimer, Entered, IInv, Jobs
  <2>3. \A what : what # w => InTimer(what)' = InTimer(what)
    BY <2>1 DEF InTimer, Entered, IInv, Jobs
  <2>4. Cardinality(InTimer(w)') = Cardinality(InTimer(w)) + 1
    BY <2>2, InTimerFinite, FS_AddElement
  <2>5. UNCHANGED <<created, calls>>
    BY DEF listVars
  <2>6. Cardinality(calls) \in Nat /\ created \in Nat
    BY CallsFinite DEF IInv, Lists
  <2>7. CASE w = "report"
    BY <2>3, <2>4, <2>5, <2>6, <2>7, InTimerFinite, InCallIsCardinality, RilTimersAssumption
       DEF IInv, Bounded, Reports, RilTimersAssumption
  <2>8. CASE w = "callback"
    BY <2>3, <2>4, <2>5, <2>6, <2>8, InTimerFinite, InCallIsCardinality, RilTimersAssumption
       DEF IInv, Bounded, Reports, RilTimersAssumption
  <2> QED
    BY <2>7, <2>8
<1> QED
  BY <1>2, <1>3, <1>4 DEF IInv

\* Where the elements of three sequences stand in their concatenation.
LEMMA ConcatThree ==
    ASSUME NEW S, NEW a \in Seq(S), NEW b \in Seq(S), NEW c \in Seq(S)
    PROVE  /\ a \o b \o c \in Seq(S) /\ Len(a \o b \o c) = Len(a) + Len(b) + Len(c)
           /\ \A j \in 1 .. Len(a) + Len(b) + Len(c) :
                 (a \o b \o c)[j] = IF j <= Len(a) THEN a[j]
                                    ELSE IF j <= Len(a) + Len(b) THEN b[j - Len(a)]
                                    ELSE c[j - (Len(a) + Len(b))]
<1>1. /\ a \o b \in Seq(S) /\ Len(a \o b) = Len(a) + Len(b)
      /\ \A j \in 1 .. Len(a) + Len(b) :
            (a \o b)[j] = IF j <= Len(a) THEN a[j] ELSE b[j - Len(a)]
  BY ConcatProperties
<1>2. \A d \in Seq(S) : /\ d \o c \in Seq(S) /\ Len(d \o c) = Len(d) + Len(c)
                        /\ \A j \in 1 .. Len(d) + Len(c) :
                              (d \o c)[j] = IF j <= Len(d) THEN d[j] ELSE c[j - Len(d)]
  BY ConcatProperties
<1>3. Len(a) \in Nat /\ Len(b) \in Nat /\ Len(c) \in Nat
  OBVIOUS
<1>4. PICK d \in Seq(S) : d = a \o b
  BY <1>1
<1> QED
  BY <1>1, <1>2, <1>3, <1>4

\* What is left of a sequence without its first n elements.
LEMMA SuffixProperties ==
    ASSUME NEW S, NEW seq \in Seq(S), NEW n \in 0 .. Len(seq)
    PROVE  /\ SubSeq(seq, n + 1, Len(seq)) \in Seq(S)
           /\ Len(SubSeq(seq, n + 1, Len(seq))) = Len(seq) - n
           /\ \A j \in 1 .. Len(seq) - n : SubSeq(seq, n + 1, Len(seq))[j] = seq[j + n]
<1>1. Len(seq) \in Nat
  OBVIOUS
<1> QED
  BY <1>1, SubSeqProperties, ElementOfSeq

\* What stands where once x is put behind the first i elements.
LEMMA InsertProperties ==
    ASSUME NEW S, NEW seq \in Seq(S), NEW x \in S, NEW i \in 0 .. Len(seq)
    PROVE  /\ Insert(seq, i, x) \in Seq(S)
           /\ Len(Insert(seq, i, x)) = Len(seq) + 1
           /\ \A j \in 1 .. Len(seq) + 1 :
                 Insert(seq, i, x)[j] = IF j <= i THEN seq[j]
                                        ELSE IF j = i + 1 THEN x ELSE seq[j - 1]
<1>1. Len(seq) \in Nat
  OBVIOUS
<1>2. PICK front \in Seq(S) :
        /\ front = SubSeq(seq, 1, i) /\ Len(front) = i
        /\ \A j \in 1 .. i : front[j] = seq[j]
  <2>1. /\ SubSeq(seq, 1, i) \in Seq(S) /\ Len(SubSeq(seq, 1, i)) = i
        /\ \A j \in 1 .. i : SubSeq(seq, 1, i)[j] = seq[j]
    BY <1>1, SubSeqProperties, ElementOfSeq
  <2> QED
    BY <2>1
<1>3. PICK back \in Seq(S) :
        /\ back = SubSeq(seq, i + 1, Len(seq)) /\ Len(back) = Len(seq) - i
        /\ \A j \in 1 .. Len(seq) - i : back[j] = seq[j + i]
  <2> DEFINE rest == SubSeq(seq, i + 1, Len(seq))
  <2>1. /\ rest \in Seq(S) /\ Len(rest) = Len(seq) - i
        /\ \A j \in 1 .. Len(seq) - i : rest[j] = seq[j + i]
    BY SuffixProperties
  <2> QED
    BY <2>1
<1>4. PICK one \in Seq(S) : one = <<x>> /\ Len(one) = 1 /\ one[1] = x
  <2>1. <<x>> \in Seq(S) /\ Len(<<x>>) = 1 /\ <<x>>[1] = x
    OBVIOUS
  <2> QED
    BY <2>1
<1>5. PICK all \in Seq(S) :
        /\ all = Insert(seq, i, x) /\ Len(all) = Len(seq) + 1
        /\ \A j \in 1 .. Len(seq) + 1 :
              all[j] = IF j <= i THEN front[j]
                       ELSE IF j <= i + 1 THEN one[j - i] ELSE back[j - (i + 1)]
  <2>1. Insert(seq, i, x) = front \o one \o back
    BY <1>2, <1>3, <1>4 DEF Insert
  <2>2. Len(front) + Len(one) + Len(back) = Len(seq) + 1 /\ Len(front) + Len(one) = i + 1
    <3>1. Len(front) = i /\ Len(one) = 1 /\ Len(back) = Len(seq) - i
      BY <1>2, <1>3, <1>4
    <3> QED
      BY <1>1, <3>1
  <2>3. /\ front \o one \o back \in Seq(S) /\ Len(front \o one \o back) = Len(seq) + 1
        /\ \A j \in 1 .. Len(seq) + 1 :
              (front \o one \o back)[j] = IF j <= i THEN front[j]
                       ELSE IF j <= i + 1 THEN one[j - i] ELSE back[j - (i + 1)]
    <3>1. /\ front \o one \o back \in Seq(S)
          /\ Len(front \o one \o back) = Len(front) + Len(one) + Len(back)
          /\ \A j \in 1 .. Len(front) + Len(one) + Len(back) :
                (front \o one \o back)[j] =
                  IF j <= Len(front) THEN front[j]
                  ELSE IF j <= Len(front) + Len(one) THEN one[j - Len(front)]
                  ELSE back[j - (Len(front) + Len(one))]
      BY ConcatThree
    <3> QED
      BY <1>2, <2>2, <3>1
  <2> QED
    BY <2>1, <2>3
<1>6. ASSUME NEW j \in 1 .. Len(seq) + 1
      PROVE  all[j] = IF j <= i THEN seq[j] ELSE IF j = i + 1 THEN x ELSE seq[j - 1]
  <2>1. CASE j <= i
    BY <1>1, <1>2, <1>5, <2>1
  <2>2. CASE j = i + 1
    BY <1>1, <1>4, <1>5, <2>2
  <2>3. CASE j > i + 1
    <3>1. j - (i + 1) \in 1 .. Len(seq) - i /\ (j - (i + 1)) + i = j - 1
      BY <1>1, <2>3
    <3> QED
      BY <1>1, <1>3, <1>5, <2>3, <3>1
  <2> QED
    BY <1>1, <2>1, <2>2, <2>3
<1> QED
  BY <1>5, <1>6

LEMMA AddTimerStep ==
    ASSUME IInv, NEW t \in Thread, AddTimer(t) PROVE IInv'
<1> DEFINE id == created + 1
<1>0. PICK w \in {"report", "callback"} : job[t].what = w
  BY DEF AddTimer, At, IInv, Jobs
<1>1. /\ job[t].at = "timer" /\ created \in Nat
      /\ job \in [Thread -> [at : Place, what : What, seen : 0 .. created, timer : 0 .. created]]
      /\ created' = id
  BY DEF AddTimer, At, IInv, Jobs, Lists
<1>2. Ids' = Ids \cup {id} /\ id \notin Ids
  BY <1>1 DEF Ids
<1>3. Lists'
  <2>1. timer_list \in Seq(Ids') /\ pending_list \in Seq(Ids')
    BY <1>2, SeqMonotonic DEF IInv, Lists
  <2>2. PICK i \in 0 .. Len(timer_list) : timer_list' = Insert(timer_list, i, id)
    BY DEF AddTimer
  <2>3. /\ timer_list' \in Seq(Ids') /\ Len(timer_list') = Len(timer_list) + 1
        /\ \A j \in 1 .. Len(timer_list) + 1 :
              timer_list'[j] = IF j <= i THEN timer_list[j]
                               ELSE IF j = i + 1 THEN id ELSE timer_list[j - 1]
    <3>1. id \in Ids'
      BY <1>2
    <3>2. /\ Insert(timer_list, i, id) \in Seq(Ids')
          /\ Len(Insert(timer_list, i, id)) = Len(timer_list) + 1
          /\ \A j \in 1 .. Len(timer_list) + 1 : Insert(timer_list, i, id)[j] =
                IF j <= i THEN timer_list[j] ELSE IF j = i + 1 THEN id ELSE timer_list[j - 1]
      BY <2>1, <3>1, InsertProperties
    <3> QED
      BY <2>2, <3>2
  <2>4. calls' \subseteq Ids' /\ freed' \subseteq Ids' /\ called' \subseteq calls'
    BY <1>2 DEF AddTimer, IInv, Lists
  <2>5. /\ \A k \in DOMAIN timer_list : timer_list[k] \in Ids
        /\ \A k \in DOMAIN pending_list : pending_list[k] \in Ids
    BY DEF IInv, Lists
  <2>6. UNCHANGED <<freed, pending_list>>
    BY DEF AddTimer
  <2>7. ListsSound'
    <3>1. /\ Len(timer_list) \in Nat /\ DOMAIN timer_list = 1 .. Len(timer_list)
          /\ DOMAIN timer_list' = 1 .. Len(timer_list) + 1
      BY <2>1, <2>3, LenProperties
    <3>2. ASSUME NEW j \in DOMAIN timer_list'
          PROVE  \/ j = i + 1 /\ timer_list'[j] = id
                 \/ \E k \in DOMAIN timer_list :
                       timer_list'[j] = timer_list[k] /\ j = IF k <= i THEN k ELSE k + 1
      <4>1. CASE j <= i
        BY <2>3, <3>1, <4>1
      <4>2. CASE j = i + 1
        BY <2>3, <3>1, <4>2
      <4>3. CASE j > i + 1
        <5>1. j - 1 \in DOMAIN timer_list /\ timer_list'[j] = timer_list[j - 1]
          BY <2>3, <3>1, <4>3
        <5> QED
          BY <3>1, <4>3, <5>1
      <4> QED
        BY <3>1, <4>1, <4>2, <4>3
    <3>3. ASSUME NEW j \in DOMAIN timer_list'
          PROVE  /\ timer_list'[j] \notin freed
                 /\ \A k \in DOMAIN timer_list' : timer_list'[j] = timer_list'[k] => j = k
                 /\ \A k \in DOMAIN pending_list : timer_list'[j] # pending_list[k]
      <4>1. id \notin freed
        BY <1>2 DEF IInv, Lists
      <4> QED
        BY <1>2, <2>5, <3>2, <4>1 DEF IInv, Lists, ListsSound
    <3>4. \A j \in DOMAIN pending_list : /\ pending_list[j] \notin freed
             /\ \A k \in DOMAIN pending_list : pending_list[j] = pending_list[k] => j = k
      BY DEF IInv, Lists, ListsSound
    <3> QED
      BY <2>6, <3>3, <3>4 DEF ListsSound
  <2> QED
    BY <1>1, <2>1, <2>3, <2>4, <2>6, <2>7 DEF Lists
<1>4. Loop'
  BY LoopKept DEF AddTimer, IInv
<1>5. Jobs'
  <2>1. /\ job' = [job EXCEPT ![t] = [job[t] EXCEPT !.at = "trigger", !.timer = id]]
        /\ \A u \in Thread : job[u] \in [at : Place, what : What, seen : 0 .. id, timer : 0 .. id]
    BY <1>1 DEF AddTimer
  <2>2. /\ job'[t] \in [at : Place, what : What, seen : 0 .. id, timer : 0 .. id]
        /\ job'[t].at = "trigger"
    <3>1. job'[t] = [job[t] EXCEPT !.at = "trigger", !.timer = id]
      BY <1>1, <2>1
    <3>2. "trigger" \in Place /\ id \in 0 .. id
      BY <1>1 DEF Place
    <3>3. [job[t] EXCEPT !.at = "trigger", !.timer = id]
             \in [at : Place, what : What, seen : 0 .. id, timer : 0 .. id]
      <4>1. job[t] \in [at : Place, what : What, seen : 0 .. id, timer : 0 .. id]
        BY <2>1
      <4> QED
        BY <3>2, <4>1
    <3> QED
      BY <1>1, <3>1, <3>3
  <2> QED
    BY <1>1, <2>1, <2>2 DEF IInv, Jobs
<1>6. Bounded'
  <2>1. Cardinality(calls)' = Cardinality(calls) + (IF w = "callback" THEN 1 ELSE 0)
    <3>1. id \notin calls
      BY <1>2 DEF IInv, Lists
    <3>2. calls' = IF w = "callback" THEN calls \cup {id} ELSE calls
      BY <1>0, <1>1 DEF AddTimer
    <3>3. IsFiniteSet(calls) /\ Cardinality(calls) \in Nat
      BY CallsFinite DEF IInv
    <3>4. Cardinality(calls \cup {id}) = Cardinality(calls) + 1
      BY <3>1, <3>3, FS_AddElement
    <3> QED
      BY <3>2, <3>3, <3>4
  <2>2. /\ InTimer(w)' = InTimer(w) \ {t} /\ t \in InTimer(w)
        /\ \A what : what # w => InTimer(what)' = InTimer(what)
    <3>1. \A u \in Thread : u # t => job'[u] = job[u]
      BY <1>1 DEF AddTimer
    <3>2. job'[t].at = "trigger" /\ job'[t].what = w
      BY <1>0, <1>1 DEF AddTimer
    <3> QED
      BY <1>0, <1>1, <3>1, <3>2 DEF InTimer
  <2>3. Cardinality(InTimer(w)') = Cardinality(InTimer(w)) - 1
    BY <2>2, InTimerFinite, FS_RemoveElement
  <2>4. Cardinality(calls) \in Nat
    BY CallsFinite DEF IInv
  <2>5. /\ Cardinality(InTimer("report")) \in Nat
        /\ Cardinality(InTimer("callback")) \in Nat
    BY InTimerFinite
  <2>6. CASE w = "report"
    <3>1. /\ Cardinality(InTimer("report")') = Cardinality(InTimer("report")) - 1
          /\ Cardinality(InTimer("callback")') = Cardinality(InTimer("callback"))
          /\ Cardinality(calls)' = Cardinality(calls)
      <4>1. w # "callback"
        BY <2>6
      <4>2. Cardinality(calls)' = Cardinality(calls)
        BY <2>1, <2>4, <4>1
      <4>3. InTimer("callback")' = InTimer("callback")
        BY <2>2, <4>1
      <4> QED
        BY <2>3, <2>6, <4>2, <4>3
    <3> QED
      BY <1>1, <2>4, <2>5, <3>1, RilTimersAssumption
         DEF IInv, Bounded, Reports, RilTimersAssumption
  <2>7. CASE w = "callback"
    <3>1. /\ Cardinality(InTimer("callback")') = Cardinality(InTimer("callback")) - 1
          /\ Cardinality(InTimer("report")') = Cardinality(InTimer("report"))
          /\ Cardinality(calls)' = Cardinality(calls) + 1
      BY <2>1, <2>2, <2>3, <2>7
    <3> QED
      BY <1>1, <2>4, <2>5, <3>1, RilTimersAssumption
         DEF IInv, Bounded, Reports, RilTimersAssumption
  <2> QED
    BY <2>6, <2>7
<1>7. Pointer'
  BY <1>1 DEF AddTimer, IInv, Pointer, lastVars, loopVars
<1> QED
  BY <1>3, <1>4, <1>5, <1>6, <1>7 DEF IInv

\* A thread goes on in its call, or out of it, once its timer is added.
LEMMA JobStep ==
    ASSUME Jobs, Bounded, UNCHANGED <<created, calls>>,
           NEW t \in Thread, job[t].at # "timer",
           NEW r \in [at : Place, what : What, seen : 0 .. created, timer : 0 .. created],
           r.at # "timer", r.at = "cancel" => r.seen # 0,
           job' = [job EXCEPT ![t] = r]
    PROVE  Jobs' /\ Bounded'
<1>1. /\ job' \in [Thread -> [at : Place, what : What, seen : 0 .. created, timer : 0 .. created]]
      /\ job'[t] = r /\ \A u \in Thread : u # t => job'[u] = job[u]
  BY DEF Jobs
<1>2. Jobs'
  BY <1>1 DEF Jobs
<1>3. Bounded'
  BY <1>1, BoundedKept
<1> QED
  BY <1>2, <1>3

LEMMA TimerAddedStep ==
    ASSUME IInv, NEW t \in Thread, TimerAdded(t) PROVE IInv'
<1>1. Lists' /\ Pointer'
  BY ListsKept, PointerKept DEF TimerAdded, IInv, listVars
<1>2. Loop'
  <2>1. pipe' \in BOOLEAN
    BY Zenon DEF TimerAdded, triggerEvLoop, IInv, Loop
  <2> QED
    BY <2>1 DEF TimerAdded, IInv, Loop, listVars
<1>3. Jobs' /\ Bounded'
  <2>1. created \in Nat /\ UNCHANGED <<created, calls>> /\ job[t].at = "trigger"
    BY DEF TimerAdded, At, IInv, Lists, listVars
  <2>2. CASE job' = [job EXCEPT ![t] = NoJob]
    <3>1. NoJob \in [at : Place, what : What, seen : 0 .. created, timer : 0 .. created]
          /\ NoJob.at = "none"
      BY <2>1 DEF NoJob, Place, What
    <3> QED
      BY <2>1, <2>2, <3>1, JobStep DEF IInv
  <2>3. CASE job' = [job EXCEPT ![t].at = "look"]
    <3> DEFINE r == [job[t] EXCEPT !.at = "look"]
    <3>1. r \in [at : Place, what : What, seen : 0 .. created, timer : 0 .. created]
          /\ r.at = "look"
      BY DEF IInv, Jobs, Place
    <3>2. job' = [job EXCEPT ![t] = r]
      BY <2>3
    <3> QED
      BY <2>1, <3>1, <3>2, JobStep DEF IInv
  <2> QED
    BY <2>2, <2>3 DEF TimerAdded, Return, Move
<1> QED
  BY <1>1, <1>2, <1>3 DEF IInv

LEMMA LookAtLastStep ==
    ASSUME IInv, NEW t \in Thread, LookAtLast(t) PROVE IInv'
<1>1. Lists' /\ Loop' /\ Pointer'
  BY ListsKept, LoopKept, PointerKept DEF LookAtLast, IInv, listVars, loopVars
<1>2. Jobs' /\ Bounded'
  <2> DEFINE place == IF s_last_wake_timeout_info = 0 THEN "store" ELSE "cancel"
             r == [job[t] EXCEPT !.seen = s_last_wake_timeout_info, !.at = place]
  <2>1. UNCHANGED <<created, calls>> /\ job[t].at = "look"
    BY DEF LookAtLast, At, listVars
  <2>2. r \in [at : Place, what : What, seen : 0 .. created, timer : 0 .. created]
        /\ r.at = place /\ r.seen = s_last_wake_timeout_info
    <3>1. place \in Place /\ s_last_wake_timeout_info \in 0 .. created
      BY DEF IInv, Pointer, Place
    <3>2. job[t] \in [at : Place, what : What, seen : 0 .. created, timer : 0 .. created]
      BY DEF IInv, Jobs
    <3> HIDE DEF place
    <3> QED
      BY <3>1, <3>2
  <2>3. job' = [job EXCEPT ![t] = r]
    BY DEF LookAtLast
  <2>4. r.at # "timer" /\ (r.at = "cancel" => r.seen # 0)
    BY <2>2
  <2> HIDE DEF r
  <2> QED
    BY <2>1, <2>2, <2>3, <2>4, JobStep DEF IInv
<1> QED
  BY <1>1, <1>2 DEF IInv

\* A write through NULL shows that the pointer changed since the look at it.
LEMMA CancelLastStep ==
    ASSUME IInv, NEW t \in Thread, CancelLast(t) PROVE IInv'
<1>1. /\ job[t].at = "cancel" /\ job[t].seen # 0
      /\ job[t] \in [at : Place, what : What, seen : 0 .. created, timer : 0 .. created]
  BY DEF CancelLast, At, IInv, Jobs
<1>2. Lists' /\ Loop'
  BY ListsKept, LoopKept DEF CancelLast, IInv, listVars, loopVars
<1>3. Jobs' /\ Bounded'
  <2> DEFINE r == [job[t] EXCEPT !.at = "store"]
  <2>1. r \in [at : Place, what : What, seen : 0 .. created, timer : 0 .. created]
        /\ r.at = "store"
    BY <1>1 DEF Place
  <2>2. job' = [job EXCEPT ![t] = r] /\ UNCHANGED <<created, calls>>
    BY DEF CancelLast, Move, listVars
  <2> HIDE DEF r
  <2> QED
    BY <1>1, <2>1, <2>2, JobStep DEF IInv
<1>4. Pointer'
  <2>1. PICK target \in {job[t].seen, s_last_wake_timeout_info} : dead' = (target = 0)
    BY DEF CancelLast
  <2>2. cause' = cause \cup Blame("look", job[t].seen # s_last_wake_timeout_info)
    BY DEF CancelLast
  <2>3. cause \subseteq cause' /\ cause' \subseteq Cause
    BY <2>2 DEF Blame, Cause, IInv, Pointer
  <2>4. dead' => cause' # {}
    <3> SUFFICES ASSUME dead' PROVE cause' # {}
      OBVIOUS
    <3>1. target = 0
      BY <2>1, Zenon
    <3>2. job[t].seen # s_last_wake_timeout_info
      BY <1>1, <2>1, <3>1
    <3> QED
      BY <2>2, <3>2 DEF Blame
  <2>5. dead' \in BOOLEAN
    BY <2>1, Zenon
  <2>6. UNCHANGED <<created, freed, ev, pending_list, s_last_wake_timeout_info>>
    BY DEF CancelLast, listVars, loopVars
  <2> QED
    BY <2>3, <2>4, <2>5, <2>6 DEF IInv, Pointer
<1> QED
  BY <1>2, <1>3, <1>4 DEF IInv

LEMMA StoreLastStep ==
    ASSUME IInv, NEW t \in Thread, StoreLast(t) PROVE IInv'
<1>1. Lists' /\ Loop'
  BY ListsKept, LoopKept DEF StoreLast, IInv, listVars, loopVars
<1>2. Jobs' /\ Bounded'
  <2>1. created \in Nat /\ UNCHANGED <<created, calls>> /\ job[t].at = "store"
    BY DEF StoreLast, At, IInv, Lists, listVars
  <2>2. NoJob \in [at : Place, what : What, seen : 0 .. created, timer : 0 .. created]
        /\ NoJob.at = "none"
    BY <2>1 DEF NoJob, Place, What
  <2>3. job' = [job EXCEPT ![t] = NoJob]
    BY DEF StoreLast, Return
  <2> QED
    BY <2>1, <2>2, <2>3, JobStep DEF IInv
<1>3. Pointer'
  <2>1. job[t].timer \in 0 .. created
    BY DEF IInv, Jobs
  <2>2. cause \subseteq cause' /\ cause' \subseteq Cause
    BY DEF StoreLast, Blame, Cause, IInv, Pointer
  <2>3. Fired(job[t].timer) => cause' # {}
    BY DEF StoreLast, Blame
  <2>4. UNCHANGED <<created, freed, ev, pending_list, dead>>
    BY DEF StoreLast, listVars, loopVars
  <2>5. s_last_wake_timeout_info' = job[t].timer
    BY DEF StoreLast
  <2> QED
    BY <2>1, <2>2, <2>3, <2>4, <2>5 DEF IInv, Pointer, Fired
<1> QED
  BY <1>1, <1>2, <1>3 DEF IInv

-----------------------------------------------------------------------------
(* The event loop, which is in no call.                                    *)

LEMMA JobsKept ==
    ASSUME Jobs, Bounded, UNCHANGED <<created, calls, job>> PROVE Jobs' /\ Bounded'
<1>1. Jobs'
  BY DEF Jobs
<1>2. Bounded'
  BY BoundedKept
<1> QED
  BY <1>1, <1>2

\* The timers that expired are the first ones of the list.
LEMMA LeaveSelectStep ==
    ASSUME IInv, LeaveSelect PROVE IInv'
<1>1. PICK n \in 0 .. Len(timer_list) :
        /\ pending_list' = SubSeq(timer_list, 1, n)
        /\ timer_list' = SubSeq(timer_list, n + 1, Len(timer_list))
  BY DEF LeaveSelect, Remaining
<1>2. timer_list \in Seq(Ids) /\ Len(timer_list) \in Nat /\ DOMAIN timer_list = 1 .. Len(timer_list)
  BY LenProperties DEF IInv, Lists
<1>3. /\ pending_list' \in Seq(Ids) /\ DOMAIN pending_list' = 1 .. n
      /\ \A j \in 1 .. n : pending_list'[j] = timer_list[j]
  <2>1. \A j \in 1 .. n : timer_list[j] \in Ids
    BY <1>2
  <2>2. /\ SubSeq(timer_list, 1, n) \in Seq(Ids) /\ Len(SubSeq(timer_list, 1, n)) = n
        /\ \A j \in 1 .. n : SubSeq(timer_list, 1, n)[j] = timer_list[j]
    BY <1>2, <2>1, SubSeqProperties
  <2> QED
    BY <1>1, <2>2, LenProperties
<1>4. /\ timer_list' \in Seq(Ids) /\ DOMAIN timer_list' = 1 .. Len(timer_list) - n
      /\ \A j \in 1 .. Len(timer_list) - n : timer_list'[j] = timer_list[j + n]
  <2> DEFINE rest == SubSeq(timer_list, n + 1, Len(timer_list))
  <2>1. /\ rest \in Seq(Ids) /\ Len(rest) = Len(timer_list) - n
        /\ \A j \in 1 .. Len(timer_list) - n : rest[j] = timer_list[j + n]
    BY SuffixProperties, <1>2
  <2> QED
    BY <1>1, <2>1, LenProperties
<1>5. UNCHANGED <<created, calls, freed, called, job, lastVars>> /\ ev' = "fire" /\ Ids' = Ids
  BY DEF LeaveSelect, Ids
<1>6. Lists'
  <2>1. \A i, j \in DOMAIN timer_list :
           timer_list[i] \notin freed /\ (timer_list[i] = timer_list[j] => i = j)
    BY DEF IInv, Lists, ListsSound
  <2>2. \A j \in 1 .. n : j \in DOMAIN timer_list
    BY <1>2
  <2>3. \A j \in 1 .. Len(timer_list) - n : j + n \in DOMAIN timer_list /\ j + n > n
    BY <1>2
  <2>4. \A i \in DOMAIN timer_list' :
           /\ timer_list'[i] \notin freed
           /\ \A j \in DOMAIN timer_list' : timer_list'[i] = timer_list'[j] => i = j
           /\ \A j \in DOMAIN pending_list' : timer_list'[i] # pending_list'[j]
    <3> TAKE i \in DOMAIN timer_list'
    <3>1. i \in 1 .. Len(timer_list) - n /\ timer_list'[i] = timer_list[i + n]
      BY <1>4
    <3>2. i + n \in DOMAIN timer_list /\ i + n > n
      BY <2>3, <3>1
    <3>3. \A j \in DOMAIN timer_list' : timer_list'[i] = timer_list'[j] => i = j
      <4> SUFFICES ASSUME NEW j \in DOMAIN timer_list', timer_list'[i] = timer_list'[j]
                   PROVE  i = j
        OBVIOUS
      <4>1. j \in 1 .. Len(timer_list) - n /\ timer_list'[j] = timer_list[j + n]
        BY <1>4
      <4>2. i + n = j + n
        BY <2>1, <2>3, <3>1, <3>2, <4>1
      <4> QED
        BY <1>2, <3>1, <4>1, <4>2
    <3>4. \A j \in DOMAIN pending_list' : timer_list'[i] # pending_list'[j]
      <4> SUFFICES ASSUME NEW j \in DOMAIN pending_list', timer_list'[i] = pending_list'[j]
                   PROVE  FALSE
        OBVIOUS
      <4>1. j \in 1 .. n /\ pending_list'[j] = timer_list[j]
        BY <1>3
      <4>2. i + n = j
        BY <2>1, <2>2, <3>1, <3>2, <4>1
      <4> QED
        BY <3>2, <4>1, <4>2
    <3> QED
      BY <2>1, <3>1, <3>2, <3>3, <3>4
  <2>5. \A i \in DOMAIN pending_list' :
           /\ pending_list'[i] \notin freed
           /\ \A j \in DOMAIN pending_list' : pending_list'[i] = pending_list'[j] => i = j
    BY <1>3, <2>1, <2>2
  <2>6. ListsSound'
    BY <1>5, <2>4, <2>5 DEF ListsSound
  <2> QED
    BY <1>3, <1>4, <1>5, <2>6 DEF IInv, Lists
<1>7. Loop'
  BY DEF LeaveSelect, IInv, Loop
<1>8. Jobs' /\ Bounded'
  BY <1>5, JobsKept DEF IInv
<1>9. Pointer'
  BY <1>5 DEF IInv, Pointer, lastVars
<1> QED
  BY <1>6, <1>7, <1>8, <1>9 DEF IInv

\* The pointer is cleared before its timer is freed.
LEMMA FireTimerStep ==
    ASSUME IInv, FireTimer PROVE IInv'
<1> DEFINE p == Head(pending_list)
<1>1. /\ UNCHANGED <<timer_list, pending_list, created, calls, freed, pipe, woken, blocking,
                     dead, cause, job>>
      /\ ev' = "free" /\ pending_list # <<>>
      /\ called' = called \cup (calls \cap {p}) /\ s_last_wake_timeout_info' = Cleared(p)
  BY DEF FireTimer
<1>2. p \in Ids
  BY <1>1, HeadTailProperties DEF IInv, Lists
<1>3. Lists'
  BY <1>1 DEF IInv, Lists, ListsSound, Ids
<1>4. Loop'
  BY <1>1 DEF IInv, Loop
<1>5. Jobs' /\ Bounded'
  BY <1>1, JobsKept DEF IInv
<1>6. Pointer'
  <2>1. s_last_wake_timeout_info' \in 0 .. created /\ s_last_wake_timeout_info' # p
    BY <1>1, <1>2 DEF Cleared, IInv, Lists, Pointer, Ids
  <2>2. s_last_wake_timeout_info' \in freed => s_last_wake_timeout_info \in freed
    BY <1>1 DEF Cleared, IInv, Lists, Ids
  <2> QED
    BY <1>1, <2>1, <2>2 DEF IInv, Pointer
<1> QED
  BY <1>3, <1>4, <1>5, <1>6 DEF IInv

LEMMA FreeTimerStep ==
    ASSUME IInv, FreeTimer PROVE IInv'
<1> DEFINE p == Head(pending_list)
<1>1. /\ UNCHANGED <<timer_list, created, calls, called, pipe, woken, blocking, lastVars, job>>
      /\ freed' = freed \cup {p} /\ pending_list' = Tail(pending_list)
      /\ ev = "free" /\ ev' = "fire" /\ pending_list # <<>>
  BY DEF FreeTimer, Event, IInv, Loop
<1>2. /\ p \in Ids /\ p = pending_list[1] /\ 1 \in DOMAIN pending_list
      /\ pending_list' \in Seq(Ids)
      /\ \A j \in DOMAIN pending_list' :
            j + 1 \in DOMAIN pending_list /\ j + 1 # 1 /\ pending_list'[j] = pending_list[j + 1]
  <2>1. /\ pending_list \in Seq(Ids) /\ Len(pending_list) \in Nat
        /\ DOMAIN pending_list = 1 .. Len(pending_list) /\ Len(pending_list) # 0
    BY <1>1, LenProperties, EmptySeq DEF IInv, Lists
  <2>2. /\ Tail(pending_list) \in Seq(Ids) /\ Len(Tail(pending_list)) = Len(pending_list) - 1
        /\ \A j \in 1 .. Len(Tail(pending_list)) : Tail(pending_list)[j] = pending_list[j + 1]
    BY <1>1, <2>1, HeadTailProperties
  <2>3. DOMAIN pending_list' = 1 .. Len(pending_list) - 1
    BY <1>1, <2>2, LenProperties
  <2>4. p = pending_list[1] /\ p \in Ids
    BY <1>1, <2>1
  <2> QED
    BY <1>1, <2>1, <2>2, <2>3, <2>4
<1>3. Lists'
  <2>1. Ids' = Ids /\ freed' \subseteq Ids
    BY <1>1, <1>2 DEF IInv, Lists, Ids
  <2>2. \A i \in DOMAIN timer_list : timer_list[i] \notin freed /\ timer_list[i] # p
    BY <1>2 DEF IInv, Lists, ListsSound
  <2>3. \A i \in DOMAIN timer_list', j \in DOMAIN pending_list' : timer_list'[i] # pending_list'[j]
    BY <1>1, <1>2 DEF IInv, Lists, ListsSound
  <2>4. ASSUME NEW i \in DOMAIN pending_list'
        PROVE  /\ pending_list'[i] \notin freed'
               /\ \A j \in DOMAIN pending_list' : pending_list'[i] = pending_list'[j] => i = j
    <3>1. \A j, k \in DOMAIN pending_list :
             pending_list[j] \notin freed /\ (pending_list[j] = pending_list[k] => j = k)
      BY DEF IInv, Lists, ListsSound
    <3>2. pending_list'[i] \notin freed /\ pending_list'[i] # p
      BY <1>2, <3>1
    <3>3. ASSUME NEW j \in DOMAIN pending_list', pending_list'[i] = pending_list'[j] PROVE i = j
      <4>1. i + 1 = j + 1
        BY <1>2, <3>1, <3>3
      <4>2. i \in Int /\ j \in Int
        BY <1>2, LenProperties
      <4> QED
        BY <4>1, <4>2
    <3> QED
      BY <1>1, <3>2, <3>3
  <2>5. ListsSound'
    <3>1. \A i \in DOMAIN timer_list : timer_list[i] \notin freed' /\
             \A j \in DOMAIN timer_list : timer_list[i] = timer_list[j] => i = j
      BY <1>1, <2>2 DEF IInv, Lists, ListsSound
    <3> QED
      BY <1>1, <2>3, <2>4, <3>1 DEF ListsSound
  <2> QED
    BY <1>1, <1>2, <2>1, <2>5 DEF IInv, Lists
<1>4. Loop'
  BY <1>1 DEF IInv, Loop
<1>5. Jobs' /\ Bounded'
  BY <1>1, JobsKept DEF IInv
<1>6. Pointer'
  BY <1>1 DEF IInv, Pointer, lastVars
<1> QED
  BY <1>3, <1>4, <1>5, <1>6 DEF IInv

LEMMA OtherLoopStep ==
    ASSUME IInv, EnterSelect \/ processWakeupCallback \/ FirePendingEnds PROVE IInv'
<1>1. UNCHANGED <<listVars, lastVars, job>>
  BY DEF EnterSelect, processWakeupCallback, FirePendingEnds
<1>2. ev' # "free"
  BY DEF EnterSelect, processWakeupCallback, FirePendingEnds, Event
<1>3. Lists' /\ Jobs' /\ Bounded'
  BY <1>1, ListsKept, JobsKept DEF IInv, listVars
<1>4. Loop'
  BY DEF EnterSelect, processWakeupCallback, FirePendingEnds, Event, IInv, Loop, listVars
<1>5. Pointer'
  BY <1>1, <1>2 DEF IInv, Pointer, listVars, lastVars
<1> QED
  BY <1>3, <1>4, <1>5 DEF IInv

-----------------------------------------------------------------------------
LEMMA IInvInductive == IInv /\ [Next]_vars => IInv'
<1> SUFFICES ASSUME IInv, [Next]_vars PROVE IInv'
  OBVIOUS
<1>1. CASE EventLoop
  BY <1>1, LeaveSelectStep, FireTimerStep, FreeTimerStep, OtherLoopStep DEF EventLoop
<1>2. ASSUME NEW t \in Thread, InLibril(t) \/ Report(t) \/ RequestTimedCallback(t) PROVE IInv'
  BY <1>2, AddTimerStep, TimerAddedStep, LookAtLastStep, CancelLastStep, StoreLastStep, ReportStep
     DEF InLibril
<1>3. CASE UNCHANGED vars
  <2>1. UNCHANGED <<listVars, loopVars, lastVars, job>>
    BY <1>3 DEF vars
  <2>2. UNCHANGED <<created, calls, freed, ev, pending_list>>
    BY <2>1 DEF listVars, loopVars
  <2> QED
    BY <2>1, <2>2, ListsKept, LoopKept, PointerKept, JobsKept DEF IInv
<1> QED
  BY <1>1, <1>2, <1>3 DEF Next

LEMMA IInvInvariant == Spec => []IInv
  BY InitIInv, IInvInductive, PTL DEF Spec

(* Every variable keeps its type; no timer is in two lists, twice in one,  *)
(* or in a list once it is freed (ril_timer_add, processTimeouts,          *)
(* firePending).                                                           *)
THEOREM TimersTypeCorrect == Spec => []TypeOK
  BY IInvInvariant, IInvImpliesTypeOK, PTL

(* s_last_wake_timeout_info never dangles and is never written through     *)
(* while it is NULL, but for the two overlaps that nothing in              *)
(* RIL_onUnsolicitedResponse() and userTimerCallback() excludes.           *)
THEOREM TimersWakeTimerKnown == Spec => []WakeTimerKnown
  BY IInvInvariant, IInvImpliesWakeTimerKnown, PTL
=============================================================================
