-------------------------- MODULE RilDaemon_proofs --------------------------
(***************************************************************************)
(* Proofs about RilDaemon, for any threads of the vendor's RIL and any     *)
(* number of clients, requests and reports: the daemon serves one client   *)
(* at a time, a request is answered once and to its client and forgotten   *)
(* once it is freed, and the newest network time is not lost but for the   *)
(* named overlaps.                                                         *)
(***************************************************************************)
EXTENDS RilDaemon, SequenceTheorems, TLAPS

\* What the event table holds at each place of the event thread.
Attends == watch = IF fdCommand = 0 THEN {"listen"} ELSE {"commands"}
Serving == fdCommand # 0 /\ watch = {"commands"} /\ pending_list = {}
Firing ==
    \/ pending_list = {} /\ Attends
    \/ pending_list = {"listen"} /\ fdCommand = 0 /\ watch = {} /\ backlog # <<>>
    \/ pending_list = {"commands"} /\ fdCommand # 0 /\ watch = {"commands"}
Turns ==
    /\ ev \in {"loop", "select"} => Attends
    /\ ev = "select" => rfds = watch
    /\ ev = "fire" => Firing
    /\ ev \in {"connected", "state", "resend", "resent", "read", "closed"} => Serving
    /\ ev = "cancel" => fdCommand = 0 /\ watch = {"listen"} /\ pending_list = {}

\* Who makes which call, and what about; one thread reports at a time.
Reports(t) == job[t].what = "nitz"
Resends(t) == job[t].what = "resend"
CallSound(t) ==
    /\ job[t].what \in {"answer", "error"} => job[t].of \in Request
    /\ job[t].at \in {"keep", "save"} => Reports(t)
    /\ job[t].at \in {"acking", "acked"} => job[t].what = "ack"
    /\ Reports(t) => t \in Vendor /\ news > 0 /\ job[t].of = news
    /\ Resends(t) => t = "event" /\ ev = "resent" /\ job[t].of \in 1 .. MaxNews
    /\ job[t].what = "error" => t = "event"
Calls ==
    /\ \A t \in Thread : CallSound(t)
    /\ \A t, u \in Thread : Reports(t) /\ Reports(u) => t = u

\* Where a request can be: not sent, with its client's others, pending, in one
\* thread's hands to be answered, or done with.
Answers(t, r) == job[t].what \in {"answer", "error"} /\ job[t].of = r
Unanswered(r) == r \notin released /\ answered[r] = <<>>
Untouched(r) ==
    /\ Unanswered(r) /\ r \notin pending /\ r \notin invalid
    /\ \A t \in Thread : ~Answers(t, r)
Unsent == \A r \in Request : asker[r] = 0 => Untouched(r)
Queued ==
    \A c \in Conn, r \in Request : \A i \in DOMAIN inbox[c] : inbox[c][i] = r =>
        /\ asker[r] = c /\ Untouched(r)
        /\ \A j \in DOMAIN inbox[c] : inbox[c][j] = r => i = j
Pending == ListHeld /\ \A r \in pending : Unanswered(r)
Handed ==
    \A r \in Request, t \in Thread : Answers(t, r) =>
        /\ Unanswered(r) /\ r \notin pending
        /\ \A u \in Thread : Answers(u, r) => t = u
AtMostOnce == \A r \in Request : Len(answered[r]) <= 1
Requests == Unsent /\ Queued /\ Pending /\ Handed /\ AtMostOnce

\* A request in hand is its client's who is served, until that one is found gone.
InHand(r) == (r \in pending /\ r \notin cancelled) \/ \E t \in Thread : Answers(t, r)
Addressed ==
    \A r \in Request : r \notin late =>
        /\ InHand(r) => fdCommand = asker[r] \/ (fdCommand = 0 /\ ev = "cancel")
        /\ \A t \in Thread : Answers(t, r) /\ job[t].at = "write" => job[t].fd = asker[r]
        /\ \A i \in DOMAIN answered[r] : answered[r][i] = asker[r]

\* The time that is kept while the event thread resends it.
NewsGone == dead \/ cause \cap {"nitz", "ignored"} # {}
ResentSafe ==
    /\ s_lastNITZTimeData # 0
    /\ \/ s_lastNITZTimeData \in told
       \/ Resends("event") /\ job["event"].of = s_lastNITZTimeData
News == NewsGone \/ (NitzKept /\ (ev = "resent" => ResentSafe))

IInv == Types /\ Turns /\ Calls /\ Requests /\ Addressed /\ News

-----------------------------------------------------------------------------
LEMMA Parameters ==
  /\ "event" \in Thread /\ "event" \notin Vendor /\ Vendor \subseteq Thread
  /\ MaxConn \in Nat /\ MaxAsked \in Nat /\ MaxNews \in Nat /\ MaxFailed \in Nat
  BY RilAssumption DEF Thread

Job == [at : {"none", "send", "write", "keep", "save", "acking", "acked"},
        what : {"none", "news", "nitz", "resend", "answer", "error", "ack"},
        of : Nat, fd : 0 .. MaxConn]

LEMMA NoJobJob == NoJob \in Job
  BY Parameters DEF NoJob, Job

LEMMA InitIInv == Init => IInv
<1> SUFFICES ASSUME Init PROVE IInv
  OBVIOUS
<1>a. "event" \in Thread /\ MaxConn \in Nat /\ MaxAsked \in Nat /\ MaxNews \in Nat
      /\ MaxFailed \in Nat
  BY RilAssumption DEF Thread
<1>1. Types
  <2>1. job \in [Thread -> Job]
    BY NoJobJob DEF Init
  <2>2. <<>> \in Seq(Request) /\ <<>> \in Seq(Conn)
    OBVIOUS
  <2>3. /\ inbox \in [Conn -> Seq(Request)] /\ backlog \in Seq(Conn)
        /\ answered \in [Request -> Seq(Conn)]
    BY <2>2 DEF Init
  <2>4. /\ peer \in [Conn -> {"none", "here", "gone"}] /\ asker \in [Request -> 0 .. MaxConn]
        /\ fdCommand \in 0 .. MaxConn /\ s_lastNITZTimeData \in 0 .. MaxNews
        /\ news \in 0 .. MaxNews /\ failed \in 0 .. MaxFailed
    BY <1>a DEF Init
  <2>5. /\ open = {} /\ watch = {"listen"} /\ rfds = {} /\ pending_list = {} /\ ev = "loop"
        /\ told = {} /\ pending = {} /\ cancelled = {} /\ held = {} /\ released = {}
        /\ dead = FALSE /\ late = {} /\ cause = {} /\ invalid = {}
    BY DEF Init
  <2> QED BY <2>1, <2>3, <2>4, <2>5 DEF Types, Job
<1>2. Turns
  BY DEF Init, Turns, Attends
<1>3. Calls
  BY DEF Init, Calls, CallSound, Reports, Resends, NoJob
<1>4. Requests
  BY DEF Init, Requests, Unsent, Queued, Pending, Handed, AtMostOnce, ListHeld, Untouched, Unanswered, Answers, NoJob
<1>5. Addressed
  BY DEF Init, Addressed, InHand, Answers, NoJob
<1>6. News
  BY DEF Init, News, NitzKept
<1> QED BY <1>1, <1>2, <1>3, <1>4, <1>5, <1>6 DEF IInv

-----------------------------------------------------------------------------
(* Types.                                                                  *)

LEMMA CallJob ==
  ASSUME NEW what \in {"news", "nitz", "resend", "answer", "error", "ack"},
         NEW at \in {"send", "acking"}, NEW of \in Nat
  PROVE  /\ Call(what, at, of) \in Job
         /\ Call(what, at, of).what = what /\ Call(what, at, of).at = at
         /\ Call(what, at, of).of = of
  BY Parameters DEF Call, Job

LEMMA FinishTypes ==
  ASSUME Types, NEW t \in Thread, NEW sent \in BOOLEAN, Finish(t, sent),
         job[t].what = "answer" => job[t].of \in Request
  PROVE  job' \in [Thread -> Job] /\ released' \subseteq Request
<1>1. job \in [Thread -> Job]
  BY DEF Types, Job
<1>2. job' \in [Thread -> Job]
  <2>1. CASE Move(t, "keep")
    BY <1>1, <2>1 DEF Move, Job
  <2>2. CASE Return(t)
    BY <1>1, <2>2, NoJobJob DEF Return
  <2> QED BY <2>1, <2>2 DEF Finish
<1> QED BY <1>2 DEF Finish, Types

LEMMA ClientTypes ==
  ASSUME Types, Client PROVE Types'
<1>1. ASSUME NEW c \in Conn, Connect(c) PROVE Types'
  <2>1. Append(backlog, c) \in Seq(Conn)
    BY <1>1, AppendProperties DEF Types
  <2> QED BY <1>1, <2>1 DEF Connect, Types, sockVars, loopVars, requestVars, nitzVars
<1>2. ASSUME NEW c \in Conn, HangUp(c) PROVE Types'
  BY <1>2 DEF HangUp, Types, sockVars, loopVars, requestVars, nitzVars
<1>3. ASSUME NEW c \in Conn, NEW r \in Request, Ask(c, r) PROVE Types'
  <2>1. Append(inbox[c], r) \in Seq(Request)
    BY <1>3, AppendProperties DEF Types
  <2>2. inbox' \in [Conn -> Seq(Request)] /\ asker' \in [Request -> 0 .. MaxConn]
    BY <1>3, <2>1, Parameters DEF Ask, Types, Conn
  <2> QED BY <1>3, <2>2 DEF Ask, Types, sockVars, loopVars, requestVars, nitzVars
<1> QED BY <1>1, <1>2, <1>3 DEF Client

LEMMA LibrilTypes ==
  ASSUME Types, Calls, NEW t \in Thread, Libril(t) PROVE Types'
<1>a. job[t].what \in {"answer", "error"} => job[t].of \in Request
  BY DEF Calls, CallSound
<1>b. job \in [Thread -> Job]
  BY DEF Types, Job
<1>1. CASE ReadFd(t)
  <2>3. job' \in [Thread -> Job] /\ released' \subseteq Request
    <3>1. CASE fdCommand = 0
      BY <1>1, <1>a, <3>1, FinishTypes DEF ReadFd
    <3>2. CASE fdCommand # 0
      <4>1. [job[t] EXCEPT !.at = "write", !.fd = fdCommand] \in Job
        BY <1>b DEF Types, Job
      <4>2. job' = [job EXCEPT ![t] = [job[t] EXCEPT !.at = "write", !.fd = fdCommand]]
        BY <1>1, <1>b, <3>2 DEF ReadFd
      <4> QED BY <1>1, <1>b, <3>2, <4>1, <4>2 DEF ReadFd, Types
    <3> QED BY <3>1, <3>2
  <2> QED BY <1>1, <2>3 DEF ReadFd, Types, Job, clientVars, sockVars, loopVars, nitzVars
<1>2. CASE Written(t)
  <2>1. job' \in [Thread -> Job] /\ released' \subseteq Request
    BY <1>2, <1>a, FinishTypes DEF Written
  <2>2. job[t].fd \in Conn
    BY <1>2 DEF Written, Types
  <2>3. answered' \in [Request -> Seq(Conn)]
    BY <1>2, <2>2, <1>a, AppendProperties DEF Written, Types
  <2>4. told' \subseteq 1 .. MaxNews
    <3>1. job[t].what \in {"nitz", "resend"} => job[t].of \in 1 .. MaxNews
      BY DEF Types, Calls, CallSound, Reports, Resends
    <3> QED BY <1>2, <3>1 DEF Written, Types
  <2> QED BY <1>2, <2>1, <2>3, <2>4 DEF Written, Types, Job, clientVars, sockVars, loopVars
<1>3. CASE WriteFails(t)
  <2>1. job' \in [Thread -> Job] /\ released' \subseteq Request
    BY <1>3, <1>a, <1>b, FinishTypes DEF WriteFails, Types
  <2>2. cause' \subseteq Cause /\ open' \subseteq Conn /\ dead' \in BOOLEAN
    BY <1>3 DEF WriteFails, Types, Cause, Blame
  <2> QED BY <1>3, <2>1, <2>2 DEF WriteFails, Types, Job, clientVars, loopVars, nitzVars
<1>4. CASE KeepDrop(t)
  <2>1. cause' \subseteq Cause
    BY <1>4 DEF KeepDrop, Types, Cause, Blame
  <2>2. job' \in [Thread -> Job]
    <3>1. [job[t] EXCEPT !.at = "save"] \in Job
      BY <1>b DEF Job
    <3>2. job' = [job EXCEPT ![t] = [job[t] EXCEPT !.at = "save"]]
      BY <1>4, <1>b DEF KeepDrop, Move
    <3> QED BY <1>b, <3>1, <3>2
  <2>3. /\ s_lastNITZTimeData' \in 0 .. MaxNews
        /\ UNCHANGED <<clientVars, sockVars, loopVars, requestVars, told, news, failed, dead>>
    BY <1>4, Parameters DEF KeepDrop
  <2> QED BY <2>1, <2>2, <2>3 DEF Types, Job, clientVars, sockVars, loopVars, requestVars
<1>5. CASE Keep(t)
  <2>1. cause' \subseteq Cause /\ job' \in [Thread -> Job]
    BY <1>5, <1>b, Parameters DEF Keep, Types, Cause, Blame, Return, NoJob, Job
  <2>2. job[t].of \in 0 .. MaxNews
    BY <1>5 DEF Keep, At, Types, Calls, CallSound, Reports
  <2> QED BY <1>5, <2>1, <2>2 DEF Keep, SaveNews, Types, Job, clientVars, sockVars, loopVars, requestVars
<1> QED BY <1>1, <1>2, <1>3, <1>4, <1>5 DEF Libril

LEMMA VendorTypes ==
  ASSUME Types, NEW t \in Vendor, Completes(t) \/ Report(t) PROVE Types'
<1>a. t \in Thread /\ job \in [Thread -> Job] /\ NoJob \in Job
  BY Parameters DEF Types, Job, NoJob
<1>1. ASSUME NEW r \in Request, RequestComplete(t, r) PROVE Types'
  <2>1. Call("answer", "send", r) \in Job
    BY CallJob, Parameters DEF Request
  <2>2. job' \in [Thread -> Job] /\ released' \subseteq Request
    BY <1>1, <1>a, <2>1 DEF RequestComplete, Dequeue, Types
  <2> QED BY <1>1, <2>2 DEF RequestComplete, Taken, Types, Job, clientVars, sockVars, loopVars, nitzVars
<1>2. CASE Report(t)
  <2>1. news' \in 0 .. MaxNews /\ news + 1 \in Nat
    BY <1>2, Parameters DEF Report, Types
  <2>2. Call("nitz", "send", news + 1) \in Job
    BY <2>1, CallJob
  <2>3. job' \in [Thread -> Job]
    BY <1>2, <1>a, <2>2 DEF Report
  <2> QED BY <1>2, <2>1, <2>3 DEF Report, Types, Job, clientVars, sockVars, loopVars, requestVars, nitzVars
<1> QED BY <1>1, <1>2 DEF Completes

LEMMA EventTypes ==
  ASSUME Types, Turns, Calls, EventThread PROVE Types'
<1>a. "event" \in Thread /\ job \in [Thread -> Job] /\ NoJob \in Job
  BY Parameters DEF Types, Job, NoJob
<1> USE DEF Event, Goto
<1>1. CASE EnterSelect
  BY <1>1 DEF EnterSelect, Types, clientVars, sockVars, requestVars, nitzVars
<1>2. CASE LeaveSelect
  BY <1>2 DEF LeaveSelect, Ready, Types, clientVars, requestVars, nitzVars
<1>3. CASE FirePendingEnds
  BY <1>3 DEF FirePendingEnds, Types, clientVars, sockVars, requestVars, nitzVars
<1>4. CASE Accept
  <2>1. backlog \in Seq(Conn) /\ backlog # <<>>
    BY <1>4 DEF Accept, Fires, Types, Turns, Firing
  <2>2. Head(backlog) \in Conn /\ Tail(backlog) \in Seq(Conn)
    BY <2>1, HeadTailProperties
  <2>a. fdCommand' \in Conn /\ backlog' \in Seq(Conn) /\ open' = open \cup {fdCommand'}
    BY <1>4, <2>2 DEF Accept
  <2>3. fdCommand' \in 0 .. MaxConn /\ open' \subseteq Conn /\ backlog' \in Seq(Conn)
    BY <2>a, Parameters DEF Types, Conn
  <2> QED BY <1>4, <2>3 DEF Accept, Fires, Types, requestVars, nitzVars
<1>5. CASE AcceptFails
  BY <1>5, Parameters DEF AcceptFails, Fires, Relisten, Types, clientVars, requestVars, nitzVars
<1>6. CASE Greet
  <2>1. job' \in [Thread -> Job]
    BY <1>6, <1>a, CallJob DEF Greet
  <2> QED BY <1>6, <2>1 DEF Greet, Types, Job, clientVars, sockVars, requestVars, nitzVars
<1>7. CASE Resend
  <2>1. s_lastNITZTimeData \in Nat
    BY Parameters DEF Types
  <2>a. Call("resend", "send", s_lastNITZTimeData) \in Job
    BY <2>1, CallJob
  <2>2. job' \in [Thread -> Job]
    BY <1>7, <1>a, <2>a DEF Resend
  <2> QED BY <1>7, <2>2 DEF Resend, Types, Job, Cause, Blame, clientVars, sockVars, requestVars, nitzVars
<1>8. CASE DropResent
  BY <1>8, Parameters DEF DropResent, Types, clientVars, sockVars, requestVars
<1>9. CASE ReadCommands
  BY <1>9 DEF ReadCommands, Fires, Types, clientVars, sockVars, requestVars, nitzVars
<1>10. CASE NoMoreCommands
  BY <1>10 DEF NoMoreCommands, Types, clientVars, sockVars, requestVars, nitzVars
<1>11. CASE Dispatch
  <2>a. fdCommand \in Conn
    BY <1>11 DEF Dispatch, Types, Turns, Serving, Conn
  <2>1. inbox[fdCommand] \in Seq(Request) /\ inbox[fdCommand] # <<>>
    BY <1>11, <2>a DEF Dispatch, Types
  <2> DEFINE r == Head(inbox[fdCommand])
  <2>b. r \in Request /\ Tail(inbox[fdCommand]) \in Seq(Request)
    BY <2>1, HeadTailProperties
  <2> HIDE DEF r
  <2>2. r \in Request /\ r \in Nat /\ Tail(inbox[fdCommand]) \in Seq(Request)
    BY <2>b, Parameters DEF Request
  <2>3. inbox' \in [Conn -> Seq(Request)]
    BY <1>11, <2>2 DEF Dispatch, Types
  <2>c. \A what \in {"error", "answer"} : Call(what, "send", r) \in Job
    BY <2>2, CallJob
  <2>d. Call("ack", "acking", r) \in Job
    BY <2>2, CallJob
  <2>4. /\ job' \in [Thread -> Job]
        /\ pending' \subseteq Request /\ held' \subseteq Request /\ invalid' \subseteq Request
    <3>1. /\ \/ job' = job
             \/ \E call \in {Call("error", "send", r), Call("answer", "send", r),
                             Call("ack", "acking", r)} :
                   job' = [job EXCEPT !["event"] = call]
          /\ pending' \in {pending, pending \cup {r}} /\ held' \in {held, held \cup {r}}
          /\ invalid' \in {invalid, invalid \cup {r}}
      BY <1>11 DEF Dispatch, Unreadable, r
    <3>2. pending \subseteq Request /\ held \subseteq Request /\ invalid \subseteq Request
      BY DEF Types
    <3>3. job' \in [Thread -> Job]
      BY <1>a, <2>c, <2>d, <3>1
    <3> QED BY <2>2, <3>1, <3>2, <3>3
  <2> QED BY <1>11, <2>3, <2>4 DEF Dispatch, Types, Job, sockVars, nitzVars
<1>12. CASE RequestAck
  <2>1. job' \in [Thread -> Job]
    BY <1>12, <1>a DEF RequestAck, Move, Return, Job
  <2> QED BY <1>12, <2>1 DEF RequestAck, Types, Job, clientVars, sockVars, loopVars, requestVars, nitzVars
<1>13. CASE SendAck
  <2>1. job' \in [Thread -> Job]
    BY <1>13, <1>a DEF SendAck, Move, Return, Job
  <2> QED BY <1>13, <2>1 DEF SendAck, Types, Job, Cause, Blame, clientVars, sockVars, loopVars, requestVars, nitzVars
<1>14. CASE CloseCommands
  BY <1>14 DEF CloseCommands, Types, clientVars, requestVars, nitzVars
<1>15. CASE ListenAgain
  BY <1>15, Parameters DEF ListenAgain, Relisten, Types, clientVars, requestVars, nitzVars
<1>16. CASE CancelPending
  <2>1. late' \subseteq Request
    BY <1>16, Parameters DEF CancelPending, Types, Calls, CallSound
  <2> QED BY <1>16, <2>1 DEF CancelPending, MarkPending, Types, clientVars, sockVars, nitzVars
<1> QED BY <1>1, <1>2, <1>3, <1>4, <1>5, <1>6, <1>7, <1>8, <1>9, <1>10, <1>11, <1>12,
           <1>13, <1>14, <1>15, <1>16 DEF EventThread

-----------------------------------------------------------------------------
(* The event table.                                                        *)

\* A step that leaves the table and the event thread's place alone.
LEMMA TurnsStay ==
  ASSUME Turns, UNCHANGED <<fdCommand, watch, rfds, pending_list, ev>>,
         backlog # <<>> => backlog' # <<>>
  PROVE  Turns'
  BY DEF Turns, Attends, Serving, Firing

LEMMA EventTurns ==
  ASSUME Types, Turns, EventThread PROVE Turns'
<1> USE DEF Event, Goto, Turns, Serving
<1>1. CASE EnterSelect
  BY <1>1 DEF EnterSelect, Attends, sockVars
<1>2. CASE LeaveSelect
  <2>1. Ready \subseteq watch /\ ("listen" \in Ready => backlog # <<>>)
    BY <1>2 DEF LeaveSelect, Ready
  <2>2. Attends /\ watch \subseteq {"listen", "commands"}
    BY <1>2 DEF LeaveSelect, Types
  <2>3. \/ watch = {"listen"} /\ fdCommand = 0
        \/ watch = {"commands"} /\ fdCommand # 0
    BY <2>2 DEF Attends
  <2>4. /\ pending_list' = Ready /\ watch' = watch \ (Ready \cap {"listen"})
        /\ ev' = "fire" /\ UNCHANGED <<fdCommand, backlog>>
    BY <1>2 DEF LeaveSelect, Once, clientVars
  <2>5. Firing'
    BY <2>1, <2>3, <2>4 DEF Firing, Attends
  <2> QED BY <2>4, <2>5
<1>3. CASE FirePendingEnds
  BY <1>3 DEF FirePendingEnds, Firing, Attends, sockVars
<1>4. CASE Accept
  <2>1. backlog \in Seq(Conn) /\ backlog # <<>>
    BY <1>4 DEF Accept, Fires, Types, Firing
  <2>2. Head(backlog) \in Conn
    BY <2>1, HeadTailProperties
  <2>3. fdCommand' \in Conn
    BY <1>4, <2>2 DEF Accept
  <2>4. fdCommand' # 0
    BY <2>3, Parameters DEF Conn
  <2>5. watch' = {"commands"} /\ pending_list' = {} /\ ev' = "connected"
    BY <1>4 DEF Accept, Fires, Firing
  <2> QED BY <2>4, <2>5
<1>5. CASE AcceptFails
  <2>1. /\ watch' = {"listen"} /\ pending_list' = {} /\ ev' = "fire" /\ fdCommand' = 0
    BY <1>5 DEF AcceptFails, Fires, Firing, Relisten
  <2> QED BY <2>1 DEF Firing, Attends
<1>6. CASE Greet
  BY <1>6 DEF Greet, sockVars
<1>7. CASE Resend
  BY <1>7 DEF Resend, sockVars, Firing, Attends
<1>8. CASE DropResent
  BY <1>8 DEF DropResent, sockVars, Firing, Attends
<1>9. CASE ReadCommands
  BY <1>9 DEF ReadCommands, Fires, Firing, sockVars
<1>10. CASE NoMoreCommands
  BY <1>10 DEF NoMoreCommands, sockVars, Firing, Attends
<1>11. CASE Dispatch
  <2>1. UNCHANGED <<fdCommand, watch, rfds, pending_list, ev, backlog>>
    BY <1>11 DEF Dispatch, sockVars
  <2> QED BY <2>1, TurnsStay
<1>12. CASE RequestAck
  BY <1>12, TurnsStay DEF RequestAck, sockVars, loopVars, clientVars
<1>13. CASE SendAck
  BY <1>13, TurnsStay DEF SendAck, sockVars, loopVars, clientVars
<1>14. CASE CloseCommands
  BY <1>14 DEF CloseCommands
<1>15. CASE ListenAgain
  BY <1>15 DEF ListenAgain, Relisten
<1>16. CASE CancelPending
  BY <1>16 DEF CancelPending, Firing, Attends, sockVars
<1> QED BY <1>1, <1>2, <1>3, <1>4, <1>5, <1>6, <1>7, <1>8, <1>9, <1>10, <1>11, <1>12,
           <1>13, <1>14, <1>15, <1>16 DEF EventThread

\* Nobody but the event thread touches the table.
LEMMA OthersTable ==
  ASSUME Types, Client \/ (\E t \in Thread : Libril(t))
         \/ (\E t \in Vendor : Completes(t) \/ Report(t))
  PROVE  /\ UNCHANGED <<fdCommand, watch, rfds, pending_list, ev>>
         /\ backlog # <<>> => backlog' # <<>>
<1>1. CASE Client
  <2>1. ASSUME NEW c \in Conn, Connect(c) PROVE backlog' # <<>>
    BY <2>1, AppendProperties DEF Connect, Types
  <2>2. UNCHANGED <<fdCommand, watch, rfds, pending_list, ev>>
    BY <1>1 DEF Client, Connect, HangUp, Ask, sockVars, loopVars
  <2>3. (\E c \in Conn : Connect(c)) \/ UNCHANGED backlog
    BY <1>1 DEF Client, HangUp, Ask
  <2> QED BY <2>1, <2>2, <2>3
<1>2. CASE \E t \in Thread : Libril(t)
  BY <1>2 DEF Libril, ReadFd, Written, WriteFails, KeepDrop, Keep, clientVars, sockVars, loopVars
<1>3. CASE \E t \in Vendor : Completes(t) \/ Report(t)
  BY <1>3 DEF Completes, RequestComplete, Report, clientVars, sockVars, loopVars
<1> QED BY <1>1, <1>2, <1>3

-----------------------------------------------------------------------------
(* The calls.                                                              *)

\* Calls that end, or go on about the same.
SameCall(t) == UNCHANGED <<job[t].what, job[t].of>>
GoesOn(t) ==
    /\ SameCall(t)
    /\ job'[t].at \in {"keep", "save"} => Reports(t)
    /\ job'[t].at \in {"acking", "acked"} => job[t].what = "ack"
CallsGoOn == \A t \in Thread : GoesOn(t) \/ job'[t] = NoJob

LEMMA CallsStay ==
  ASSUME Types, Calls, CallsGoOn, news' = news, ev = "resent" => ev' = "resent"
  PROVE  Calls'
<1>1. ASSUME NEW t \in Thread PROVE CallSound(t)' /\ (Reports(t)' => Reports(t))
  <2>1. CASE GoesOn(t)
    BY <2>1 DEF Calls, CallSound, GoesOn, SameCall, Reports, Resends
  <2>2. CASE job'[t] = NoJob
    BY <2>2 DEF CallSound, Reports, Resends, NoJob
  <2> QED BY <2>1, <2>2 DEF CallsGoOn
<1> QED BY <1>1 DEF Calls

LEMMA SameJobs ==
  ASSUME Types, Calls, UNCHANGED job PROVE CallsGoOn
  BY DEF CallsGoOn, GoesOn, SameCall, Calls, CallSound

LEMMA OneMoves ==
  ASSUME Types, Calls, NEW t \in Thread,
         Return(t) \/ Move(t, "send") \/ (Move(t, "acked") /\ job[t].what = "ack")
  PROVE  CallsGoOn
<1>1. ASSUME NEW u \in Thread, u # t PROVE GoesOn(u)
  BY <1>1 DEF Types, Calls, CallSound, GoesOn, SameCall, Return, Move
<1>2. GoesOn(t) \/ job'[t] = NoJob
  BY DEF Types, GoesOn, SameCall, Return, Move
<1> QED BY <1>1, <1>2 DEF CallsGoOn

LEMMA LibrilGoesOn ==
  ASSUME Types, Calls, NEW t \in Thread, Libril(t) PROVE CallsGoOn
<1>1. ASSUME NEW u \in Thread, u # t PROVE GoesOn(u)
  BY <1>1 DEF Types, Calls, CallSound, GoesOn, SameCall, Libril, ReadFd, Written, WriteFails,
              KeepDrop, Keep, Finish, Return, Move
<1>a. job \in [Thread -> Job]
  BY DEF Types, Job
<1>2. ASSUME Return(t) \/ (Keeps(t) /\ Move(t, "keep")) PROVE GoesOn(t) \/ job'[t] = NoJob
  BY <1>2, <1>a DEF Job, GoesOn, SameCall, Keeps, Return, Move, Reports
<1>6. GoesOn(t) \/ job'[t] = NoJob
  <2>1. CASE ReadFd(t)
    <3>1. CASE fdCommand = 0
      BY <1>2, <2>1, <3>1 DEF ReadFd, Finish
    <3>2. CASE fdCommand # 0
      BY <1>a, <2>1, <3>2 DEF Job, GoesOn, SameCall, ReadFd
    <3> QED BY <3>1, <3>2
  <2>2. CASE Written(t)
    BY <1>2, <2>2 DEF Written, Finish
  <2>3. CASE WriteFails(t)
    <3>1. CASE Finish(t, FALSE)
      BY <1>2, <3>1 DEF Finish
    <3>2. CASE job' = job
      BY <3>2 DEF GoesOn, SameCall, Calls, CallSound
    <3> QED BY <2>3, <3>1, <3>2 DEF WriteFails
  <2>4. CASE KeepDrop(t) \/ Keep(t)
    BY <1>a, <2>4 DEF Job, Calls, CallSound, GoesOn, SameCall, KeepDrop, Keep, At, Return, Move
  <2> QED BY <2>1, <2>2, <2>3, <2>4 DEF Libril
<1> QED BY <1>1, <1>6 DEF CallsGoOn

\* A new call of a thread that was in none.
LEMMA NewCall ==
  ASSUME Types, Calls, NEW t \in Thread, NEW call \in Job,
         Idle(t), job' = [job EXCEPT ![t] = call], news' = news,
         ev = "resent" => ev' = "resent", call.at = "send" \/ (call.at = "acking" /\ call.what = "ack"),
         call.what # "nitz",
         call.what \in {"answer", "error"} => call.of \in Request,
         call.what = "resend" => t = "event" /\ ev' = "resent" /\ call.of \in 1 .. MaxNews,
         call.what = "error" => t = "event"
  PROVE  Calls'
<1>1. job \in [Thread -> Job]
  BY DEF Types, Job
<1>2. ASSUME NEW u \in Thread, u # t PROVE CallSound(u)' /\ (Reports(u)' => Reports(u))
  BY <1>1, <1>2 DEF Calls, CallSound, Reports, Resends
<1>3. job'[t] = call
  BY <1>1
<1>4. CallSound(t)' /\ ~Reports(t)'
  BY <1>3 DEF CallSound, Reports, Resends
<1> QED BY <1>2, <1>4 DEF Calls

LEMMA OthersCalls ==
  ASSUME Types, Calls, Client \/ (\E t \in Thread : Libril(t))
         \/ (\E t \in Vendor : Completes(t) \/ Report(t))
  PROVE  Calls'
<1>a. Types /\ job \in [Thread -> Job] /\ ev' = ev
  BY OthersTable DEF Types, Job
<1>1. CASE Client
  <2>1. UNCHANGED <<job, news>>
    BY <1>1 DEF Client, Connect, HangUp, Ask
  <2> QED BY <1>a, <2>1, SameJobs, CallsStay
<1>2. ASSUME NEW t \in Thread, Libril(t) PROVE Calls'
  <2>1. news' = news
    BY <1>2 DEF Libril, ReadFd, Written, WriteFails, KeepDrop, Keep
  <2> QED BY <1>a, <1>2, <2>1, LibrilGoesOn, CallsStay
<1>3. ASSUME NEW t \in Vendor, NEW r \in Request, RequestComplete(t, r) PROVE Calls'
  <2>a. t \in Thread /\ r \in Nat
    BY Parameters DEF Request
  <2>1. news' = news
    BY <1>3 DEF RequestComplete
  <2>2. CASE r \in cancelled
    <3>1. job' = job
      BY <1>3, <2>2 DEF RequestComplete, Dequeue
    <3> QED BY <1>a, <2>1, <3>1, SameJobs, CallsStay
  <2>3. CASE r \notin cancelled
    <3> DEFINE call == Call("answer", "send", r)
    <3>1. call \in Job /\ call.at = "send" /\ call.what = "answer" /\ call.of = r
      BY <2>a, CallJob
    <3>2. Idle(t) /\ job' = [job EXCEPT ![t] = call]
      BY <1>3, <2>3 DEF RequestComplete, Dequeue
    <3> HIDE DEF call
    <3> QED BY <1>a, <2>a, <2>1, <3>1, <3>2, NewCall
  <2> QED BY <2>2, <2>3
<1>4. ASSUME NEW t \in Vendor, Report(t) PROVE Calls'
  <2>a. t \in Thread /\ news \in Nat /\ news + 1 \in Nat
    BY Parameters DEF Types
  <2> DEFINE call == Call("nitz", "send", news + 1)
  <2>1. call \in Job /\ call.at = "send" /\ call.what = "nitz" /\ call.of = news + 1
    BY <2>a, CallJob
  <2>2. /\ Idle(t) /\ job' = [job EXCEPT ![t] = call] /\ news' = news + 1
        /\ \A u \in Thread : ~Reports(u)
    BY <1>4 DEF Report, Reports
  <2> HIDE DEF call
  <2>3. ASSUME NEW u \in Thread, u # t PROVE CallSound(u)' /\ ~Reports(u)'
    BY <1>a, <2>2, <2>3 DEF Calls, CallSound, Reports, Resends
  <2>4. job'[t] = call
    BY <1>a, <2>2, <2>a
  <2>5. CallSound(t)'
    BY <2>1, <2>2, <2>4, <2>a DEF CallSound, Reports, Resends
  <2> QED BY <2>3, <2>5 DEF Calls
<1> QED BY <1>1, <1>2, <1>3, <1>4 DEF Completes

LEMMA EventCalls ==
  ASSUME Types, Turns, Calls, Requests, EventThread PROVE Calls'
<1>a. "event" \in Thread /\ job \in [Thread -> Job]
  BY Parameters DEF Types, Job
<1> USE DEF Event, Goto
<1>1. CASE UNCHANGED <<job, news>> /\ (ev = "resent" => ev' = "resent")
  BY <1>1, SameJobs, CallsStay
<1>2. ASSUME EnterSelect \/ LeaveSelect \/ FirePendingEnds \/ Accept \/ AcceptFails
             \/ ReadCommands \/ NoMoreCommands \/ CloseCommands \/ ListenAgain \/ CancelPending
      PROVE UNCHANGED <<job, news>> /\ ev # "resent"
  BY <1>2 DEF EnterSelect, LeaveSelect, FirePendingEnds, Accept, AcceptFails, Fires,
              ReadCommands, NoMoreCommands, CloseCommands, ListenAgain, CancelPending
<1>3. CASE Greet
  <2>1. Call("news", "send", 0) \in Job /\ Call("news", "send", 0).at = "send"
        /\ Call("news", "send", 0).what = "news"
    BY CallJob
  <2>2. /\ Idle("event") /\ job' = [job EXCEPT !["event"] = Call("news", "send", 0)]
        /\ news' = news /\ ev # "resent"
    BY <1>3 DEF Greet
  <2> QED BY <1>a, <2>1, <2>2, NewCall
<1>4. CASE Resend
  <2>1. news' = news /\ ev # "resent" /\ Idle("event")
    BY <1>4 DEF Resend
  <2>2. CASE s_lastNITZTimeData = 0
    BY <1>1, <1>4, <2>1, <2>2 DEF Resend
  <2>3. CASE s_lastNITZTimeData # 0
    <3>a. s_lastNITZTimeData \in Nat /\ s_lastNITZTimeData \in 1 .. MaxNews
      BY <2>3, Parameters DEF Types
    <3> DEFINE call == Call("resend", "send", s_lastNITZTimeData)
    <3>1. call \in Job /\ call.at = "send" /\ call.what = "resend" /\ call.of = s_lastNITZTimeData
      BY <3>a, CallJob
    <3>2. job' = [job EXCEPT !["event"] = call] /\ ev' = "resent"
      BY <1>4, <2>3 DEF Resend
    <3> HIDE DEF call
    <3> QED BY <1>a, <2>1, <3>a, <3>1, <3>2, NewCall
  <2> QED BY <2>2, <2>3
<1>5. CASE DropResent
  <2>1. job["event"] = NoJob /\ UNCHANGED <<job, news>>
    BY <1>5 DEF DropResent, Idle
  <2>2. ASSUME NEW t \in Thread PROVE CallSound(t)' /\ (Reports(t)' <=> Reports(t))
    BY <2>1 DEF Calls, CallSound, Reports, Resends, NoJob
  <2> QED BY <2>2 DEF Calls
<1>6. CASE Dispatch
  <2>a. fdCommand \in Conn
    BY <1>6 DEF Dispatch, Types, Turns, Serving, Conn
  <2>1. inbox[fdCommand] \in Seq(Request) /\ inbox[fdCommand] # <<>>
    BY <1>6, <2>a DEF Dispatch, Types
  <2> DEFINE r == Head(inbox[fdCommand])
  <2>2. r \in Request
    BY <2>1, HeadTailProperties
  <2>3. /\ news' = news /\ ev' = ev /\ Idle("event")
        /\ \/ job' = job
           \/ \E what \in {"error", "answer"} : job' = [job EXCEPT !["event"] = Call(what, "send", r)]
           \/ job' = [job EXCEPT !["event"] = Call("ack", "acking", r)]
    BY <1>6 DEF Dispatch, Unreadable, loopVars
  <2> HIDE DEF r
  <2>4. r \in Nat
    BY <2>2, Parameters DEF Request
  <2>5. ASSUME NEW what \in {"error", "answer"}, job' = [job EXCEPT !["event"] = Call(what, "send", r)]
        PROVE  Calls'
    <3> DEFINE call == Call(what, "send", r)
    <3>1. call \in Job /\ call.at = "send" /\ call.what = what /\ call.of = r
      BY <2>4, CallJob
    <3> HIDE DEF call
    <3> QED BY <1>a, <2>2, <2>3, <2>5, <3>1, NewCall DEF call
  <2>6. ASSUME job' = [job EXCEPT !["event"] = Call("ack", "acking", r)]
        PROVE  Calls'
    <3> DEFINE call == Call("ack", "acking", r)
    <3>1. call \in Job /\ call.at = "acking" /\ call.what = "ack" /\ call.of = r
      BY <2>4, CallJob
    <3>2. job' = [job EXCEPT !["event"] = call]
      BY <2>6
    <3> HIDE DEF call
    <3> QED BY <1>a, <2>3, <3>1, <3>2, NewCall
  <2> QED BY <1>1, <2>3, <2>5, <2>6
<1>7. CASE RequestAck
  <2>a. job["event"].what = "ack"
    BY <1>a, <1>7 DEF RequestAck, At, Calls, CallSound
  <2>1. news' = news /\ ev' = ev /\ (Return("event") \/ Move("event", "acked"))
    BY <1>7 DEF RequestAck, loopVars
  <2> QED BY <1>a, <2>a, <2>1, OneMoves, CallsStay
<1>8. CASE SendAck
  <2>1. news' = news /\ ev' = ev /\ (Return("event") \/ Move("event", "send"))
    BY <1>8 DEF SendAck, loopVars
  <2> QED BY <1>a, <2>1, OneMoves, CallsStay
<1> QED BY <1>1, <1>2, <1>3, <1>4, <1>5, <1>6, <1>7, <1>8 DEF EventThread

-----------------------------------------------------------------------------
(* The requests.                                                           *)

NoNewAnswers == \A t \in Thread, r \in Request : Answers(t, r)' => Answers(t, r)

NoNewWrites ==
    \A t \in Thread, r \in Request : Answers(t, r)' /\ job'[t].at = "write" =>
        job[t].at = "write" /\ job'[t].fd = job[t].fd

LEMMA GoOnAnswers ==
  ASSUME CallsGoOn PROVE NoNewAnswers
<1> SUFFICES ASSUME NEW t \in Thread, NEW r \in Request, Answers(t, r)' PROVE Answers(t, r)
  BY DEF NoNewAnswers
<1>1. CASE GoesOn(t)
  BY <1>1 DEF Answers, GoesOn, SameCall
<1>2. CASE job'[t] = NoJob
  BY <1>2 DEF Answers, NoJob
<1> QED BY <1>1, <1>2 DEF CallsGoOn

LEMMA RequestsStay ==
  ASSUME Types, Requests, NoNewAnswers, UNCHANGED <<inbox, asker, invalid, pending, held, released, answered>>
  PROVE  Requests'
<1>1. \A r \in Request : Untouched(r) => Untouched(r)'
  BY DEF Untouched, Unanswered, NoNewAnswers
<1>3. Unsent' /\ Queued'
  BY <1>1 DEF Requests, Unsent, Queued
<1>4. Pending' /\ Handed' /\ AtMostOnce'
  BY DEF Requests, Pending, ListHeld, Handed, AtMostOnce, Unanswered, NoNewAnswers
<1> QED BY <1>3, <1>4 DEF Requests

\* A request that somebody has in hand was sent and has left its client's queue.
LEMMA OnlyThere ==
  ASSUME Types, Requests, NEW r \in Request, ~Untouched(r)
  PROVE  /\ asker[r] # 0
         /\ \A c \in Conn : \A i \in DOMAIN inbox[c] : inbox[c][i] # r
  BY DEF Requests, Unsent, Queued

\* A thread is done with the request it answered, or could not answer.
LEMMA AnswerEnds ==
  ASSUME Types, Requests, NEW t \in Thread, NEW r \in Request, NEW c \in Conn,
         Answers(t, r), Return(t),
         answered' = answered \/ answered' = [answered EXCEPT ![r] = Append(@, c)],
         released' \subseteq released \cup {r}, released \subseteq released',
         UNCHANGED <<inbox, asker, invalid, pending, held>>
  PROVE  Requests'
<1>1. /\ Unanswered(r) /\ r \notin pending
      /\ \A u \in Thread : Answers(u, r) => t = u
  BY DEF Requests, Handed
<1>2. asker[r] # 0 /\ \A d \in Conn : \A i \in DOMAIN inbox[d] : inbox[d][i] # r
  BY OnlyThere DEF Untouched
<1>3. /\ \A u \in Thread, q \in Request : Answers(u, q)' => Answers(u, q) /\ q # r
  BY <1>1 DEF Types, Answers, Return, NoJob
<1>4. \A q \in Request : q # r => (Unanswered(q)' <=> Unanswered(q))
  BY DEF Unanswered, Types
<1>5. \A q \in Request : q # r /\ Untouched(q) => Untouched(q)'
  BY <1>3, <1>4 DEF Untouched
<1>7. Unsent' /\ Queued'
  BY <1>2, <1>5 DEF Requests, Unsent, Queued
<1>8. Pending'
  BY <1>1, <1>4 DEF Requests, Pending, ListHeld, Types
<1>9. Handed'
  BY <1>3, <1>4 DEF Requests, Handed
<1>10. AtMostOnce'
  <2>1. Append(<<>>, c) = <<c>> /\ Len(<<c>>) = 1 /\ Len(<<>>) = 0
    OBVIOUS
  <2>b. answered[r] = <<>> /\ answered \in [Request -> Seq(Conn)]
    BY <1>1 DEF Unanswered, Types
  <2>c. answered'[r] = answered[r] \/ answered'[r] = Append(answered[r], c)
    BY <2>b
  <2>a. answered'[r] = <<>> \/ answered'[r] = <<c>>
    BY <2>1, <2>b, <2>c
  <2>d. Len(answered'[r]) = 0 \/ Len(answered'[r]) = 1
    <3>1. CASE answered'[r] = <<>>
      BY <3>1
    <3>2. CASE answered'[r] = <<c>>
      BY <3>2
    <3> QED BY <2>a, <3>1, <3>2
  <2>2. Len(answered'[r]) <= 1
    <3> DEFINE n == Len(answered'[r])
    <3>1. n = 0 \/ n = 1
      BY <2>d
    <3> HIDE DEF n
    <3>2. n <= 1
      BY <3>1
    <3> QED BY <3>2 DEF n
  <2> QED BY <2>2 DEF Requests, AtMostOnce, Types
<1> QED BY <1>7, <1>8, <1>9, <1>10 DEF Requests

LEMMA FinishRequests ==
  ASSUME Types, Calls, Requests, NEW t \in Thread, NEW sent \in BOOLEAN, NEW c \in Conn,
         Finish(t, sent), UNCHANGED <<inbox, asker, invalid, pending, held>>,
         \/ answered' = answered
         \/ /\ job[t].what \in {"answer", "error"}
            /\ answered' = [answered EXCEPT ![job[t].of] = Append(@, c)]
  PROVE  Requests'
<1>1. CASE job[t].what \in {"answer", "error"}
  <2>1. job[t].of \in Request /\ Answers(t, job[t].of)
    BY <1>1 DEF Calls, CallSound, Answers
  <2>2. Return(t) /\ released' \subseteq released \cup {job[t].of} /\ released \subseteq released'
    BY <1>1 DEF Finish, Keeps
  <2> QED BY <2>1, <2>2, AnswerEnds
<1>2. CASE job[t].what \notin {"answer", "error"}
  <2>1. UNCHANGED <<answered, released>>
    BY <1>2 DEF Finish
  <2>2. NoNewAnswers
    <3>1. job \in [Thread -> Job]
      BY DEF Types, Job
    <3>2. CASE Move(t, "keep")
      BY <3>1, <3>2 DEF NoNewAnswers, Answers, Move, Job
    <3>3. CASE Return(t)
      BY <3>1, <3>3 DEF NoNewAnswers, Answers, Return, NoJob
    <3> QED BY <3>2, <3>3 DEF Finish
  <2> QED BY <2>1, <2>2, RequestsStay
<1> QED BY <1>1, <1>2

LEMMA LibrilRequests ==
  ASSUME Types, Calls, Requests, NEW t \in Thread, Libril(t)
  PROVE  Requests'
<1>a. UNCHANGED <<inbox, asker, invalid, pending, held>>
  BY DEF Libril, ReadFd, Written, WriteFails, KeepDrop, Keep, clientVars, requestVars
<1>b. NoNewAnswers
  BY LibrilGoesOn, GoOnAnswers
<1>1. CASE UNCHANGED <<answered, released>>
  BY <1>1, <1>a, <1>b, RequestsStay
<1>2. CASE ReadFd(t) /\ fdCommand = 0
  <2>1. Finish(t, FALSE) /\ answered' = answered
    BY <1>2 DEF ReadFd
  <2>2. CASE job[t].what \in {"answer", "error"}
    <3>1. job[t].of \in Request /\ Answers(t, job[t].of)
      BY <2>2 DEF Calls, CallSound, Answers
    <3>2. asker[job[t].of] # 0
      BY <3>1, OnlyThere DEF Untouched
    <3>3. asker[job[t].of] \in Conn
      BY <3>1, <3>2, Parameters DEF Types, Conn
    <3> QED BY <1>a, <2>1, <3>3, FinishRequests
  <2>3. CASE job[t].what \notin {"answer", "error"}
    BY <1>1, <2>1, <2>3 DEF Finish
  <2> QED BY <2>2, <2>3
<1>3. CASE ReadFd(t) /\ fdCommand # 0
  BY <1>1, <1>3 DEF ReadFd
<1>4. CASE Written(t)
  <2>1. /\ job[t].fd \in Conn /\ Finish(t, TRUE)
        /\ \/ answered' = answered
           \/ /\ job[t].what \in {"answer", "error"}
              /\ answered' = [answered EXCEPT ![job[t].of] = Append(@, job[t].fd)]
    BY <1>4 DEF Written, Types
  <2> QED BY <1>a, <2>1, FinishRequests
<1>5. CASE WriteFails(t)
  <2>1. answered' = answered
    BY <1>5 DEF WriteFails
  <2>2. CASE Finish(t, FALSE)
    <3>1. CASE job[t].what \in {"answer", "error"}
      <4>1. job[t].of \in Request /\ Answers(t, job[t].of)
        BY <3>1 DEF Calls, CallSound, Answers
      <4>2. asker[job[t].of] # 0
        BY <4>1, OnlyThere DEF Untouched
      <4>3. asker[job[t].of] \in Conn
        BY <4>1, <4>2, Parameters DEF Types, Conn
      <4> QED BY <1>a, <2>1, <2>2, <4>3, FinishRequests
    <3>2. CASE job[t].what \notin {"answer", "error"}
      BY <1>1, <2>1, <2>2, <3>2 DEF Finish
    <3> QED BY <3>1, <3>2
  <2>3. CASE released' = released
    BY <1>1, <2>1, <2>3
  <2> QED BY <1>5, <2>2, <2>3 DEF WriteFails
<1>6. CASE KeepDrop(t) \/ Keep(t)
  BY <1>1, <1>6 DEF KeepDrop, Keep, requestVars
<1> QED BY <1>2, <1>3, <1>4, <1>5, <1>6 DEF Libril

LEMMA ClientRequests ==
  ASSUME Types, Requests, Client PROVE Requests'
<1>1. CASE \E c \in Conn : Connect(c) \/ HangUp(c)
  <2>1. UNCHANGED <<inbox, asker, invalid, pending, held, released, answered, job>>
    BY <1>1 DEF Connect, HangUp, requestVars
  <2>2. NoNewAnswers
    BY <2>1 DEF NoNewAnswers, Answers
  <2> QED BY <2>1, <2>2, RequestsStay
<1>2. ASSUME NEW c \in Conn, NEW r \in Request, Ask(c, r) PROVE Requests'
  <2>1. /\ asker[r] = 0 /\ asker' = [asker EXCEPT ![r] = c]
        /\ inbox' = [inbox EXCEPT ![c] = Append(@, r)]
        /\ UNCHANGED <<pending, held, released, answered, invalid, job>>
    BY <1>2 DEF Ask, requestVars
  <2>2. \A q \in Request : Untouched(q)' <=> Untouched(q)
    BY <2>1 DEF Untouched, Unanswered, Answers
  <2>3. Pending' /\ Handed' /\ AtMostOnce'
    BY <2>1 DEF Requests, Pending, ListHeld, Handed, AtMostOnce, Unanswered, Answers
  <2>4. Unsent'
    BY <2>1, <2>2 DEF Requests, Unsent, Types
  <2>5. Untouched(r)'
    BY <2>1 DEF Requests, Unsent, Untouched, Unanswered, Answers
  <2>6. ASSUME NEW d \in Conn, NEW q \in Request, NEW i \in DOMAIN inbox'[d], inbox'[d][i] = q
        PROVE  /\ asker'[q] = d /\ Untouched(q)'
               /\ \A j \in DOMAIN inbox'[d] : inbox'[d][j] = q => i = j
    <3>a. inbox[d] \in Seq(Request)
      BY DEF Types
    <3>b. \A k \in DOMAIN inbox[d] : inbox[d][k] # r
      BY <2>1, Parameters DEF Requests, Queued, Conn
    <3>c. ASSUME NEW k \in DOMAIN inbox[d], inbox[d][k] = q
          PROVE  /\ asker'[q] = d /\ Untouched(q)'
                 /\ \A j \in DOMAIN inbox[d] : inbox[d][j] = q => k = j
      <4>1. /\ asker[q] = d /\ Untouched(q) /\ q # r
            /\ \A j \in DOMAIN inbox[d] : inbox[d][j] = q => k = j
        BY <3>b, <3>c DEF Requests, Queued
      <4>2. asker'[q] = d
        BY <2>1, <4>1 DEF Types
      <4>3. Untouched(q)'
        BY <2>1, <4>1 DEF Untouched, Unanswered, Answers
      <4> QED BY <4>1, <4>2, <4>3
    <3>1. CASE d # c
      <4>1. inbox'[d] = inbox[d]
        BY <2>1, <3>1 DEF Types
      <4> QED BY <2>6, <3>c, <4>1
    <3>2. CASE d = c
      <4>1. inbox'[d] = Append(inbox[d], r)
        BY <2>1, <3>2 DEF Types
      <4> DEFINE last == Len(inbox[d]) + 1
      <4>2. /\ DOMAIN inbox'[d] = DOMAIN inbox[d] \cup {last}
            /\ \A k \in DOMAIN inbox[d] : inbox'[d][k] = inbox[d][k]
            /\ inbox'[d][last] = r
        BY <3>a, <4>1, AppendProperties
      <4> HIDE DEF last
      <4>3. asker'[r] = d
        BY <2>1, <3>2 DEF Types
      <4>5. CASE i = last
        <5>1. q = r
          BY <2>6, <4>2, <4>5
        <5>2. \A j \in DOMAIN inbox'[d] : inbox'[d][j] = q => i = j
          BY <3>b, <4>2, <4>5, <5>1
        <5> QED BY <2>5, <4>3, <5>1, <5>2
      <4>6. CASE i \in DOMAIN inbox[d]
        <5>1. inbox[d][i] = q /\ q # r
          BY <2>6, <3>b, <4>2, <4>6
        <5> QED BY <3>c, <4>2, <4>6, <5>1
      <4> QED BY <4>2, <4>5, <4>6
    <3> QED BY <3>1, <3>2
  <2> QED BY <2>3, <2>4, <2>6 DEF Requests, Queued
<1> QED BY <1>1, <1>2 DEF Client

\* The requests that stay in the queues when r is taken out.
OthersQueued(r) ==
    \A d \in Conn, q \in Request : \A i \in DOMAIN inbox'[d] : inbox'[d][i] = q =>
        /\ q # r /\ asker[q] = d /\ Untouched(q)
        /\ \A j \in DOMAIN inbox'[d] : inbox'[d][j] = q => i = j

\* The first request of a queue is taken out.
LEMMA TakenOut ==
  ASSUME Types, Requests, NEW c \in Conn, inbox[c] # <<>>,
         inbox' = [inbox EXCEPT ![c] = Tail(@)], NEW r \in Request, r = Head(inbox[c])
  PROVE  asker[r] = c /\ Untouched(r) /\ OthersQueued(r)
<1>1. \A d \in Conn, q \in Request : \A k \in DOMAIN inbox[d] : inbox[d][k] = q =>
         /\ asker[q] = d /\ Untouched(q)
         /\ \A j \in DOMAIN inbox[d] : inbox[d][j] = q => k = j
  BY DEF Requests, Queued
<1>2. inbox[c] \in Seq(Request) /\ inbox'[c] = Tail(inbox[c])
  BY DEF Types
<1>3. /\ Len(inbox[c]) \in Nat /\ Len(inbox[c]) >= 1
      /\ DOMAIN inbox[c] = 1 .. Len(inbox[c])
      /\ r = inbox[c][1]
  BY <1>2
<1>4. /\ DOMAIN inbox'[c] = 1 .. (Len(inbox[c]) - 1)
      /\ \A i \in 1 .. (Len(inbox[c]) - 1) : inbox'[c][i] = inbox[c][i + 1]
  <2>1. /\ inbox'[c] \in Seq(Request) /\ Len(inbox'[c]) = Len(inbox[c]) - 1
        /\ \A i \in 1 .. Len(inbox'[c]) : inbox'[c][i] = inbox[c][i + 1]
    BY <1>2, HeadTailProperties
  <2> QED BY <2>1
<1>5. asker[r] = c /\ Untouched(r) /\ \A j \in DOMAIN inbox[c] : inbox[c][j] = r => 1 = j
  BY <1>1, <1>3
<1>6. ASSUME NEW d \in Conn, NEW q \in Request, NEW i \in DOMAIN inbox'[d], inbox'[d][i] = q
      PROVE  /\ q # r /\ asker[q] = d /\ Untouched(q)
             /\ \A j \in DOMAIN inbox'[d] : inbox'[d][j] = q => i = j
  <2>1. CASE d = c
    <3>1. i + 1 \in DOMAIN inbox[c] /\ inbox[c][i + 1] = q /\ i + 1 # 1 /\ i \in Int
      BY <1>3, <1>4, <1>6, <2>1
    <3>2. /\ asker[q] = c /\ Untouched(q) /\ q # r
          /\ \A j \in DOMAIN inbox[c] : inbox[c][j] = q => i + 1 = j
      BY <1>1, <1>5, <3>1
    <3>3. ASSUME NEW j \in DOMAIN inbox'[c], inbox'[c][j] = q PROVE i = j
      <4>1. j \in Int /\ j + 1 \in DOMAIN inbox[c] /\ inbox[c][j + 1] = q
        BY <1>3, <1>4, <3>3
      <4> QED BY <3>1, <3>2, <4>1
    <3> QED BY <2>1, <3>2, <3>3
  <2>2. CASE d # c
    <3>1. inbox'[d] = inbox[d]
      BY <2>2 DEF Types
    <3> QED BY <1>1, <1>5, <1>6, <2>2, <3>1
  <2> QED BY <2>1, <2>2
<1> QED BY <1>5, <1>6 DEF OthersQueued

\* Nobody answers a request but a thread that is given it.
LEMMA GivenAnswer ==
  ASSUME Types, NEW t \in Thread, NEW r \in Request, job[t] = NoJob, NEW call \in Job,
         call.what \in {"answer", "error"}, call.of = r, job' = [job EXCEPT ![t] = call]
  PROVE  \A u \in Thread, q \in Request :
            Answers(u, q)' <=> (u # t /\ Answers(u, q)) \/ (u = t /\ q = r)
<1>1. job'[t] = call /\ \A u \in Thread : u # t => job'[u] = job[u]
  BY DEF Types
<1> QED BY <1>1 DEF Answers, NoJob

LEMMA CompleteRequests ==
  ASSUME Types, Requests, NEW t \in Vendor, NEW r \in Request, RequestComplete(t, r)
  PROVE  Requests'
<1>a. t \in Thread /\ r \in Nat /\ job[t] = NoJob
  BY Parameters DEF Request, RequestComplete, Idle
<1>1. /\ r \in pending /\ held' = held \ {r} /\ pending' = pending \ {r}
      /\ UNCHANGED <<inbox, asker, invalid, answered>>
  BY DEF RequestComplete, Taken, clientVars
<1>2. /\ Unanswered(r) /\ ~Untouched(r) /\ \A u \in Thread : ~Answers(u, r)
  BY <1>1 DEF Requests, Pending, Handed, Untouched
<1>3. asker[r] # 0 /\ \A d \in Conn : \A i \in DOMAIN inbox[d] : inbox[d][i] # r
  BY <1>2, OnlyThere
<1>4. CASE r \in cancelled
  <2>1. released' = released \cup {r} /\ job' = job
    BY <1>4 DEF RequestComplete, Dequeue
  <2>2. \A q \in Request : q # r => (Untouched(q)' <=> Untouched(q)) /\ (Unanswered(q)' <=> Unanswered(q))
    BY <1>1, <2>1 DEF Untouched, Unanswered, Answers
  <2>3. Unsent' /\ Queued'
    BY <1>1, <1>3, <2>2 DEF Requests, Unsent, Queued
  <2>4. Pending'
    BY <1>1, <2>2 DEF Requests, Pending, ListHeld, Types
  <2>5. Handed'
    BY <1>1, <1>2, <2>1, <2>2 DEF Requests, Handed, Answers
  <2>6. AtMostOnce'
    BY <1>1 DEF Requests, AtMostOnce
  <2> QED BY <2>3, <2>4, <2>5, <2>6 DEF Requests
<1>5. CASE r \notin cancelled
  <2> DEFINE call == Call("answer", "send", r)
  <2>1. call \in Job /\ call.what = "answer" /\ call.of = r
    BY <1>a, CallJob
  <2>2. released' = released /\ job' = [job EXCEPT ![t] = call]
    BY <1>5 DEF RequestComplete, Dequeue
  <2> HIDE DEF call
  <2>3. \A u \in Thread, q \in Request :
            Answers(u, q)' <=> (u # t /\ Answers(u, q)) \/ (u = t /\ q = r)
    BY <1>a, <2>1, <2>2, GivenAnswer
  <2>4. \A q \in Request : /\ Unanswered(q)' <=> Unanswered(q)
                           /\ q # r /\ Untouched(q) => Untouched(q)'
    BY <1>1, <2>2, <2>3 DEF Untouched, Unanswered
  <2>5. Unsent' /\ Queued'
    BY <1>1, <1>3, <2>4 DEF Requests, Unsent, Queued
  <2>6. Pending'
    BY <1>1, <2>4 DEF Requests, Pending, ListHeld, Types
  <2>7. Handed'
    BY <1>1, <1>2, <2>3, <2>4 DEF Requests, Handed
  <2>8. AtMostOnce'
    BY <1>1 DEF Requests, AtMostOnce
  <2> QED BY <2>5, <2>6, <2>7, <2>8 DEF Requests
<1> QED BY <1>4, <1>5

LEMMA DispatchRequests ==
  ASSUME Types, Turns, Requests, Dispatch PROVE Requests'
<1>a. "event" \in Thread /\ job["event"] = NoJob
  BY Parameters DEF Dispatch, Event, Idle
<1>b. fdCommand \in Conn
  BY DEF Dispatch, Event, Types, Turns, Serving, Conn
<1>1. inbox[fdCommand] \in Seq(Request) /\ inbox[fdCommand] # <<>>
  BY <1>b DEF Dispatch, Types
<1> DEFINE r == Head(inbox[fdCommand])
<1>2. r \in Request
  BY <1>1, HeadTailProperties
<1>3. /\ inbox' = [inbox EXCEPT ![fdCommand] = Tail(@)]
      /\ UNCHANGED <<asker, answered, released>>
      /\ \/ /\ \E what \in {"answer", "error"} : job' = [job EXCEPT !["event"] = Call(what, "send", r)]
            /\ UNCHANGED <<pending, held, invalid>>
         \/ /\ invalid' = invalid \cup {r} /\ UNCHANGED <<job, held>>
            /\ pending' \in {pending, pending \cup {r}}
         \/ /\ pending' = pending \cup {r} /\ held' = held \cup {r} /\ UNCHANGED invalid
            /\ job' = job \/ job' = [job EXCEPT !["event"] = Call("ack", "acking", r)]
  BY DEF Dispatch, Unreadable
<1>4. r = Head(inbox[fdCommand])
  OBVIOUS
<1> HIDE DEF r
<1>5. asker[r] = fdCommand /\ Untouched(r) /\ asker[r] # 0 /\ OthersQueued(r)
  <2>1. fdCommand # 0
    BY <1>b, Parameters DEF Conn
  <2>2. inbox' = [inbox EXCEPT ![fdCommand] = Tail(@)]
    BY <1>3
  <2> QED BY <1>b, <1>1, <1>2, <1>4, <2>1, <2>2, TakenOut
<1>6. r \in Nat
  BY <1>2, Parameters DEF Request
<1>7. \A q \in Request : Unanswered(q)' <=> Unanswered(q)
  BY <1>3 DEF Unanswered
<1>8. AtMostOnce'
  BY <1>3 DEF Requests, AtMostOnce
<1>9. ASSUME NEW what \in {"answer", "error"}, UNCHANGED <<pending, held, invalid>>,
             job' = [job EXCEPT !["event"] = Call(what, "send", r)]
      PROVE  Requests'
  <2> DEFINE call == Call(what, "send", r)
  <2>1. call \in Job /\ call.what \in {"answer", "error"} /\ call.of = r
    BY <1>6, CallJob
  <2>2. job' = [job EXCEPT !["event"] = call]
    BY <1>9
  <2> HIDE DEF call
  <2>3. \A u \in Thread, q \in Request :
            Answers(u, q)' <=> (u # "event" /\ Answers(u, q)) \/ (u = "event" /\ q = r)
    BY <1>a, <1>2, <2>1, <2>2, GivenAnswer
  <2>4. \A q \in Request : q # r /\ Untouched(q) => Untouched(q)'
    BY <1>7, <1>9, <2>3 DEF Untouched
  <2>5. Unsent' /\ Queued'
    BY <1>3, <1>5, <2>4 DEF Requests, Unsent, Queued, OthersQueued
  <2>6. Pending'
    BY <1>7, <1>9 DEF Requests, Pending, ListHeld, Types
  <2>7. Handed'
    BY <1>5, <1>7, <1>9, <2>3 DEF Requests, Handed, Untouched
  <2> QED BY <1>8, <2>5, <2>6, <2>7 DEF Requests
<1>10. ASSUME \/ /\ pending' = pending \cup {r} /\ held' = held \cup {r}
                 /\ UNCHANGED invalid
              \/ /\ pending' \in {pending, pending \cup {r}} /\ UNCHANGED held
                 /\ invalid' = invalid \cup {r},
              job' = job \/ job' = [job EXCEPT !["event"] = Call("ack", "acking", r)]
       PROVE  Requests'
  <2>1. Call("ack", "acking", r).what = "ack"
    BY <1>6, CallJob
  <2>2. job \in [Thread -> Job]
    BY DEF Types, Job
  <2>3. \A u \in Thread, q \in Request : Answers(u, q)' <=> Answers(u, q)
    BY <1>a, <1>10, <2>1, <2>2 DEF Answers, NoJob
  <2>4. \A q \in Request : q # r /\ Untouched(q) => Untouched(q)'
    BY <1>7, <1>10, <2>3 DEF Untouched
  <2>5. Unsent' /\ Queued'
    BY <1>3, <1>5, <2>4 DEF Requests, Unsent, Queued, OthersQueued
  <2>6. Pending'
    <3>1. held = pending \ invalid /\ r \notin pending \cup invalid /\ Unanswered(r)
      BY <1>5 DEF Requests, Pending, ListHeld, Untouched
    <3>2. ListHeld'
      BY <1>10, <3>1 DEF ListHeld
    <3>3. \A q \in pending' : Unanswered(q)'
      <4>1. pending \subseteq Request /\ pending' \subseteq pending \cup {r}
        BY <1>10 DEF Types
      <4> QED BY <1>2, <1>7, <3>1, <4>1 DEF Requests, Pending
    <3> QED BY <3>2, <3>3 DEF Pending
  <2>7. Handed'
    BY <1>5, <1>7, <1>10, <2>3 DEF Requests, Handed, Untouched
  <2> QED BY <1>8, <2>5, <2>6, <2>7 DEF Requests
<1> QED BY <1>3, <1>9, <1>10

\* The rest of what the event thread does gives nobody a request to answer.
LEMMA EventQuiet ==
  ASSUME Types, Turns, Calls, EventThread, ~Dispatch
  PROVE  /\ NoNewAnswers
         /\ UNCHANGED <<inbox, asker, invalid, pending, held, released, answered>>
         /\ NoNewWrites
<1>a. job \in [Thread -> Job] /\ "event" \in Thread /\ s_lastNITZTimeData \in Nat
  BY Parameters DEF Types, Job
<1>1. UNCHANGED <<inbox, asker, invalid, pending, held, released, answered>>
  BY DEF EventThread, EnterSelect, LeaveSelect, FirePendingEnds, Accept, AcceptFails, Greet, Resend,
         DropResent, ReadCommands, NoMoreCommands, RequestAck, SendAck, CloseCommands, ListenAgain,
         CancelPending, clientVars, requestVars
<1>2. \A n \in Nat : /\ Call("news", "send", n) \in Job /\ Call("resend", "send", n) \in Job
                    /\ Call("news", "send", n).what = "news"
                    /\ Call("resend", "send", n).what = "resend"
  BY CallJob
<1>3. \/ job' = job
      \/ \E call \in Job : /\ call.what \in {"news", "resend"}
                           /\ job' = [job EXCEPT !["event"] = call]
      \/ Return("event") \/ Move("event", "acked") \/ Move("event", "send")
  <2>1. CASE Greet
    BY <1>2, <2>1 DEF Greet
  <2>2. CASE Resend
    BY <1>a, <1>2, <2>2 DEF Resend
  <2>3. CASE RequestAck \/ SendAck
    BY <2>3 DEF RequestAck, SendAck
  <2>4. CASE ~(Greet \/ Resend \/ RequestAck \/ SendAck)
    BY <2>4 DEF EventThread, EnterSelect, LeaveSelect, FirePendingEnds, Accept, AcceptFails,
           DropResent, ReadCommands, NoMoreCommands, CloseCommands, ListenAgain, CancelPending
  <2> QED BY <2>1, <2>2, <2>3, <2>4
<1>4. NoNewAnswers /\ NoNewWrites
  <2>1. CASE job' = job
    BY <2>1 DEF NoNewAnswers, NoNewWrites, Answers
  <2>2. ASSUME NEW call \in Job, call.what \in {"news", "resend"}, job' = [job EXCEPT !["event"] = call]
        PROVE  NoNewAnswers /\ NoNewWrites
    BY <1>a, <2>2 DEF NoNewAnswers, NoNewWrites, Answers
  <2>3. CASE Return("event")
    BY <1>a, <2>3 DEF NoNewAnswers, NoNewWrites, Answers, Return, NoJob
  <2>4. ASSUME NEW place \in {"acked", "send"}, Move("event", place)
        PROVE  NoNewAnswers /\ NoNewWrites
    BY <1>a, <2>4 DEF NoNewAnswers, NoNewWrites, Answers, Move, Job
  <2> QED BY <1>3, <2>1, <2>2, <2>3, <2>4
<1> QED BY <1>1, <1>4

LEMMA EventRequests ==
  ASSUME Types, Turns, Calls, Requests, EventThread PROVE Requests'
  BY DispatchRequests, EventQuiet, RequestsStay

LEMMA OthersRequests ==
  ASSUME Types, Turns, Calls, Requests, Client \/ (\E t \in Thread : Libril(t))
         \/ (\E t \in Vendor : Completes(t) \/ Report(t))
  PROVE  Requests'
<1>1. ASSUME NEW t \in Vendor, Report(t) PROVE Requests'
  <2>a. t \in Thread /\ news + 1 \in Nat /\ job \in [Thread -> Job]
    BY Parameters DEF Types, Job
  <2>1. Call("nitz", "send", news + 1).what = "nitz"
    BY <2>a, CallJob
  <2>2. /\ job' = [job EXCEPT ![t] = Call("nitz", "send", news + 1)]
        /\ UNCHANGED <<inbox, asker, invalid, pending, held, released, answered>>
    BY <1>1 DEF Report, clientVars, requestVars
  <2>3. NoNewAnswers
    BY <2>a, <2>1, <2>2 DEF NoNewAnswers, Answers
  <2> QED BY <2>2, <2>3, RequestsStay
<1> QED BY <1>1, ClientRequests, LibrilRequests, CompleteRequests DEF Completes

-----------------------------------------------------------------------------
(* Whom a request is answered to.                                          *)

LEMMA InHandSent ==
  ASSUME Types, Requests, NEW r \in Request, InHand(r)
  PROVE  asker[r] # 0 /\ asker[r] \in Conn
<1>1. asker[r] # 0
  BY OnlyThere DEF InHand, Untouched
<1> QED BY <1>1, Parameters DEF Types, Conn

LEMMA AddressedStay ==
  ASSUME Types, Addressed, NoNewAnswers, NoNewWrites, UNCHANGED <<asker, answered>>,
         late \subseteq late', pending' \ cancelled' \subseteq pending \ cancelled,
         \A r \in Request : r \notin late' /\ InHand(r)' =>
             ((fdCommand = asker[r] \/ (fdCommand = 0 /\ ev = "cancel"))
              => fdCommand' = asker[r] \/ (fdCommand' = 0 /\ ev' = "cancel"))
  PROVE  Addressed'
<1> SUFFICES ASSUME NEW r \in Request, r \notin late'
             PROVE  /\ InHand(r)' => fdCommand' = asker[r] \/ (fdCommand' = 0 /\ ev' = "cancel")
                    /\ \A t \in Thread : (Answers(t, r) /\ job[t].at = "write")' => job'[t].fd = asker[r]
                    /\ \A i \in DOMAIN answered[r] : answered[r][i] = asker[r]
  BY DEF Addressed
<1>1. InHand(r)' => InHand(r)
  BY DEF InHand, NoNewAnswers
<1>2. \A t \in Thread : (Answers(t, r) /\ job[t].at = "write")' =>
         Answers(t, r) /\ job[t].at = "write" /\ job'[t].fd = job[t].fd
  BY DEF NoNewAnswers, NoNewWrites
<1> QED BY <1>1, <1>2 DEF Addressed

LEMMA EventAddressed ==
  ASSUME Types, Turns, Calls, Requests, Addressed, EventThread PROVE Addressed'
<1>1. CASE ~Dispatch
  <2>1. NoNewAnswers /\ NoNewWrites
        /\ UNCHANGED <<inbox, asker, invalid, pending, held, released, answered>>
    BY <1>1, EventQuiet
  <2>2. CASE CancelPending
    <3>a. /\ late' = late \cup {job[t].of : t \in {u \in Vendor : job[u].what = "answer"}}
          /\ cancelled' = cancelled \cup pending /\ job' = job /\ job["event"] = NoJob
      BY <2>2 DEF CancelPending, MarkPending, Event, Idle
    <3>1. ASSUME NEW r \in Request, NEW t \in Thread, Answers(t, r)' PROVE r \in late'
      <4>1. Answers(t, r) /\ t # "event"
        BY <3>a, <3>1 DEF Answers, NoJob
      <4>2. t \in Vendor /\ job[t].what = "answer" /\ job[t].of = r
        BY <4>1 DEF Thread, Answers, Calls, CallSound
      <4> QED BY <3>a, <4>2
    <3>2. \A r \in Request : r \notin late' => ~InHand(r)'
      BY <2>1, <3>a, <3>1 DEF InHand
    <3> QED BY <2>1, <3>a, <3>2, AddressedStay
  <2>3. CASE ListenAgain
    BY <2>1, <2>3, AddressedStay DEF ListenAgain, Event, Goto, requestVars
  <2>4. CASE Accept
    <3>1. fdCommand = 0 /\ ev = "fire" /\ UNCHANGED <<cancelled, late>>
      BY <2>4 DEF Accept, Fires, Event, Turns, Firing, requestVars
    <3>2. \A r \in Request : r \notin late' => ~InHand(r)
      BY <3>1, InHandSent DEF Addressed
    <3>3. \A r \in Request : InHand(r)' => InHand(r)
      BY <2>1, <3>1 DEF InHand, NoNewAnswers
    <3> QED BY <2>1, <3>1, <3>2, <3>3, AddressedStay
  <2>5. CASE ~(CancelPending \/ ListenAgain \/ Accept)
    <3>1. UNCHANGED <<fdCommand, cancelled, late>> /\ (ev = "cancel" => ev' = "cancel")
      BY <1>1, <2>5 DEF EventThread, EnterSelect, LeaveSelect, FirePendingEnds, AcceptFails, Greet, Resend,
         DropResent, ReadCommands, NoMoreCommands, RequestAck, SendAck, CloseCommands, Fires, Event, Goto,
         sockVars, loopVars, requestVars
    <3> QED BY <2>1, <3>1, AddressedStay
  <2> QED BY <2>2, <2>3, <2>4, <2>5
<1>2. CASE Dispatch
  <2>a. job["event"] = NoJob /\ job \in [Thread -> Job] /\ "event" \in Thread
    BY <1>2, Parameters DEF Dispatch, Event, Idle, Types, Job
  <2>b. fdCommand \in Conn
    BY <1>2 DEF Dispatch, Event, Types, Turns, Serving, Conn
  <2>1. inbox[fdCommand] \in Seq(Request) /\ inbox[fdCommand] # <<>>
    BY <1>2, <2>b DEF Dispatch, Types
  <2> DEFINE r == Head(inbox[fdCommand])
  <2>2. r \in Request
    BY <2>1, HeadTailProperties
  <2>3. /\ inbox' = [inbox EXCEPT ![fdCommand] = Tail(@)]
        /\ UNCHANGED <<asker, answered, late, cancelled, fdCommand, ev>>
        /\ pending' \subseteq pending \cup {r}
        /\ \/ job' = job
           \/ \E what \in {"answer", "error"} : job' = [job EXCEPT !["event"] = Call(what, "send", r)]
           \/ job' = [job EXCEPT !["event"] = Call("ack", "acking", r)]
    BY <1>2 DEF Dispatch, Unreadable, sockVars
  <2>4. r = Head(inbox[fdCommand])
    OBVIOUS
  <2> HIDE DEF r
  <2>5. r \in Nat
    BY <2>2, Parameters DEF Request
  <2>c. inbox' = [inbox EXCEPT ![fdCommand] = Tail(@)]
    BY <2>3
  <2>6. asker[r] = fdCommand
    BY <2>b, <2>1, <2>2, <2>4, <2>c, TakenOut
  <2>7. \A what \in {"answer", "error", "ack"}, at \in {"send", "acking"} :
           /\ Call(what, at, r).at = at /\ Call(what, at, r).of = r
    BY <2>5, CallJob
  <2>8. \A t \in Thread, q \in Request : Answers(t, q)' =>
           \/ Answers(t, q) /\ UNCHANGED <<job[t].at, job[t].fd>>
           \/ q = r /\ job'[t].at # "write"
    <3>1. CASE job' = job
      BY <3>1 DEF Answers
    <3>2. ASSUME NEW what \in {"answer", "error", "ack"}, NEW at \in {"send", "acking"},
                 job' = [job EXCEPT !["event"] = Call(what, at, r)]
          PROVE  \A t \in Thread, q \in Request : Answers(t, q)' =>
           \/ Answers(t, q) /\ UNCHANGED <<job[t].at, job[t].fd>>
           \/ q = r /\ job'[t].at # "write"
      BY <2>a, <2>7, <3>2 DEF Answers
    <3> QED BY <2>3, <3>1, <3>2
  <2>9. ASSUME NEW q \in Request, q \notin late'
        PROVE  /\ InHand(q)' => fdCommand' = asker'[q] \/ (fdCommand' = 0 /\ ev' = "cancel")
               /\ \A t \in Thread : (Answers(t, q) /\ job[t].at = "write")' => job'[t].fd = asker'[q]
               /\ \A i \in DOMAIN answered'[q] : answered'[q][i] = asker'[q]
    <3>1. InHand(q)' => InHand(q) \/ q = r
      BY <2>3, <2>8 DEF InHand
    <3> QED BY <2>3, <2>6, <2>8, <2>9, <3>1 DEF Addressed
  <2> QED BY <2>9 DEF Addressed
<1> QED BY <1>1, <1>2

LEMMA LibrilAddressed ==
  ASSUME Types, Calls, Requests, Addressed, NEW t \in Thread, Libril(t) PROVE Addressed'
<1>a. job \in [Thread -> Job]
  BY DEF Types, Job
<1>b. NoNewAnswers
  BY LibrilGoesOn, GoOnAnswers
<1>c. UNCHANGED <<asker, late, pending, cancelled, fdCommand, ev>>
  BY DEF Libril, ReadFd, Written, WriteFails, KeepDrop, Keep, clientVars, sockVars, loopVars, requestVars
<1>d. \A u \in Thread : u # t => job'[u] = job[u]
  BY <1>a DEF Libril, ReadFd, Written, WriteFails, KeepDrop, Keep, Finish, Return, Move
<1>e. \A r \in Request : InHand(r)' => InHand(r)
  BY <1>b, <1>c DEF InHand, NoNewAnswers
<1>1. CASE NoNewWrites /\ answered' = answered
  BY <1>1, <1>b, <1>c, AddressedStay
<1>2. CASE ReadFd(t)
  <2>1. CASE fdCommand = 0
    <3>1. answered' = answered /\ (Return(t) \/ Move(t, "keep"))
      BY <1>2, <2>1 DEF ReadFd, Finish
    <3>2. NoNewWrites
      BY <1>a, <3>1 DEF NoNewWrites, Answers, Return, Move, NoJob, Job
    <3> QED BY <1>1, <3>1, <3>2
  <2>2. CASE fdCommand # 0
    <3>1. answered' = answered /\ job'[t].fd = fdCommand
      <4>1. job[t] \in Job
        BY <1>a
      <4>2. [job[t] EXCEPT !.at = "write", !.fd = fdCommand].fd = fdCommand
        BY <4>1 DEF Job
      <4>3. /\ answered' = answered
            /\ job' = [job EXCEPT ![t] = [job[t] EXCEPT !.at = "write", !.fd = fdCommand]]
        BY <1>2, <1>a, <2>2 DEF ReadFd
      <4> QED BY <1>a, <4>2, <4>3
    <3> QED BY <1>b, <1>c, <1>d, <1>e, <2>2, <3>1 DEF Addressed, InHand, NoNewAnswers
  <2> QED BY <2>1, <2>2
<1>3. CASE Written(t)
  <2>1. /\ Return(t) /\ job[t].at = "write" /\ job[t].fd \in Conn
        /\ \/ answered' = answered
           \/ /\ job[t].what \in {"answer", "error"}
              /\ answered' = [answered EXCEPT ![job[t].of] = Append(@, job[t].fd)]
    BY <1>3 DEF Written, At, Finish, Types
  <2>2. NoNewWrites
    BY <1>a, <2>1 DEF NoNewWrites, Answers, Return, NoJob
  <2>3. CASE answered' = answered
    BY <1>1, <2>2, <2>3
  <2>4. CASE answered' # answered
    <3> DEFINE r == job[t].of
    <3>1. r \in Request /\ Answers(t, r)
      BY <2>1, <2>4 DEF Calls, CallSound, Answers
    <3>2. answered[r] = <<>> /\ answered' = [answered EXCEPT ![r] = Append(@, job[t].fd)]
      BY <2>1, <2>4, <3>1 DEF Requests, Handed, Unanswered
    <3>3. answered'[r] = <<job[t].fd>> /\ \A q \in Request : q # r => answered'[q] = answered[q]
      BY <3>1, <3>2 DEF Types
    <3> HIDE DEF r
    <3>4. ASSUME NEW q \in Request, q \notin late
          PROVE  \A i \in DOMAIN answered'[q] : answered'[q][i] = asker[q]
      <4>1. CASE q = r
        <5>1. job[t].fd = asker[q]
          BY <2>1, <3>1, <3>4, <4>1 DEF Addressed
        <5> QED BY <3>3, <4>1, <5>1
      <4>2. CASE q # r
        BY <3>3, <3>4, <4>2 DEF Addressed
      <4> QED BY <4>1, <4>2
    <3> QED BY <1>b, <1>c, <1>e, <2>2, <3>4 DEF Addressed, NoNewAnswers, NoNewWrites
  <2> QED BY <2>3, <2>4
<1>4. CASE WriteFails(t)
  <2>1. answered' = answered /\ (Return(t) \/ Move(t, "keep") \/ job' = job)
    BY <1>4 DEF WriteFails, Finish
  <2>2. NoNewWrites
    BY <1>a, <2>1 DEF NoNewWrites, Answers, Return, Move, NoJob, Job
  <2> QED BY <1>1, <2>1, <2>2
<1>5. CASE KeepDrop(t) \/ Keep(t)
  <2>1. answered' = answered /\ (Return(t) \/ Move(t, "save"))
    BY <1>5 DEF KeepDrop, Keep, requestVars
  <2>2. NoNewWrites
    BY <1>a, <2>1 DEF NoNewWrites, Answers, Return, Move, NoJob, Job
  <2> QED BY <1>1, <2>1, <2>2
<1> QED BY <1>2, <1>3, <1>4, <1>5 DEF Libril

LEMMA OthersAddressed ==
  ASSUME Types, Turns, Calls, Requests, Addressed,
         Client \/ (\E t \in Thread : Libril(t)) \/ (\E t \in Vendor : Completes(t) \/ Report(t))
  PROVE  Addressed'
<1>a. UNCHANGED <<fdCommand, ev>> /\ job \in [Thread -> Job]
  BY OthersTable DEF Types, Job
<1>1. ASSUME NEW c \in Conn, Connect(c) \/ HangUp(c) PROVE Addressed'
  <2>1. UNCHANGED <<asker, answered, late, pending, cancelled, job>>
    BY <1>1 DEF Connect, HangUp, requestVars
  <2>2. NoNewAnswers /\ NoNewWrites
    BY <2>1 DEF NoNewAnswers, NoNewWrites, Answers
  <2> QED BY <1>a, <2>1, <2>2, AddressedStay
<1>2. ASSUME NEW c \in Conn, NEW r \in Request, Ask(c, r) PROVE Addressed'
  <2>1. /\ asker[r] = 0 /\ asker' = [asker EXCEPT ![r] = c]
        /\ UNCHANGED <<answered, late, pending, cancelled, job>>
    BY <1>2 DEF Ask, requestVars
  <2>2. Untouched(r) /\ \A q \in Request : q # r => asker'[q] = asker[q]
    BY <2>1 DEF Requests, Unsent, Types
  <2>3. ~InHand(r) /\ answered[r] = <<>> /\ \A t \in Thread : ~Answers(t, r)
    BY <2>2 DEF Untouched, Unanswered, InHand
  <2>4. \A q \in Request : /\ InHand(q)' <=> InHand(q)
                           /\ \A t \in Thread : Answers(t, q)' <=> Answers(t, q)
    BY <2>1 DEF InHand, Answers
  <2>5. ASSUME NEW q \in Request, q \notin late'
        PROVE  /\ InHand(q)' => fdCommand' = asker'[q] \/ (fdCommand' = 0 /\ ev' = "cancel")
               /\ \A t \in Thread : (Answers(t, q) /\ job[t].at = "write")' => job'[t].fd = asker'[q]
               /\ \A i \in DOMAIN answered'[q] : answered'[q][i] = asker'[q]
    <3>1. CASE q = r
      BY <2>1, <2>3, <2>4, <3>1
    <3>2. CASE q # r
      BY <1>a, <2>1, <2>2, <2>4, <2>5, <3>2 DEF Addressed
    <3> QED BY <3>1, <3>2
  <2> QED BY <2>5 DEF Addressed
<1>3. ASSUME NEW t \in Vendor, NEW r \in Request, RequestComplete(t, r) PROVE Addressed'
  <2>a. t \in Thread /\ r \in Nat /\ job[t] = NoJob /\ r \in pending
    BY <1>3, Parameters DEF Request, RequestComplete, Idle
  <2>1. UNCHANGED <<asker, answered, late, cancelled>> /\ pending' = pending \ {r}
    BY <1>3 DEF RequestComplete, Taken, clientVars
  <2>2. CASE r \in cancelled
    <3>1. job' = job
      BY <1>3, <2>2 DEF RequestComplete, Dequeue
    <3>2. NoNewAnswers /\ NoNewWrites
      BY <3>1 DEF NoNewAnswers, NoNewWrites, Answers
    <3>3. pending' \ cancelled' \subseteq pending \ cancelled
      BY <2>1
    <3> QED BY <1>a, <2>1, <3>2, <3>3, AddressedStay
  <2>3. CASE r \notin cancelled
    <3>1. Call("answer", "send", r).at = "send" /\ Call("answer", "send", r).of = r
      BY <2>a, CallJob
    <3>2. job' = [job EXCEPT ![t] = Call("answer", "send", r)]
      BY <1>3, <2>3 DEF RequestComplete, Dequeue
    <3>3. \A u \in Thread, q \in Request : Answers(u, q)' =>
             \/ Answers(u, q) /\ UNCHANGED <<job[u].at, job[u].fd>>
             \/ q = r /\ job'[u].at # "write"
      BY <1>a, <2>a, <3>1, <3>2 DEF Answers
    <3>4. \A q \in Request : InHand(q)' => InHand(q)
      BY <2>a, <2>1, <2>3, <3>3 DEF InHand
    <3> QED BY <1>a, <2>1, <3>3, <3>4 DEF Addressed
  <2> QED BY <2>2, <2>3
<1>4. ASSUME NEW t \in Vendor, Report(t) PROVE Addressed'
  <2>a. t \in Thread /\ news + 1 \in Nat
    BY Parameters DEF Types
  <2>1. Call("nitz", "send", news + 1).what = "nitz" /\ Call("nitz", "send", news + 1).at = "send"
    BY <2>a, CallJob
  <2>2. /\ job' = [job EXCEPT ![t] = Call("nitz", "send", news + 1)]
        /\ UNCHANGED <<asker, answered, late, cancelled, pending>>
    BY <1>4 DEF Report, clientVars, requestVars
  <2>3. NoNewAnswers /\ NoNewWrites
    BY <1>a, <2>a, <2>1, <2>2 DEF NoNewAnswers, NoNewWrites, Answers
  <2> QED BY <1>a, <2>2, <2>3, AddressedStay
<1> QED BY <1>1, <1>2, <1>3, <1>4, LibrilAddressed DEF Client, Completes

-----------------------------------------------------------------------------
(* The network's time.                                                     *)

\* What News says while nothing went astray.
Known == news > 0 => news \in told \/ s_lastNITZTimeData = news \/ Reporting(news)
NewsKnown == Known /\ (ev = "resent" => ResentSafe)

LEMMA NewsMeans == News <=> NewsGone \/ NewsKnown
  BY DEF News, NewsKnown, Known, NitzKept, NewsGone

\* Reports go on.
ReportsGoOn ==
    \A t \in Thread : job[t].what \in {"nitz", "resend"} => SameCall(t)

LEMMA NewsStay ==
  ASSUME Types, NewsKnown, ReportsGoOn, told \subseteq told', UNCHANGED <<news, s_lastNITZTimeData>>,
         ev' = "resent" => ev = "resent"
  PROVE  NewsKnown'
<1>1. Reporting(news) => Reporting(news)'
  BY DEF Reporting, ReportsGoOn, SameCall
<1>2. Known'
  BY <1>1 DEF NewsKnown, Known
<1>3. ResentSafe => ResentSafe'
  BY Parameters DEF ResentSafe, Resends, ReportsGoOn, SameCall
<1> QED BY <1>2, <1>3 DEF NewsKnown

LEMMA OthersReports ==
  ASSUME Types, NEW t \in Thread, job[t].what \notin {"nitz", "resend"},
         \A u \in Thread : u # t => job'[u] = job[u]
  PROVE  ReportsGoOn
  BY DEF ReportsGoOn, SameCall

LEMMA LibrilNews ==
  ASSUME Types, Turns, Calls, NewsKnown, NEW t \in Thread, Libril(t), ~NewsGone'
  PROVE  NewsKnown'
<1>a. job \in [Thread -> Job] /\ UNCHANGED <<ev, news>>
  BY OthersTable DEF Types, Job, Libril, ReadFd, Written, WriteFails, KeepDrop, Keep
<1>d. \A u \in Thread : u # t => job'[u] = job[u]
  BY <1>a DEF Libril, ReadFd, Written, WriteFails, KeepDrop, Keep, Finish, Return, Move
<1>b. job[t].what = "resend" => t = "event" /\ ev = "resent" /\ fdCommand # 0
  BY DEF Calls, CallSound, Resends, Turns, Serving
<1>c. job[t].what = "nitz" => t # "event" /\ job[t].of = news
  BY Parameters DEF Calls, CallSound, Reports
<1>1. CASE ReadFd(t)
  <2>1. UNCHANGED <<s_lastNITZTimeData, told>>
    BY <1>1 DEF ReadFd, nitzVars
  <2>2. ReportsGoOn
    <3>1. job[t].what \in {"nitz", "resend"} => SameCall(t)
      <4>1. CASE fdCommand = 0
        BY <1>1, <1>a, <1>b, <4>1 DEF ReadFd, Finish, Keeps, Move, SameCall, Job
      <4>2. CASE fdCommand # 0
        BY <1>1, <1>a, <4>2 DEF ReadFd, SameCall, Job
      <4> QED BY <4>1, <4>2
    <3> QED BY <1>d, <3>1 DEF ReportsGoOn, SameCall
  <2> QED BY <1>a, <2>1, <2>2, NewsStay
<1>2. CASE Written(t)
  <2>1. /\ s_lastNITZTimeData' = s_lastNITZTimeData
        /\ told' = told \cup (IF job[t].what \in {"nitz", "resend"} THEN {job[t].of} ELSE {})
    BY <1>2 DEF Written
  <2>2. CASE job[t].what \in {"nitz", "resend"}
    <3>1. job[t].of \in told' /\ told \subseteq told'
      BY <2>1, <2>2
    <3>2. Reporting(news) => news \in told' \/ Reporting(news)'
      BY <1>a, <1>d, <3>1 DEF Reporting
    <3>3. Known'
      BY <1>a, <2>1, <3>1, <3>2 DEF NewsKnown, Known
    <3>4. ResentSafe => ResentSafe'
      BY <1>a, <1>d, <2>1, <3>1, Parameters DEF ResentSafe, Resends
    <3> QED BY <1>a, <3>3, <3>4 DEF NewsKnown
  <2>3. CASE job[t].what \notin {"nitz", "resend"}
    BY <1>a, <1>d, <2>1, <2>3, OthersReports, NewsStay
  <2> QED BY <2>2, <2>3
<1>3. CASE WriteFails(t)
  <2>1. UNCHANGED <<s_lastNITZTimeData, told>>
    BY <1>3 DEF WriteFails, nitzVars
  <2>2. Finish(t, FALSE) /\ job[t].what # "resend"
    BY <1>3 DEF WriteFails, Blame, NewsGone
  <2>3. job[t].what = "nitz" => SameCall(t)
    BY <1>a, <2>2 DEF Finish, Keeps, Move, SameCall, Job
  <2>4. ReportsGoOn
    BY <1>d, <2>2, <2>3 DEF ReportsGoOn, SameCall
  <2> QED BY <1>a, <2>1, <2>4, NewsStay
<1>4. CASE KeepDrop(t)
  <2>1. job[t].at = "keep" /\ Move(t, "save") /\ told' = told /\ s_lastNITZTimeData' = 0
    BY <1>4 DEF KeepDrop, At
  <2>2. job[t].what = "nitz"
    BY <2>1 DEF Calls, CallSound, Reports
  <2>3. ~Overlap(t)
    BY <1>4 DEF KeepDrop, Blame, NewsGone
  <2>4. ev # "resent"
    BY <2>3 DEF Overlap, InResend, NewsKnown, ResentSafe
  <2>5. job'[t].what = "nitz" /\ job'[t].of = news'
    BY <1>a, <1>c, <2>1, <2>2 DEF Move, Job
  <2>6. Known'
    BY <2>5 DEF Known, Reporting
  <2> QED BY <1>a, <2>4, <2>6 DEF NewsKnown
<1>5. CASE Keep(t)
  <2>1. job[t].at = "save" /\ s_lastNITZTimeData' = job[t].of
    BY <1>5 DEF Keep, At, SaveNews
  <2>2. s_lastNITZTimeData' = news'
    BY <1>a, <1>c, <2>1 DEF Calls, CallSound, Reports
  <2>3. ~Overlap(t)
    BY <1>5 DEF Keep, Blame, NewsGone
  <2>4. ev # "resent"
    BY <2>3 DEF Overlap, InResend, NewsKnown, ResentSafe
  <2> QED BY <1>a, <2>2, <2>4 DEF NewsKnown, Known
<1> QED BY <1>1, <1>2, <1>3, <1>4, <1>5 DEF Libril

LEMMA VendorNews ==
  ASSUME Types, NewsKnown, NEW t \in Vendor, Completes(t) \/ Report(t)
  PROVE  NewsKnown'
<1>a. t \in Thread /\ job \in [Thread -> Job] /\ UNCHANGED <<ev, told, s_lastNITZTimeData>>
  BY Parameters, OthersTable DEF Types, Job, Completes, RequestComplete, Report, nitzVars
<1>b. job[t].what \notin {"nitz", "resend"} /\ \A u \in Thread : u # t => job'[u] = job[u]
  BY <1>a DEF Completes, RequestComplete, Dequeue, Report, Idle, NoJob
<1>c. ReportsGoOn
  BY <1>a, <1>b, OthersReports
<1>1. CASE Completes(t)
  <2>1. news' = news
    BY <1>1 DEF Completes, RequestComplete
  <2> QED BY <1>a, <1>c, <2>1, NewsStay
<1>2. CASE Report(t)
  <2>a. news + 1 \in Nat
    BY Parameters DEF Types
  <2>1. news' = news + 1 /\ job'[t] = Call("nitz", "send", news + 1)
    BY <1>2, <1>a DEF Report
  <2>2. job'[t].what = "nitz" /\ job'[t].of = news'
    BY <2>a, <2>1, CallJob
  <2>3. Known'
    BY <1>a, <2>2 DEF Known, Reporting
  <2>4. ResentSafe => ResentSafe'
    BY <1>a, <1>c, Parameters DEF ResentSafe, Resends, ReportsGoOn, SameCall
  <2> QED BY <1>a, <2>3, <2>4 DEF NewsKnown
<1> QED BY <1>1, <1>2

LEMMA EventNews ==
  ASSUME Types, Turns, Calls, NewsKnown, EventThread
  PROVE  NewsKnown'
<1>a. job \in [Thread -> Job] /\ "event" \in Thread /\ UNCHANGED <<news, told>>
  BY Parameters DEF Types, Job, EventThread, EnterSelect, LeaveSelect, FirePendingEnds, Accept,
         AcceptFails, Greet, Resend, DropResent, ReadCommands, NoMoreCommands, Dispatch, RequestAck,
         SendAck, CloseCommands, ListenAgain, CancelPending, nitzVars
<1>b. job["event"].what \notin {"nitz", "resend"}
  <2>1. CASE job["event"] = NoJob
    BY <2>1 DEF NoJob
  <2>2. CASE RequestAck \/ SendAck
    BY <1>a, <2>2 DEF RequestAck, SendAck, At, Calls, CallSound
  <2> QED BY <2>1, <2>2 DEF EventThread, EnterSelect, LeaveSelect, FirePendingEnds, Accept,
         AcceptFails, Greet, Resend, DropResent, ReadCommands, NoMoreCommands, Dispatch,
         CloseCommands, ListenAgain, CancelPending, Fires, Event, Idle
<1>c. \A u \in Thread : u # "event" => job'[u] = job[u]
  BY <1>a DEF EventThread, EnterSelect, LeaveSelect, FirePendingEnds, Accept,
         AcceptFails, Greet, Resend, DropResent, ReadCommands, NoMoreCommands, Dispatch, Unreadable,
         RequestAck, SendAck, CloseCommands, ListenAgain, CancelPending, Move, Return
<1>d. ReportsGoOn
  BY <1>a, <1>b, <1>c, OthersReports
<1>1. CASE Resend
  <2>1. s_lastNITZTimeData' = s_lastNITZTimeData /\ s_lastNITZTimeData \in Nat
    BY <1>1, Parameters DEF Resend, nitzVars, Types
  <2>2. CASE s_lastNITZTimeData = 0
    BY <1>1, <1>a, <1>d, <2>1, <2>2, NewsStay DEF Resend, Goto
  <2>3. CASE s_lastNITZTimeData # 0
    <3>1. job'["event"] = Call("resend", "send", s_lastNITZTimeData)
      BY <1>1, <1>a, <2>3 DEF Resend
    <3>2. job'["event"].what = "resend" /\ job'["event"].of = s_lastNITZTimeData'
      BY <2>1, <3>1, CallJob
    <3>3. ResentSafe'
      BY <2>1, <2>3, <3>2 DEF ResentSafe, Resends
    <3>4. Reporting(news) => Reporting(news)'
      BY <1>a, <1>d DEF Reporting, ReportsGoOn, SameCall
    <3> QED BY <1>a, <2>1, <3>3, <3>4 DEF NewsKnown, Known
  <2> QED BY <2>2, <2>3
<1>2. CASE DropResent
  <2>1. s_lastNITZTimeData \in told /\ ev' = "fire"
    BY <1>2, <1>b DEF DropResent, Event, Goto, NewsKnown, ResentSafe, Resends
  <2>2. Reporting(news) => Reporting(news)'
    BY <1>a, <1>d DEF Reporting, ReportsGoOn, SameCall
  <2> QED BY <1>a, <2>1, <2>2 DEF NewsKnown, Known
<1>3. CASE ~(Resend \/ DropResent)
  <2>1. s_lastNITZTimeData' = s_lastNITZTimeData /\ (ev' = "resent" => ev = "resent")
    BY <1>3 DEF EventThread, EnterSelect, LeaveSelect, FirePendingEnds, Accept,
         AcceptFails, Greet, ReadCommands, NoMoreCommands, Dispatch, RequestAck,
         SendAck, CloseCommands, ListenAgain, CancelPending, Goto, loopVars, nitzVars
  <2> QED BY <1>a, <1>d, <2>1, NewsStay
<1> QED BY <1>1, <1>2, <1>3

LEMMA StepNews ==
  ASSUME Types, Turns, Calls, News, Next PROVE News'
<1>a. NewsGone' \/ NewsKnown' => News'
  BY DEF News, NewsKnown, Known, NitzKept, NewsGone
<1>1. CASE NewsGone
  <2>1. ~dead
    BY DEF Next, Client, Connect, Ask, HangUp, EventThread, EnterSelect, LeaveSelect, FirePendingEnds,
         Accept, AcceptFails, Greet, Resend, DropResent, ReadCommands, NoMoreCommands, Dispatch,
         RequestAck, SendAck, CloseCommands, ListenAgain, CancelPending, Fires, Event, Idle, At,
         Libril, ReadFd, Written, WriteFails, KeepDrop, Keep, Completes, RequestComplete, Report
  <2>2. cause \subseteq cause'
    BY DEF Next, Client, Connect, Ask, HangUp, EventThread, EnterSelect, LeaveSelect, FirePendingEnds,
         Accept, AcceptFails, Greet, Resend, DropResent, ReadCommands, NoMoreCommands, Dispatch,
         RequestAck, SendAck, CloseCommands, ListenAgain, CancelPending,
         Libril, ReadFd, Written, WriteFails, KeepDrop, Keep, Completes, RequestComplete, Report
  <2>3. NewsGone'
    BY <1>1, <2>1, <2>2 DEF NewsGone
  <2> QED BY <2>3, <1>a
<1>2. CASE NewsKnown /\ ~NewsGone'
  <2>1. CASE Client
    <3>1. UNCHANGED <<job, news, told, s_lastNITZTimeData, ev>>
      BY <2>1, OthersTable DEF Client, Connect, Ask, HangUp, nitzVars
    <3>2. ReportsGoOn
      BY <3>1 DEF ReportsGoOn, SameCall
    <3> QED BY <1>2, <1>a, <3>1, <3>2, NewsStay
  <2> QED BY <1>2, <1>a, <2>1, EventNews, LibrilNews, VendorNews DEF Next
<1> QED BY <1>1, <1>2, <1>a, NewsMeans

-----------------------------------------------------------------------------
LEMMA NextIInv == IInv /\ [Next]_vars => IInv'
<1>1. ASSUME IInv, UNCHANGED vars PROVE IInv'
  BY <1>1 DEF IInv, vars, clientVars, sockVars, loopVars, requestVars, nitzVars,
     Types, Turns, Attends, Serving, Firing, Calls, CallSound, Reports, Resends,
     Requests, Unsent, Queued, Pending, ListHeld, Handed, AtMostOnce, Untouched, Unanswered, Answers,
     Addressed, InHand, News, NewsGone, NitzKept, Reporting, ResentSafe
<1>2. ASSUME IInv, Next PROVE IInv'
  <2> DEFINE Others == \/ Client \/ (\E t \in Thread : Libril(t))
                       \/ (\E t \in Vendor : Completes(t) \/ Report(t))
  <2>1. EventThread \/ Others
    BY <1>2 DEF Next
  <2>2. Types /\ Turns /\ Calls /\ Requests /\ Addressed /\ News
    BY <1>2 DEF IInv
  <2>3. Types'
    BY <2>1, <2>2, ClientTypes, LibrilTypes, VendorTypes, EventTypes
  <2>4. Turns'
    BY <2>1, <2>2, EventTurns, OthersTable, TurnsStay
  <2>5. Calls'
    BY <2>1, <2>2, EventCalls, OthersCalls
  <2>6. Requests'
    BY <2>1, <2>2, EventRequests, OthersRequests
  <2>7. Addressed'
    BY <2>1, <2>2, EventAddressed, OthersAddressed
  <2>8. News'
    BY <1>2, <2>2, StepNews
  <2> QED BY <2>3, <2>4, <2>5, <2>6, <2>7, <2>8 DEF IInv
<1> QED BY <1>1, <1>2

LEMMA DaemonInductive == Spec => []IInv
  BY InitIInv, NextIInv, PTL DEF Spec

\* Between two rounds of the event loop (ril_event.cpp:338) the daemon listens
\* exactly when it serves no client, and every variable keeps its type.
THEOREM DaemonOneAtATime == Spec => []EventTableSound
<1>1. IInv => EventTableSound
  BY DEF IInv, EventTableSound, OneAtATime, Turns, Attends
<1> QED BY <1>1, DaemonInductive, PTL

\* RIL_onRequestComplete() answers a request once, to the client that sent it
\* unless that one was found gone meanwhile, and a request that was freed is in
\* no list and in no thread's hands (ril.cpp:5362).  What stays in the list without
\* being with the vendor's RIL had an invalid block (ril.cpp:622).
THEOREM DaemonRequestsSound == Spec => []RequestsSound
<1>1. IInv => RequestsSound
  <2> SUFFICES ASSUME IInv PROVE RequestsSound
    OBVIOUS
  <2>1. AnswerToAsker
    BY DEF IInv, Requests, AtMostOnce, Addressed, AnswerToAsker
  <2>3. ListHeld
    BY DEF IInv, Requests, Pending
  <2>2. ASSUME NEW r \in released
        PROVE  /\ r \notin pending /\ r \notin held
               /\ \A t \in Thread : job[t].of = r => job[t].what \notin {"answer", "error"}
    <3>1. r \in Request /\ ~Unanswered(r)
      BY DEF IInv, Types, Unanswered
    <3>2. r \notin pending /\ r \notin held
      BY <2>3, <3>1 DEF IInv, Requests, Pending, ListHeld
    <3>3. \A t \in Thread : ~Answers(t, r)
      BY <3>1 DEF IInv, Requests, Handed
    <3> QED BY <3>2, <3>3 DEF Answers
  <2> QED BY <2>1, <2>2, <2>3 DEF RequestsSound, FreedForgotten
<1> QED BY <1>1, DaemonInductive, PTL

\* The newest NITZ time was told or is kept for the next client, but for the
\* overlaps that cause names (ril.cpp:5709).
THEOREM DaemonNitzKept == Spec => []NitzKept
<1>1. IInv => NitzKept
  BY DEF IInv, News, NewsGone, NitzKept
<1> QED BY <1>1, DaemonInductive, PTL

=============================================================================
