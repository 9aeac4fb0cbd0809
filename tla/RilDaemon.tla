----------------------------- MODULE RilDaemon -----------------------------
(***************************************************************************)
(* The client's side of the RIL daemon: libril/ril.cpp for one socket,     *)
(* over the event loop of ril_event.cpp.  The event thread accepts one     *)
(* client at a time, reads its requests and hands them to the vendor's     *)
(* RIL, whose threads answer them and report the network's time (NITZ) at  *)
(* any moment; the calls they make run here step by step.  The timers of   *)
(* the loop, and the wake timer of each unsolicited response, are in       *)
(* RilTimers.                                                              *)
(***************************************************************************)
EXTENDS Integers, Sequences, FiniteSets

CONSTANTS
    Vendor,     \* threads of the vendor's RIL
    MaxConn,    \* bound: clients that connect, one after the other or queued
    MaxAsked,   \* bound: requests
    MaxNews,    \* bound: NITZ times reported
    MaxWork,    \* bound: requests and reports together
    MaxFailed   \* bound: accept() calls that fail

ASSUME RilAssumption ==
    /\ "event" \notin Vendor
    /\ {MaxConn, MaxAsked, MaxNews, MaxWork, MaxFailed} \subseteq Nat

Thread == Vendor \cup {"event"}
Conn == 1 .. MaxConn
Request == 1 .. MaxAsked

VARIABLES
    peer,           \* the client of each connection: "none", "here", "gone"
    inbox,          \* requests it sent, not read yet
    backlog,        \* connections not accepted yet
    fdCommand,      \* the connection served; 0 for -1
    open,           \* connections whose descriptor is open here
    watch,          \* events in watch_table: "listen", "commands"
    rfds,           \* event thread: the descriptors given to select()
    pending_list,   \* its events to fire
    ev,             \* its place
    job,            \* of each thread: the call it is in
    s_lastNITZTimeData,     \* the report kept; 0 for NULL
    news,           \* NITZ reports so far
    pending,        \* s_pendingRequests
    cancelled,      \* requests marked cancelled
    held,           \* requests the vendor's RIL has to complete
    released,       \* requests freed
    failed,         \* accept() calls that failed
    dead,           \* the process ended
    asker,          \* history: the connection of each request; 0: not sent
    invalid,        \* history: requests of whose block no sense could be made
    answered,       \* history: connections each request was answered on
    told,           \* history: NITZ reports written to a client that was there
    late,           \* history: requests whose client was found gone while a thread
                    \* that had taken them out of the list was to answer them
    cause           \* history: what may make a call go astray

clientVars == <<peer, inbox, backlog, asker, invalid>>
sockVars == <<fdCommand, open, watch>>
loopVars == <<rfds, pending_list, ev>>
requestVars == <<pending, cancelled, held, released, answered, late>>
nitzVars == <<s_lastNITZTimeData, told>>
vars == <<clientVars, sockVars, loopVars, requestVars, nitzVars,
          job, news, failed, dead, cause>>

NoJob == [at |-> "none", what |-> "none", of |-> 0, fd |-> 0]
Call(what, at, of) == [at |-> at, what |-> what, of |-> of, fd |-> 0]
Idle(t) == job[t] = NoJob /\ ~dead
At(t, place) == job[t].at = place /\ ~dead
Move(t, place) == job' = [job EXCEPT ![t].at = place]
Return(t) == job' = [job EXCEPT ![t] = NoJob]

\* "ack": a request was completed between its acknowledgement and the next look
\* at it; "nitz": two threads handled the kept report at once; "ignored": a kept
\* report was written to a client that had gone.
Cause == {"ack", "nitz", "ignored"}
Blame(c, when) == IF when THEN {c} ELSE {}

Init ==
    /\ peer = [c \in Conn |-> "none"] /\ inbox = [c \in Conn |-> <<>>] /\ backlog = <<>>
    /\ fdCommand = 0 /\ open = {} /\ watch = {"listen"}
    /\ rfds = {} /\ pending_list = {} /\ ev = "loop"
    /\ job = [t \in Thread |-> NoJob]
    /\ s_lastNITZTimeData = 0 /\ news = 0 /\ told = {}
    /\ pending = {} /\ cancelled = {} /\ held = {} /\ released = {}
    /\ late = {} /\ failed = 0 /\ dead = FALSE /\ invalid = {}
    /\ asker = [r \in Request |-> 0] /\ answered = [r \in Request |-> <<>>] /\ cause = {}

-----------------------------------------------------------------------------
(* The clients.                                                            *)

Connect(c) ==
    /\ ~dead /\ peer[c] = "none" /\ \A d \in Conn : d < c => peer[d] # "none"
    /\ peer' = [peer EXCEPT ![c] = "here"] /\ backlog' = Append(backlog, c)
    /\ UNCHANGED <<inbox, asker, invalid, sockVars, loopVars, requestVars, nitzVars,
                   job, news, failed, dead, cause>>

Work == news + Cardinality({r \in Request : asker[r] # 0})

Ask(c, r) ==
    /\ Work < MaxWork
    /\ ~dead /\ peer[c] = "here"
    /\ asker[r] = 0 /\ \A q \in Request : q < r => asker[q] # 0
    /\ asker' = [asker EXCEPT ![r] = c] /\ inbox' = [inbox EXCEPT ![c] = Append(@, r)]
    /\ UNCHANGED <<peer, backlog, invalid, sockVars, loopVars, requestVars, nitzVars,
                   job, news, failed, dead, cause>>

HangUp(c) ==
    /\ ~dead /\ peer[c] = "here"
    /\ peer' = [peer EXCEPT ![c] = "gone"]
    /\ UNCHANGED <<inbox, backlog, asker, invalid, sockVars, loopVars, requestVars, nitzVars,
                   job, news, failed, dead, cause>>

-----------------------------------------------------------------------------
(* Sending: sendResponseRaw(), blockingWrite().                            *)

\* What the caller does with the result, once the bytes are written or not.
Keeps(t) == job[t].what = "nitz"
Finish(t, sent) ==
    /\ IF Keeps(t) /\ ~sent THEN Move(t, "keep") ELSE Return(t)
    /\ released' = released \cup (IF job[t].what = "answer" THEN {job[t].of} ELSE {})

\* The descriptor is read before s_writeMutex is taken.
ReadFd(t) ==
    /\ At(t, "send")
    /\ IF fdCommand = 0
       THEN Finish(t, FALSE)
       ELSE /\ job' = [job EXCEPT ![t] = [@ EXCEPT !.at = "write", !.fd = fdCommand]]
            /\ UNCHANGED released
    /\ UNCHANGED <<clientVars, sockVars, loopVars, pending, cancelled, held, answered, late,
                   nitzVars, news, failed, dead, cause>>

Written(t) ==
    LET c == job[t].fd
        j == job[t]
    IN  /\ At(t, "write") /\ c \in open /\ peer[c] = "here"
        /\ answered' = IF j.what \in {"answer", "error"}
                       THEN [answered EXCEPT ![j.of] = Append(@, c)] ELSE answered
        /\ told' = told \cup (IF j.what \in {"nitz", "resend"} THEN {j.of} ELSE {})
        /\ Finish(t, TRUE)
        /\ UNCHANGED <<clientVars, sockVars, loopVars, pending, cancelled, held, late,
                       s_lastNITZTimeData, news, failed, dead, cause>>

\* The client is gone or the descriptor was closed before; the writer closes
\* it, and fdCommand stays.  Without a handler SIGPIPE ends the process.
WriteFails(t) ==
    LET c == job[t].fd
    IN  /\ At(t, "write") /\ (c \notin open \/ peer[c] = "gone")
        /\ \/ /\ open' = open \ {c} /\ Finish(t, FALSE) /\ UNCHANGED dead
              /\ cause' = cause \cup Blame("ignored", job[t].what = "resend")
           \/ /\ c \in open /\ dead' = TRUE
              /\ UNCHANGED <<open, job, released, cause>>
        /\ UNCHANGED <<clientVars, fdCommand, watch, loopVars, pending, cancelled, held,
                       answered, late, nitzVars, news, failed>>

-----------------------------------------------------------------------------
(* The vendor's threads: RIL_onRequestComplete(), and RIL_onUnsolicited-   *)
(* Response() with a NITZ time, which one reader thread at a time calls.   *)

\* checkAndDequeueRequestInfoIfAck(pRI, false); a cancelled request is freed.
Dequeue(t, r) ==
    IF r \in cancelled
    THEN /\ released' = released \cup {r} /\ UNCHANGED job
    ELSE /\ job' = [job EXCEPT ![t] = Call("answer", "send", r)] /\ UNCHANGED released

Taken(r) == pending \ {r}

RequestComplete(t, r) ==
    /\ Idle(t) /\ r \in held \cap pending
    /\ held' = held \ {r} /\ pending' = Taken(r)
    /\ Dequeue(t, r)
    /\ UNCHANGED <<clientVars, sockVars, loopVars, nitzVars, cancelled, answered, late,
                   news, failed, dead, cause>>

Report(t) ==
    /\ Idle(t) /\ news < MaxNews /\ Work < MaxWork
    /\ \A u \in Thread : job[u].what # "nitz"
    /\ news' = news + 1
    /\ job' = [job EXCEPT ![t] = Call("nitz", "send", news + 1)]
    /\ UNCHANGED <<clientVars, sockVars, loopVars, requestVars, nitzVars,
                   failed, dead, cause>>

InResend == ev = "resent" /\ s_lastNITZTimeData # 0
Overlap(t) == \/ InResend
              \/ \E u \in Thread \ {t} : job[u].at = "save"

\* A NITZ time that was not sent is kept in place of the one before.
KeepDrop(t) ==
    /\ At(t, "keep")
    /\ cause' = cause \cup Blame("nitz", Overlap(t))
    /\ s_lastNITZTimeData' = 0
    /\ Move(t, "save")
    /\ UNCHANGED <<clientVars, sockVars, loopVars, requestVars, told,
                   news, failed, dead>>

SaveNone(t) == UNCHANGED s_lastNITZTimeData
SaveNews(t) == s_lastNITZTimeData' = job[t].of
Keep(t) ==
    /\ At(t, "save") /\ SaveNews(t) /\ Return(t)
    /\ cause' = cause \cup Blame("nitz", Overlap(t))
    /\ UNCHANGED <<clientVars, sockVars, loopVars, requestVars, told,
                   news, failed, dead>>

-----------------------------------------------------------------------------
(* The event thread: ril_event_loop() and the callbacks it fires.          *)

Event(place) == ev = place /\ Idle("event")
Goto(place) == ev' = place

\* select() is entered.  A descriptor closed by a writer makes it fail, and
\* eventLoop() kills the process.
EnterSelect ==
    /\ Event("loop")
    /\ IF "commands" \in watch /\ fdCommand \notin open
       THEN dead' = TRUE /\ UNCHANGED <<rfds, ev>>
       ELSE /\ rfds' = watch /\ Goto("select")
            /\ UNCHANGED dead
    /\ UNCHANGED <<clientVars, sockVars, pending_list, requestVars, nitzVars,
                   job, news, failed, cause>>

Ready == {e \in rfds : CASE e = "listen" -> backlog # <<>>
                          [] e = "commands" -> inbox[fdCommand] # <<>> \/ peer[fdCommand] = "gone"}

\* Of the events that are ready, those whose persist flag is not set.
Never == {}
Once == Ready \cap {"listen"}

\* A descriptor is ready, or a timer or the wakeup pipe ends select();
\* processReadReadies(): the listen event is not persistent.
LeaveSelect ==
    /\ Event("select")
    /\ pending_list' = Ready
    /\ watch' = watch \ Once
    /\ Goto("fire")
    /\ UNCHANGED <<clientVars, fdCommand, open, rfds, requestVars, nitzVars, job, news, failed, dead, cause>>

\* firePending()
Fires(e) ==
    /\ Event("fire") /\ e \in pending_list
    /\ pending_list' = pending_list \ {e}

FirePendingEnds ==
    /\ Event("fire") /\ pending_list = {}
    /\ Goto("loop")
    /\ UNCHANGED <<clientVars, sockVars, rfds, pending_list, requestVars, nitzVars,
                   job, news, failed, dead, cause>>

\* listenCallback()
Accept ==
    /\ Fires("listen")
    /\ backlog' = Tail(backlog)
    /\ fdCommand' = Head(backlog) /\ open' = open \cup {Head(backlog)}
    /\ watch' = watch \cup {"commands"}
    /\ Goto("connected")
    /\ UNCHANGED <<peer, inbox, asker, invalid, rfds, requestVars, nitzVars,
                   job, news, failed, dead, cause>>

NoRelisten == watch
Relisten == watch \cup {"listen"}
AcceptFails ==
    /\ Fires("listen") /\ failed < MaxFailed
    /\ failed' = failed + 1
    /\ watch' = Relisten
    /\ UNCHANGED <<clientVars, fdCommand, open, rfds, ev, requestVars, nitzVars,
                   job, news, dead, cause>>

\* onNewCommandConnect(): RIL_CONNECTED, the radio state, the NITZ time kept.
Greet ==
    /\ \/ /\ Event("connected") /\ Goto("state")
          /\ job' = [job EXCEPT !["event"] = Call("news", "send", 0)]
       \/ /\ Event("state") /\ Goto("resend")
          /\ job' = [job EXCEPT !["event"] = Call("news", "send", 0)]
    /\ UNCHANGED <<clientVars, sockVars, rfds, pending_list, requestVars, nitzVars,
                   news, failed, dead, cause>>

Resend ==
    /\ Event("resend")
    /\ IF s_lastNITZTimeData = 0
       THEN Goto("fire") /\ UNCHANGED <<job, cause>>
       ELSE /\ job' = [job EXCEPT !["event"] = Call("resend", "send", s_lastNITZTimeData)]
            /\ Goto("resent")
            /\ cause' = cause \cup Blame("nitz", \E t \in Vendor : job[t].at = "save")
    /\ UNCHANGED <<clientVars, sockVars, rfds, pending_list, requestVars, nitzVars,
                   news, failed, dead>>

\* Whatever came of the write.
DropResent ==
    /\ Event("resent")
    /\ s_lastNITZTimeData' = 0
    /\ Goto("fire")
    /\ UNCHANGED <<clientVars, sockVars, rfds, pending_list, requestVars, told,
                   job, news, failed, dead, cause>>

-----------------------------------------------------------------------------
(* processCommandsCallback(), processCommandBuffer(), RIL_onRequestAck().  *)

ReadCommands ==
    /\ Fires("commands")
    /\ Goto("read")
    /\ UNCHANGED <<clientVars, sockVars, rfds, requestVars, nitzVars,
                   job, news, failed, dead, cause>>

\* EAGAIN
NoMoreCommands ==
    /\ Event("read") /\ fdCommand \in open
    /\ inbox[fdCommand] = <<>> /\ peer[fdCommand] = "here"
    /\ Goto("fire")
    /\ UNCHANGED <<clientVars, sockVars, rfds, pending_list, requestVars, nitzVars,
                   job, news, failed, dead, cause>>

\* The next request.  No answer is made to a block without a code or a token, nor
\* to one whose arguments its dispatch function cannot read: invalidCommandBlock()
\* leaves that request in the list.  Else its code is unknown; or the vendor's RIL
\* completes it at once, or takes it for later, or acknowledges it and takes it.
Unreadable(r) == invalid' = invalid \cup {r} /\ UNCHANGED job
Dispatch ==
    /\ Event("read") /\ fdCommand \in open /\ inbox[fdCommand] # <<>>
    /\ inbox' = [inbox EXCEPT ![fdCommand] = Tail(@)]
    /\ LET r == Head(inbox[fdCommand])
           Calls(what, at) ==
               job' = [job EXCEPT !["event"] = Call(what, at, r)] /\ UNCHANGED invalid
       IN  \/ Unreadable(r) /\ UNCHANGED <<pending, held>>
           \/ Unreadable(r) /\ pending' = pending \cup {r} /\ UNCHANGED held
           \/ Calls("error", "send") /\ UNCHANGED <<pending, held>>
           \/ Calls("answer", "send") /\ UNCHANGED <<pending, held>>
           \/ /\ pending' = pending \cup {r} /\ held' = held \cup {r}
              /\ UNCHANGED <<job, invalid>> \/ Calls("ack", "acking")
    /\ UNCHANGED <<peer, backlog, asker, sockVars, rfds, ev, pending_list,
                   cancelled, released, answered, late, nitzVars,
                   news, failed, dead, cause>>

\* checkAndDequeueRequestInfoIfAck(pRI, true)
RequestAck ==
    /\ At("event", "acking")
    /\ IF job["event"].of \in pending THEN Move("event", "acked") ELSE Return("event")
    /\ UNCHANGED <<clientVars, sockVars, loopVars, requestVars, nitzVars,
                   news, failed, dead, cause>>

\* pRI->cancelled, of a request that may be freed by now.
SendAck ==
    LET gone == job["event"].of \in released
    IN  /\ At("event", "acked")
        /\ cause' = cause \cup Blame("ack", gone)
        /\ Move("event", "send") \/ (gone /\ Return("event"))
        /\ UNCHANGED <<clientVars, sockVars, loopVars, requestVars, nitzVars,
                       news, failed, dead>>

\* End of stream, or the descriptor was closed by a writer: close(fd) ...
CloseCommands ==
    /\ Event("read")
    /\ fdCommand \notin open \/ (inbox[fdCommand] = <<>> /\ peer[fdCommand] = "gone")
    /\ open' = open \ {fdCommand}
    /\ Goto("closed")
    /\ UNCHANGED <<clientVars, fdCommand, watch, rfds, pending_list, requestVars,
                   nitzVars, job, news, failed, dead, cause>>

\* ... fdCommand = -1, ril_event_del(), ril_event_add() ...
ListenAgain ==
    /\ Event("closed")
    /\ fdCommand' = 0 /\ watch' = Relisten \ {"commands"}
    /\ Goto("cancel")
    /\ UNCHANGED <<clientVars, open, rfds, pending_list, requestVars, nitzVars,
                   job, news, failed, dead, cause>>

\* ... onCommandsSocketClosed()
MarkNone == cancelled
MarkPending == cancelled \cup pending
CancelPending ==
    /\ Event("cancel")
    /\ cancelled' = MarkPending
    /\ late' = late \cup {job[t].of : t \in {u \in Vendor : job[u].what = "answer"}}
    /\ Goto("fire")
    /\ UNCHANGED <<clientVars, sockVars, rfds, pending_list, pending, held, released,
                   answered, nitzVars, job, news, failed, dead, cause>>

-----------------------------------------------------------------------------
Client == \E c \in Conn : Connect(c) \/ HangUp(c) \/ \E r \in Request : Ask(c, r)

Libril(t) ==
    ReadFd(t) \/ Written(t) \/ WriteFails(t) \/ KeepDrop(t) \/ Keep(t)

EventThread ==
    \/ EnterSelect \/ LeaveSelect \/ FirePendingEnds
    \/ Accept \/ AcceptFails \/ Greet \/ Resend \/ DropResent
    \/ ReadCommands \/ NoMoreCommands \/ Dispatch \/ RequestAck \/ SendAck
    \/ CloseCommands \/ ListenAgain \/ CancelPending

Completes(t) == \E r \in Request : RequestComplete(t, r)

Next ==
    \/ Client \/ EventThread
    \/ (\E t \in Thread : Libril(t))
    \/ \E t \in Vendor : Completes(t) \/ Report(t)

Spec == Init /\ [][Next]_vars
        /\ WF_vars(EventThread)
        /\ WF_vars(\E u \in Vendor : Completes(u))
        /\ \A t \in Thread : WF_vars(Libril(t))

-----------------------------------------------------------------------------
\* One client at a time: between two rounds of the event loop it listens exactly
\* when it serves nobody, and waits for the commands of the client it serves.
OneAtATime ==
    ev \in {"loop", "select"} =>
        watch = IF fdCommand = 0 THEN {"listen"} ELSE {"commands"}

Types ==
    /\ peer \in [Conn -> {"none", "here", "gone"}] /\ inbox \in [Conn -> Seq(Request)]
    /\ backlog \in Seq(Conn) /\ asker \in [Request -> 0 .. MaxConn]
    /\ fdCommand \in 0 .. MaxConn /\ open \subseteq Conn
    /\ watch \subseteq {"listen", "commands"}
    /\ rfds \subseteq {"listen", "commands"}
    /\ pending_list \subseteq {"listen", "commands"}
    /\ ev \in {"loop", "select", "fire", "connected", "state", "resend", "resent",
               "read", "closed", "cancel"}
    /\ job \in [Thread -> [at : {"none", "send", "write",
                                "keep", "save", "acking", "acked"},
                           what : {"none", "news", "nitz", "resend", "answer", "error", "ack"},
                           of : Nat, fd : 0 .. MaxConn]]
    /\ s_lastNITZTimeData \in 0 .. MaxNews /\ news \in 0 .. MaxNews /\ told \subseteq 1 .. MaxNews
    /\ pending \subseteq Request /\ cancelled \subseteq Request /\ held \subseteq Request
    /\ released \subseteq Request /\ failed \in 0 .. MaxFailed /\ dead \in BOOLEAN
    /\ answered \in [Request -> Seq(Conn)] /\ late \subseteq Request /\ cause \subseteq Cause
    /\ invalid \subseteq Request

\* Type correctness, of the event table with what it must hold.
EventTableSound == OneAtATime /\ Types

\* A request is answered once at most, and to the client that sent it; only a
\* thread that was answering when that client was found gone may write to
\* another ("mark pending requests as cancelled").
AnswerToAsker ==
    \A r \in Request :
        /\ Len(answered[r]) <= 1
        /\ \A i \in DOMAIN answered[r] : answered[r][i] = asker[r] \/ r \in late

\* A request that was freed is in no list, in no thread's hands to be answered,
\* and not with the vendor's RIL.
FreedForgotten ==
    \A r \in released :
        /\ r \notin pending /\ r \notin held
        /\ \A t \in Thread : job[t].of = r => job[t].what \notin {"answer", "error"}

\* A request in the list is with the vendor's RIL, which will complete it, unless
\* its arguments could not be read: such a request stays there for ever.
ListHeld == held = pending \ invalid

\* Whatever happens to clients and threads, a request is answered to its asker, is
\* forgotten once it is freed and is not left in the list unless it was invalid.
RequestsSound == AnswerToAsker /\ FreedForgotten /\ ListHeld

\* The newest NITZ time was written to a client that was there or is kept for
\* the next one, unless a kept one was lost in its resending or by an overlap.
Reporting(n) == \E t \in Thread : job[t].of = n /\ job[t].what \in {"nitz", "resend"}
NitzKept ==
    news > 0 => \/ news \in told \/ s_lastNITZTimeData = news
                \/ Reporting(news) \/ dead \/ cause \cap {"nitz", "ignored"} # {}

\* A request the event thread reads is answered while its client stays, unless its
\* block is invalid: to that nobody answers.
RequestAnswered ==
    \A r \in Request, c \in Conn :
        (asker[r] = c /\ fdCommand = c)
            ~> (answered[r] # <<>> \/ r \in invalid \/ peer[c] = "gone" \/ dead)

\* A client that waits is served once those before it have hung up.
NextServed ==
    \A c \in Conn :
        (peer[c] = "here" /\ \A d \in Conn : d < c => peer[d] = "gone")
            ~> (fdCommand = c \/ peer[c] = "gone" \/ dead)

\* Clients get their turn and their valid requests an answer.
ClientsServed == NextServed /\ RequestAnswered
=============================================================================
