------------------------------ MODULE SimLink ------------------------------
(***************************************************************************)
(* The TCP link of the remote SIM reference apps (SimConnection.cpp).      *)
(*                                                                         *)
(* remote-sim-daemon listens and serves one client at a time;              *)
(* sap-card-provider connects to it.  Both run a poll loop of one second,  *)
(* the daemon sends a keepalive request when the client has been silent    *)
(* for more than Interval seconds, and either end gives the connection up  *)
(* when nothing has arrived for more than Timeout seconds.  Other threads  *)
(* (modem listener, card callbacks) write to the same sockets.             *)
(*                                                                         *)
(* Time is counted in seconds by Tick, which waits for every poll loop     *)
(* that is due: poll() returns within POLL_TIMEOUT_MS.  The network may be *)
(* cut and healed; TCP keeps what was written and delivers it afterwards.  *)
(***************************************************************************)
EXTENDS Integers, Sequences

CONSTANTS
    Interval,   \* KEEPALIVE_MSG_INTERVAL_SEC
    Timeout,    \* KEEPALIVE_MSG_TIMEOUT_SEC
    MaxConn,    \* bound: TCP connections that exist at one time
    Backlog,    \* connections the kernel completes before accept()
    MaxQ,       \* bound: unread messages before a card message is written
    MaxBusy,    \* longest time in seconds a request blocks the client's loop
    MaxFault,   \* bound: exits of either process and cuts of the network
    MaxFail,    \* bound: failed attempts of the client to connect
    FdLimit     \* descriptors the client may leak before socket() fails

ASSUME LinkAssumption ==
    /\ Interval \in Nat \ {0} /\ Timeout \in Nat /\ Interval < Timeout
    /\ MaxConn \in Nat \ {0} /\ Backlog \in Nat /\ MaxQ \in Nat
    /\ MaxBusy \in Nat /\ MaxBusy <= Timeout /\ MaxFault \in Nat
    /\ MaxFail \in Nat /\ FdLimit \in Nat

Conn == 1 .. MaxConn
NoConn == 0                         \* a file descriptor of -1
Msg == {"ka", "card"}               \* CONN_KEEPALIVE_MSG; any other message
End == {"daemon", "client"}
Late == Timeout + 2                 \* where the idle clocks stop counting
Excuse == {"cut", "blocked", "coalesced", "stale"}

VARIABLES
    clientConnectionFd_,  \* daemon: the accepted connection
    clientConnected_,     \* daemon
    pendingKeepalive_,    \* daemon
    dIdle,                \* daemon: now - lastReceivedMsgTime (0: no client)
    dRan,                 \* daemon: its loop ran in this second
    daemonConnectionFd_,  \* client
    daemonConnected_,     \* client
    cIdle,                \* client: now - lastReceivedMsgTime (0: no daemon)
    cRan,                 \* client: its loop ran in this second
    cBusy,                \* client: seconds its loop is still blocked
    lostFds,              \* client: sockets it no longer knows and never closed
    backlog,              \* connections completed and not yet accepted
    open,                 \* open[c]: the ends of c that are not closed
    toDaemon,             \* toDaemon[c]: written by the client, unread
    toClient,             \* toClient[c]: written by the daemon, unread
    netUp,                \* the network carries packets
    faults,               \* exits and cuts so far
    asked,                \* history: a keepalive request was sent since the
                          \* client was last heard on this connection
    excuse                \* history: what since then may have kept the
                          \* client from being heard

daemonVars == <<clientConnectionFd_, clientConnected_, pendingKeepalive_,
                dIdle, dRan>>
clientVars == <<daemonConnectionFd_, daemonConnected_, cIdle, cRan, cBusy,
                lostFds>>
tcpVars == <<backlog, open, toDaemon, toClient>>
vars == <<daemonVars, clientVars, tcpVars, netUp, faults, asked, excuse>>

-----------------------------------------------------------------------------
(* TCP and the clock, as the code uses them.                               *)

Free == {c \in Conn : open[c] = {}}

\* close() of one end.
ClosedKept(c, e) == open[c]
Closed(c, e) == open[c] \ {e}

\* What write() adds to a queue: nothing once the reader has closed.
Written(q, c, reader, m) == IF reader \in open[c] THEN Append(q, m) ELSE q

\* An end sees its peer's close once the network delivers it.
PeerGone(c, peer) == netUp /\ peer \notin open[c]

\* read() returns the n oldest messages at once: TCP keeps no boundaries.
\* n = 0 stands for POLLIN not set, or a read() that returned 0 or less.
Reads(q, n) == IF netUp /\ q # << >> THEN n \in 1 .. Len(q) ELSE n = 0

\* poll() returns at once when there is something to read.
Ready(q, c, peer) == (netUp /\ q # << >>) \/ PeerGone(c, peer)

Init ==
    /\ clientConnectionFd_ = NoConn /\ clientConnected_ = FALSE
    /\ pendingKeepalive_ = FALSE /\ dIdle = 0 /\ dRan = FALSE
    /\ daemonConnectionFd_ = NoConn /\ daemonConnected_ = FALSE
    /\ cIdle = 0 /\ cRan = FALSE /\ cBusy = 0 /\ lostFds = 0
    /\ backlog = << >> /\ open = [c \in Conn |-> {}]
    /\ toDaemon = [c \in Conn |-> << >>] /\ toClient = [c \in Conn |-> << >>]
    /\ netUp = TRUE /\ faults = 0 /\ asked = FALSE /\ excuse = {}

-----------------------------------------------------------------------------
(* The daemon's end.                                                       *)

\* What is already against the client when its silence starts anew.
ExcuseNow == (IF netUp THEN {} ELSE {"cut"})
             \cup (IF cBusy > 0 THEN {"blocked"} ELSE {})

\* The value pendingKeepalive_ has when a connection is accepted.
PendingAtAccept == pendingKeepalive_

\* acceptClientConnection(), and lastReceivedMsgTime = now after it.
AcceptClient ==
    /\ ~clientConnected_ /\ backlog # << >>
    /\ clientConnectionFd_' = Head(backlog) /\ clientConnected_' = TRUE
    /\ backlog' = Tail(backlog)
    /\ pendingKeepalive_' = PendingAtAccept
    /\ dIdle' = 0 /\ dRan' = TRUE /\ asked' = FALSE
    /\ excuse' = ExcuseNow \cup (IF pendingKeepalive_ THEN {"stale"} ELSE {})
    /\ UNCHANGED <<clientVars, open, toDaemon, toClient, netUp, faults>>

\* The silence after which the daemon asks, and after which it gives up.
AskAfter(idle) == idle > Interval
GiveUpLate(idle) == idle > Timeout + 1
GiveUpAfter(idle) == idle > Timeout

\* pendingKeepalive_ after the read: any message counts as the answer.
PendingKept(got) == pendingKeepalive_
PendingAfterRead(got) == pendingKeepalive_ /\ ~got

\* The loop does not let a second pass: it is in poll(), or in accept().
DaemonDue == IF clientConnected_
             THEN ~dRan \/ Ready(toDaemon[clientConnectionFd_],
                                  clientConnectionFd_, "client")
             ELSE backlog # << >>

\* handleClientConnection() with a client: one pass of the daemon's loop.
\* hup: poll() reported POLLERR, POLLHUP or POLLNVAL.
DaemonPoll(n, hup) ==
    LET c       == clientConnectionFd_
        got     == n > 0
        idle    == IF got THEN 0 ELSE dIdle
        pending == PendingAfterRead(got)
        failed  == hup \/ (~got /\ PeerGone(c, "client"))
        ask     == ~failed /\ AskAfter(idle) /\ ~pending
        expire  == ~failed /\ AskAfter(idle) /\ pending /\ GiveUpAfter(idle)
        stays   == ~failed /\ ~expire
    IN
    /\ clientConnected_ /\ DaemonDue
    /\ Reads(toDaemon[c], n)
    /\ hup => PeerGone(c, "client")
    /\ clientConnected_' = stays
    /\ clientConnectionFd_' = IF stays THEN c ELSE NoConn
    /\ pendingKeepalive_' = ((pending \/ ask) /\ ~expire)
    /\ dIdle' = IF stays THEN idle ELSE 0
    /\ dRan' = TRUE
    /\ asked' = ((asked /\ ~got) \/ ask)
    /\ excuse' = IF got THEN ExcuseNow ELSE excuse
    /\ toDaemon' = [toDaemon EXCEPT ![c] =
                      IF stays THEN SubSeq(@, n + 1, Len(@)) ELSE << >>]
    /\ toClient' = [toClient EXCEPT ![c] =
                      IF ask THEN Written(@, c, "client", "ka") ELSE @]
    /\ open' = [open EXCEPT ![c] = IF stays THEN @ ELSE Closed(c, "daemon")]
    /\ UNCHANGED <<clientVars, backlog, netUp, faults>>

\* sendRequest() from the modem listener's thread.
DaemonSend ==
    LET c == clientConnectionFd_ IN
    /\ clientConnected_
    /\ Len(toClient[c]) < MaxQ
    /\ toClient' = [toClient EXCEPT ![c] = Written(@, c, "client", "card")]
    /\ UNCHANGED <<daemonVars, clientVars, backlog, open, toDaemon, netUp,
                   faults, asked, excuse>>

\* signalHandler(): tearDownClientConnection() and exit; the kernel closes the
\* connections that wait in the backlog.  The process starts anew, in accept().
DaemonExit ==
    LET mine == {clientConnectionFd_} \cup {backlog[i] : i \in 1 .. Len(backlog)}
    IN
    /\ faults < MaxFault /\ faults' = faults + 1
    /\ clientConnectionFd_' = NoConn /\ clientConnected_' = FALSE
    /\ pendingKeepalive_' = FALSE /\ dIdle' = 0 /\ dRan' = FALSE
    /\ asked' = FALSE /\ excuse' = {}
    /\ backlog' = << >>
    /\ open' = [c \in Conn |-> IF c \in mine THEN Closed(c, "daemon") ELSE open[c]]
    /\ toDaemon' = [c \in Conn |-> IF c \in mine THEN << >> ELSE toDaemon[c]]
    /\ UNCHANGED <<clientVars, toClient, netUp>>

-----------------------------------------------------------------------------
(* The client's end.                                                       *)

\* The daemon's host completes the connection.
Reachable == netUp /\ Len(backlog) < Backlog

\* connectToDaemon() that succeeds, and lastReceivedMsgTime = now after it.
ConnectToDaemon ==
    /\ ~daemonConnected_ /\ cBusy = 0
    /\ lostFds < FdLimit /\ Reachable
    /\ \E c \in Free :
         /\ \A d \in Free : c <= d
         /\ daemonConnectionFd_' = c
         /\ backlog' = Append(backlog, c)
         /\ open' = [open EXCEPT ![c] = End]
    /\ daemonConnected_' = TRUE /\ cIdle' = 0 /\ cRan' = TRUE
    /\ UNCHANGED <<daemonVars, cBusy, lostFds, toDaemon, toClient, netUp,
                   faults, asked, excuse>>

\* connectToDaemon() whose connect() fails: daemonConnectionFd_ = -1 without a
\* close().  It is retried after sleep(5).
ConnectFails ==
    /\ ~daemonConnected_ /\ cBusy = 0
    /\ lostFds < FdLimit /\ ~Reachable
    /\ lostFds < MaxFail
    /\ lostFds' = lostFds + 1
    /\ UNCHANGED <<daemonVars, daemonConnectionFd_, daemonConnected_, cIdle, cRan,
                   cBusy, tcpVars, netUp, faults, asked, excuse>>

\* The loop is in poll(), and not blocked in CardControl.
ClientDue == /\ daemonConnected_ /\ cBusy = 0
             /\ \/ ~cRan
                \/ Ready(toClient[daemonConnectionFd_], daemonConnectionFd_, "daemon")

\* The messages of a read() that handleDaemonMsg() acts on: it dispatches on
\* buf[0] and ignores what was coalesced behind the first message.
Dispatched(q, n) == IF n = 0 THEN {} ELSE {Head(q)}

\* The seconds CardControl may hold the loop: wait_for() gives up at the limit.
BusyLong(does) == 0 .. MaxBusy + 1
BusyTimes(does) == IF "card" \in does THEN 0 .. MaxBusy ELSE {0}

\* Sockets lost when the loop drops the daemon: it closes the descriptor first.
LostAtDropUnclosed(stays) == IF stays THEN lostFds ELSE lostFds + 1
LostAtDrop(stays) == lostFds

\* handleDaemonConnection() with a daemon, and handleDaemonMsg(): one pass of
\* the client's loop.  A keepalive request is answered at once; any other
\* request goes to CardControl, which may block the loop for a while.
ClientPoll(n, hup, busy) ==
    LET c      == daemonConnectionFd_
        q      == toClient[c]
        got    == n > 0
        idle   == IF got THEN 0 ELSE cIdle
        failed == hup \/ (~got /\ PeerGone(c, "daemon"))
        stays  == ~failed /\ ~GiveUpAfter(idle)
        does   == Dispatched(q, n)
        answer == stays /\ "ka" \in does
        lost   == \E i \in 2 .. n : q[i] = "ka"
    IN
    /\ ClientDue
    /\ Reads(q, n)
    /\ hup => PeerGone(c, "daemon")
    /\ busy \in BusyTimes(does)
    /\ daemonConnected_' = stays
    /\ daemonConnectionFd_' = IF stays THEN c ELSE NoConn
    /\ cIdle' = IF stays THEN idle ELSE 0
    /\ cRan' = TRUE /\ cBusy' = busy /\ lostFds' = LostAtDrop(stays)
    /\ toClient' = [toClient EXCEPT ![c] =
                      IF stays THEN SubSeq(@, n + 1, Len(@)) ELSE << >>]
    /\ toDaemon' = [toDaemon EXCEPT ![c] =
                      IF answer THEN Written(@, c, "daemon", "ka") ELSE @]
    /\ open' = [open EXCEPT ![c] = IF stays THEN @ ELSE Closed(c, "client")]
    /\ excuse' = IF c # clientConnectionFd_ THEN excuse
                 ELSE excuse \cup (IF lost THEN {"coalesced"} ELSE {})
                             \cup (IF busy > 0 THEN {"blocked"} ELSE {})
    /\ UNCHANGED <<daemonVars, backlog, netUp, faults, asked>>

\* sendResponse() from a card callback's thread.
ClientSend ==
    LET c == daemonConnectionFd_ IN
    /\ daemonConnected_
    /\ Len(toDaemon[c]) < MaxQ
    /\ toDaemon' = [toDaemon EXCEPT ![c] = Written(@, c, "daemon", "card")]
    /\ UNCHANGED <<daemonVars, clientVars, backlog, open, toClient, netUp,
                   faults, asked, excuse>>

\* signalHandler(): tearDownDaemonConnection() and exit.
ClientExit ==
    LET c == daemonConnectionFd_ IN
    /\ faults < MaxFault /\ faults' = faults + 1
    /\ daemonConnectionFd_' = NoConn /\ daemonConnected_' = FALSE
    /\ cIdle' = 0 /\ cRan' = FALSE /\ cBusy' = 0 /\ lostFds' = 0
    /\ open' = [d \in Conn |-> IF d = c THEN Closed(d, "client") ELSE open[d]]
    /\ toClient' = [d \in Conn |-> IF d = c THEN << >> ELSE toClient[d]]
    /\ UNCHANGED <<daemonVars, backlog, toDaemon, netUp, asked, excuse>>

-----------------------------------------------------------------------------
(* The environment.                                                        *)

NetCut ==
    /\ netUp /\ netUp' = FALSE
    /\ faults < MaxFault /\ faults' = faults + 1
    /\ excuse' = IF clientConnected_ THEN excuse \cup {"cut"} ELSE excuse
    /\ UNCHANGED <<daemonVars, clientVars, tcpVars, asked>>

NetHeal ==
    /\ ~netUp /\ netUp' = TRUE
    /\ UNCHANGED <<daemonVars, clientVars, tcpVars, faults, asked, excuse>>

Older(idle) == IF idle < Late THEN idle + 1 ELSE idle

\* A second passes.
Tick ==
    /\ ~DaemonDue /\ ~ClientDue
    /\ dIdle' = IF clientConnected_ THEN Older(dIdle) ELSE dIdle
    /\ cIdle' = IF daemonConnected_ THEN Older(cIdle) ELSE cIdle
    /\ dRan' = FALSE /\ cRan' = FALSE
    /\ cBusy' = IF cBusy > 0 THEN cBusy - 1 ELSE 0
    /\ UNCHANGED <<clientConnectionFd_, clientConnected_, pendingKeepalive_,
                   daemonConnectionFd_, daemonConnected_, lostFds, tcpVars, netUp,
                   faults, asked, excuse>>

DaemonLoop ==
    \/ AcceptClient
    \/ clientConnected_ /\ \E n \in 0 .. Len(toDaemon[clientConnectionFd_]),
                              hup \in BOOLEAN : DaemonPoll(n, hup)

ClientLoop ==
    \/ ConnectToDaemon
    \/ ConnectFails
    \/ daemonConnected_ /\ \E n \in 0 .. Len(toClient[daemonConnectionFd_]),
                              hup \in BOOLEAN, busy \in 0 .. MaxBusy + 1 :
                                ClientPoll(n, hup, busy)

Next == \/ DaemonLoop \/ DaemonSend \/ DaemonExit
        \/ ClientLoop \/ ClientSend \/ ClientExit
        \/ NetCut \/ NetHeal \/ Tick

\* Both loops keep running, and time passes.
Fairness == WF_vars(DaemonLoop) /\ WF_vars(ClientLoop) /\ WF_vars(Tick)

Spec == Init /\ [][Next]_vars /\ Fairness

-----------------------------------------------------------------------------
(* Properties.                                                             *)

\* The state keeps its type: both descriptors name a connection or none, and the
\* idle counts stay within the keepalive's wait.
TypeOK ==
    /\ clientConnectionFd_ \in Conn \cup {NoConn} /\ clientConnected_ \in BOOLEAN
    /\ pendingKeepalive_ \in BOOLEAN /\ dIdle \in 0 .. Late /\ dRan \in BOOLEAN
    /\ daemonConnectionFd_ \in Conn \cup {NoConn} /\ daemonConnected_ \in BOOLEAN
    /\ cIdle \in 0 .. Late /\ cRan \in BOOLEAN /\ cBusy \in 0 .. MaxBusy
    /\ lostFds \in Nat
    /\ backlog \in Seq(Conn) /\ open \in [Conn -> SUBSET End]
    /\ toDaemon \in [Conn -> Seq(Msg)] /\ toClient \in [Conn -> Seq(Msg)]
    /\ netUp \in BOOLEAN /\ faults \in 0 .. MaxFault
    /\ asked \in BOOLEAN /\ excuse \in SUBSET Excuse

\* Neither end believes in a silent peer for longer than one second past
\* KEEPALIVE_MSG_TIMEOUT_SEC, however the connection was lost.
SilentPeerDropped ==
    /\ clientConnected_ => dIdle <= Timeout + 1
    /\ daemonConnected_ => cIdle <= Timeout + 1

\* A client that has been silent for the interval has been asked for a sign of
\* life before its time is up, unless pendingKeepalive_ was left over from an
\* earlier connection.
IdleClientAsked ==
    clientConnected_ /\ dRan /\ dIdle > Interval => asked \/ "stale" \in excuse

\* Silence has its consequences at both ends: an idle client is asked for a sign
\* of life, and a peer that gives none is dropped in time.
SilenceAnswered == IdleClientAsked /\ SilentPeerDropped

\* The daemon's loop never drops a client that has its end open, unless the
\* network was cut, the client's loop was blocked, the keepalive request was
\* coalesced behind another message or pendingKeepalive_ was left over.
ReachableClientKept ==
    [][ clientConnected_ /\ ~clientConnected_' /\ dRan' /\ excuse = {}
          => "client" \notin open[clientConnectionFd_] ]_vars

\* What is open at the client is the connection it uses; what is open at the
\* daemon is the accepted connection or waits in the backlog, once.
SocketsAccounted ==
    /\ \A c \in Conn : "client" \in open[c] <=> c = daemonConnectionFd_
    /\ \A c \in Conn : "daemon" \in open[c] <=>
          c = clientConnectionFd_ \/ \E i \in 1 .. Len(backlog) : backlog[i] = c
    /\ \A i \in 1 .. Len(backlog) : backlog[i] # clientConnectionFd_

Linked == clientConnected_ /\ daemonConnected_ /\ clientConnectionFd_ = daemonConnectionFd_

\* Once the network stays up, the two ends find each other again and again:
\* neither waits for ever on a connection the other has given up.
LinkRecovers == <>[]netUp => []<>Linked

=============================================================================
