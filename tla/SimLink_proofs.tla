--------------------------- MODULE SimLink_proofs ---------------------------
(***************************************************************************)
(* Proofs about SimLink: its type invariant, that an idle client is asked  *)
(* and that neither end believes in a silent peer for longer than one      *)
(* second past the timeout, that no open socket is forgotten, and that a   *)
(* reachable client is kept, for every interval, timeout, queue length,    *)
(* number of connections and of faults.  And about ApduCodec: what one end *)
(* of the link frames the other end's parser finds, for every size.        *)
(***************************************************************************)
EXTENDS SimLink, ApduCodec, SequenceTheorems, TLAPS

\* The facts that make SilentPeerDropped inductive.  At the daemon a silence
\* longer than the interval is noticed in the second in which it begins, and
\* the request it causes stays pending.  At the client a silence during which
\* the loop is blocked began with the message that blocked it.
SilenceNoticed ==
    /\ clientConnected_ =>
         IF dRan THEN dIdle > Interval => pendingKeepalive_ /\ dIdle <= Timeout
                 ELSE /\ dIdle > Interval + 1 => pendingKeepalive_
                      /\ dIdle <= Timeout + 1
    /\ daemonConnected_ =>
         IF cBusy > 0 THEN cIdle + cBusy <= MaxBusy
         ELSE cIdle <= Timeout + (IF cRan THEN 0 ELSE 1)

\* A connected flag is TRUE only while its descriptor is valid.
FlagsMatchFds ==
    /\ clientConnected_ <=> clientConnectionFd_ # NoConn
    /\ daemonConnected_ <=> daemonConnectionFd_ # NoConn

\* A pending keepalive was asked for on this connection, or was left over when
\* the connection was accepted.
PendingExplained ==
    clientConnected_ /\ pendingKeepalive_ => asked \/ "stale" \in excuse

IInv == TypeOK /\ FlagsMatchFds /\ SilenceNoticed /\ PendingExplained

-----------------------------------------------------------------------------
(* Facts about the operators.                                              *)

\* A prefix is removed from a queue by read(): what is left is a queue.
LEMMA RestIsQueue ==
    ASSUME NEW q \in Seq(Msg), NEW n \in 0 .. Len(q)
    PROVE  SubSeq(q, n + 1, Len(q)) \in Seq(Msg)
  OBVIOUS

\* write() keeps a queue a queue.
LEMMA WrittenIsQueue ==
    ASSUME NEW q \in Seq(Msg), NEW c, NEW e, NEW m \in Msg
    PROVE  Written(q, c, e, m) \in Seq(Msg)
  BY DEF Written

LEMMA ZeroIsIdle ==
    ASSUME LinkAssumption
    PROVE  0 \in 0 .. Late /\ 0 \in 0 .. MaxBusy /\ 0 \in 0 .. MaxFault
  BY DEF Late, LinkAssumption

LEMMA OlderBounds ==
    ASSUME LinkAssumption, NEW idle \in 0 .. Late
    PROVE  /\ Older(idle) \in 0 .. Late
           /\ idle <= Timeout + 1 => Older(idle) = idle + 1
  BY DEF Older, Late, LinkAssumption

-----------------------------------------------------------------------------
(* The inductive step, one lemma per loop.                                 *)

LEMMA DaemonPollStep ==
    ASSUME IInv, NEW n \in Nat, NEW hup \in BOOLEAN, DaemonPoll(n, hup)
    PROVE  IInv'
<1> DEFINE c == clientConnectionFd_
           heard == n > 0
           idle == IF heard THEN 0 ELSE dIdle
           pending == PendingAfterRead(heard)
           failed == hup \/ (~heard /\ PeerGone(c, "client"))
           ask == ~failed /\ AskAfter(idle) /\ ~pending
           expire == ~failed /\ AskAfter(idle) /\ pending /\ GiveUpAfter(idle)
           stays == ~failed /\ ~expire
<1> USE LinkAssumption DEF NoConn
<1>1. c \in Conn /\ clientConnected_
  BY DEF IInv, TypeOK, FlagsMatchFds, DaemonPoll
<1>2. toDaemon[c] \in Seq(Msg) /\ toClient[c] \in Seq(Msg) /\ open[c] \in SUBSET End
  BY <1>1 DEF IInv, TypeOK
<1>3. n \in 0 .. Len(toDaemon[c])
  BY <1>2 DEF DaemonPoll, Reads
<1>4. idle \in 0 .. Late /\ (heard => idle = 0) /\ (~heard => idle = dIdle)
  BY DEF IInv, TypeOK, Late, LinkAssumption
<1>5. TypeOK'
  <2>1. toDaemon' \in [Conn -> Seq(Msg)]
    <3>1. SubSeq(toDaemon[c], n + 1, Len(toDaemon[c])) \in Seq(Msg)
      BY <1>2, <1>3, RestIsQueue
    <3>2. << >> \in Seq(Msg)
      OBVIOUS
    <3>3. toDaemon' = [toDaemon EXCEPT ![c] =
             IF stays THEN SubSeq(toDaemon[c], n + 1, Len(toDaemon[c])) ELSE << >>]
      BY <1>1 DEF DaemonPoll, IInv, TypeOK
    <3> QED
      BY <1>1, <3>1, <3>2, <3>3 DEF IInv, TypeOK
  <2>2. toClient' \in [Conn -> Seq(Msg)]
    <3>1. Written(toClient[c], c, "client", "ka") \in Seq(Msg)
      BY <1>2, WrittenIsQueue DEF Msg
    <3>2. toClient' = [toClient EXCEPT ![c] =
             IF ask THEN Written(toClient[c], c, "client", "ka") ELSE toClient[c]]
      BY <1>1 DEF DaemonPoll, IInv, TypeOK
    <3> QED
      BY <1>1, <1>2, <3>1, <3>2 DEF IInv, TypeOK
  <2>3. open' \in [Conn -> SUBSET End]
    BY <1>1, <1>2 DEF DaemonPoll, IInv, TypeOK, Closed, End
  <2>4. dIdle' \in 0 .. Late
    BY <1>4 DEF DaemonPoll, Late, LinkAssumption
  <2>5. excuse' \in SUBSET Excuse
    BY DEF DaemonPoll, IInv, TypeOK, ExcuseNow, Excuse
  <2>6. /\ clientConnected_' \in BOOLEAN /\ pendingKeepalive_' \in BOOLEAN
        /\ asked' \in BOOLEAN /\ dRan' \in BOOLEAN
    BY DEF DaemonPoll
  <2>7. clientConnectionFd_' \in Conn \cup {NoConn}
    BY <1>1 DEF DaemonPoll
  <2>8. UNCHANGED <<clientVars, backlog, netUp, faults>>
    BY DEF DaemonPoll
  <2> QED
    BY <2>1, <2>2, <2>3, <2>4, <2>5, <2>6, <2>7, <2>8 DEF IInv, TypeOK, clientVars
<1>6. FlagsMatchFds'
  BY <1>1 DEF DaemonPoll, IInv, FlagsMatchFds, clientVars, Conn
<1>7. SilenceNoticed'
  <2>1. CASE ~clientConnected_'
    BY <2>1 DEF DaemonPoll, IInv, SilenceNoticed, clientVars
  <2>2. CASE clientConnected_'
    <3>1. stays /\ dIdle' = idle /\ dRan' /\ pendingKeepalive_' = (pending \/ ask)
      BY <2>2 DEF DaemonPoll
    <3>2. idle > Interval => pendingKeepalive_'
      BY <3>1 DEF AskAfter
    <3>3. idle > Interval => idle <= Timeout
      <4>1. CASE heard
        BY <4>1, <1>4 DEF LinkAssumption
      <4>2. CASE ~heard
        <5>1. idle = dIdle /\ pending = pendingKeepalive_
          BY <4>2 DEF PendingAfterRead, IInv, TypeOK
        <5>2. dIdle > Interval + 1 => pendingKeepalive_
          BY <1>1, <1>4 DEF IInv, SilenceNoticed, TypeOK, LinkAssumption, Late
        <5>3. pending /\ idle > Interval => idle <= Timeout
          BY <3>1, <1>4 DEF AskAfter, GiveUpAfter, LinkAssumption, Late
        <5> QED
          BY <5>1, <5>2, <5>3, <1>4 DEF LinkAssumption, Late
      <4> QED
        BY <4>1, <4>2
    <3> QED
      BY <3>1, <3>2, <3>3 DEF DaemonPoll, IInv, SilenceNoticed, clientVars
  <2> QED
    BY <2>1, <2>2 DEF DaemonPoll
<1>8. PendingExplained'
  <2> SUFFICES ASSUME clientConnected_', pendingKeepalive_'
               PROVE  asked' \/ "stale" \in excuse'
    BY DEF PendingExplained
  <2>1. CASE ask
    BY <2>1 DEF DaemonPoll
  <2>2. CASE ~ask
    <3>1. pending
      BY <2>2 DEF DaemonPoll
    <3>2. ~heard /\ pendingKeepalive_
      BY <3>1 DEF PendingAfterRead, IInv, TypeOK
    <3>3. asked \/ "stale" \in excuse
      BY <1>1, <3>2 DEF IInv, PendingExplained
    <3>4. asked' = ((asked /\ ~heard) \/ ask) /\ excuse' = excuse
      BY <3>2 DEF DaemonPoll
    <3> QED
      BY <3>2, <3>3, <3>4
  <2> QED
    BY <2>1, <2>2
<1> QED
  BY <1>5, <1>6, <1>7, <1>8 DEF IInv

LEMMA ClientPollStep ==
    ASSUME IInv, NEW n \in Nat, NEW hup \in BOOLEAN, NEW busy \in Nat,
           ClientPoll(n, hup, busy)
    PROVE  IInv'
<1> DEFINE c == daemonConnectionFd_
           q == toClient[c]
           heard == n > 0
           idle == IF heard THEN 0 ELSE cIdle
           failed == hup \/ (~heard /\ PeerGone(c, "daemon"))
           stays == ~failed /\ ~GiveUpAfter(idle)
           answer == stays /\ "ka" \in Dispatched(q, n)
<1> USE LinkAssumption DEF NoConn
<1>1. c \in Conn /\ daemonConnected_ /\ cBusy = 0
  BY DEF IInv, TypeOK, FlagsMatchFds, ClientPoll, ClientDue
<1>2. toDaemon[c] \in Seq(Msg) /\ q \in Seq(Msg) /\ open[c] \in SUBSET End
  BY <1>1 DEF IInv, TypeOK
<1>3. n \in 0 .. Len(q)
  BY <1>2 DEF ClientPoll, Reads
<1>4. idle \in 0 .. Late /\ (heard => idle = 0)
  BY DEF IInv, TypeOK, Late, LinkAssumption
<1>5. busy \in 0 .. MaxBusy /\ (busy > 0 => heard)
  BY DEF ClientPoll, BusyTimes, Dispatched, LinkAssumption
<1>6. TypeOK'
  <2>1. toClient' \in [Conn -> Seq(Msg)]
    <3>1. SubSeq(q, n + 1, Len(q)) \in Seq(Msg)
      BY <1>2, <1>3, RestIsQueue
    <3>2. << >> \in Seq(Msg)
      OBVIOUS
    <3>3. toClient' = [toClient EXCEPT ![c] =
             IF stays THEN SubSeq(q, n + 1, Len(q)) ELSE << >>]
      BY <1>1 DEF ClientPoll, IInv, TypeOK
    <3> QED
      BY <1>1, <3>1, <3>2, <3>3 DEF IInv, TypeOK
  <2>2. toDaemon' \in [Conn -> Seq(Msg)]
    <3>1. Written(toDaemon[c], c, "daemon", "ka") \in Seq(Msg)
      BY <1>2, WrittenIsQueue DEF Msg
    <3>2. toDaemon' = [toDaemon EXCEPT ![c] =
             IF answer THEN Written(toDaemon[c], c, "daemon", "ka") ELSE toDaemon[c]]
      BY <1>1 DEF ClientPoll, IInv, TypeOK
    <3> QED
      BY <1>1, <1>2, <3>1, <3>2 DEF IInv, TypeOK
  <2>3. open' \in [Conn -> SUBSET End]
    BY <1>1, <1>2 DEF ClientPoll, IInv, TypeOK, Closed, End
  <2>4. cIdle' \in 0 .. Late /\ cBusy' \in 0 .. MaxBusy
    BY <1>4, <1>5 DEF ClientPoll, Late, LinkAssumption
  <2>5. excuse' \in SUBSET Excuse
    BY DEF ClientPoll, IInv, TypeOK, Excuse
  <2>6. daemonConnected_' \in BOOLEAN /\ cRan' \in BOOLEAN /\ lostFds' \in Nat
    BY DEF ClientPoll, LostAtDrop, IInv, TypeOK
  <2>7. daemonConnectionFd_' \in Conn \cup {NoConn}
    BY <1>1 DEF ClientPoll
  <2>8. UNCHANGED <<daemonVars, backlog, netUp, faults, asked>>
    BY DEF ClientPoll
  <2> QED
    BY <2>1, <2>2, <2>3, <2>4, <2>5, <2>6, <2>7, <2>8 DEF IInv, TypeOK, daemonVars
<1>7. FlagsMatchFds'
  BY <1>1 DEF ClientPoll, IInv, FlagsMatchFds, daemonVars, Conn
<1>8. SilenceNoticed'
  <2>1. CASE ~daemonConnected_'
    BY <2>1 DEF ClientPoll, IInv, SilenceNoticed, daemonVars
  <2>2. CASE daemonConnected_'
    <3>0. stays /\ cIdle' = idle /\ cRan' /\ cBusy' = busy
      BY <2>2 DEF ClientPoll
    <3>1. cIdle' = idle /\ cRan' /\ cBusy' = busy /\ idle <= Timeout
      BY <3>0, <1>4 DEF GiveUpAfter, LinkAssumption, Late
    <3> QED
      BY <3>1, <1>4, <1>5 DEF ClientPoll, IInv, SilenceNoticed, daemonVars, LinkAssumption, Late
  <2> QED
    BY <2>1, <2>2 DEF ClientPoll
<1>9. PendingExplained'
  <2>1. UNCHANGED <<clientConnected_, pendingKeepalive_, asked>> /\ excuse \subseteq excuse'
    BY DEF ClientPoll, daemonVars
  <2> QED
    BY <2>1 DEF IInv, PendingExplained
<1> QED
  BY <1>6, <1>7, <1>8, <1>9 DEF IInv

LEMMA TickStep ==
    ASSUME IInv, Tick
    PROVE  IInv'
<1> USE LinkAssumption DEF NoConn
<1>1. TypeOK'
  <2>1. dIdle' \in 0 .. Late /\ cIdle' \in 0 .. Late
    BY OlderBounds DEF Tick, IInv, TypeOK
  <2>2. cBusy' \in 0 .. MaxBusy
    BY DEF Tick, IInv, TypeOK, LinkAssumption
  <2> QED
    BY <2>1, <2>2 DEF Tick, IInv, TypeOK, tcpVars
<1>2. FlagsMatchFds'
  BY DEF Tick, IInv, FlagsMatchFds
<1>3. ASSUME clientConnected_'
      PROVE  /\ dIdle' > Interval + 1 => pendingKeepalive_'
             /\ dIdle' <= Timeout + 1
  <2>1. clientConnected_ /\ dRan /\ pendingKeepalive_' = pendingKeepalive_
    BY <1>3 DEF Tick, DaemonDue, IInv, TypeOK
  <2>2. dIdle \in 0 .. Late /\ (dIdle > Interval => pendingKeepalive_ /\ dIdle <= Timeout)
    BY <2>1 DEF IInv, SilenceNoticed, TypeOK
  <2>3. dIdle' = dIdle + 1
    BY <2>1, <2>2, OlderBounds DEF Tick, LinkAssumption, Late
  <2> QED
    BY <2>1, <2>2, <2>3 DEF LinkAssumption, Late
<1>4. ASSUME daemonConnected_'
      PROVE  IF cBusy' > 0 THEN cIdle' + cBusy' <= MaxBusy ELSE cIdle' <= Timeout + 1
  <2>1. daemonConnected_ /\ cIdle \in 0 .. Late /\ cBusy \in 0 .. MaxBusy
    BY <1>4 DEF Tick, IInv, TypeOK
  <2>2. CASE cBusy > 0
    <3>1. cIdle + cBusy <= MaxBusy
      BY <2>1, <2>2 DEF IInv, SilenceNoticed
    <3>2. cIdle' = cIdle + 1 /\ cBusy' = cBusy - 1
      BY <2>1, <2>2, <3>1, OlderBounds DEF Tick, LinkAssumption, Late
    <3> QED
      BY <2>1, <3>1, <3>2, <2>2 DEF LinkAssumption, Late
  <2>3. CASE cBusy = 0
    <3>1. cRan /\ cIdle <= Timeout
      BY <2>1, <2>3 DEF Tick, ClientDue, IInv, SilenceNoticed, TypeOK, LinkAssumption, Late
    <3>2. cIdle' = cIdle + 1 /\ cBusy' = 0
      BY <2>1, <2>3, <3>1, OlderBounds DEF Tick, LinkAssumption, Late
    <3> QED
      BY <2>1, <3>1, <3>2 DEF LinkAssumption, Late
  <2> QED
    BY <2>1, <2>2, <2>3 DEF LinkAssumption
<1>5. SilenceNoticed'
  BY <1>3, <1>4 DEF SilenceNoticed, Tick
<1>6. PendingExplained'
  BY DEF Tick, IInv, PendingExplained
<1> QED
  BY <1>1, <1>2, <1>5, <1>6 DEF IInv

LEMMA AcceptStep ==
    ASSUME IInv, AcceptClient
    PROVE  IInv'
<1> USE LinkAssumption DEF NoConn
<1>1. Head(backlog) \in Conn /\ Tail(backlog) \in Seq(Conn)
  BY DEF AcceptClient, IInv, TypeOK
<1>2. excuse' \in SUBSET Excuse
  BY DEF AcceptClient, ExcuseNow, Excuse
<1>3. TypeOK'
  BY <1>1, <1>2, ZeroIsIdle DEF AcceptClient, IInv, TypeOK, clientVars, PendingAtAccept
<1>4. FlagsMatchFds'
  BY <1>1 DEF AcceptClient, IInv, FlagsMatchFds, clientVars, Conn
<1>5. SilenceNoticed'
  BY DEF AcceptClient, IInv, SilenceNoticed, clientVars, LinkAssumption
<1>6. PendingExplained'
  BY DEF AcceptClient, PendingExplained, PendingAtAccept
<1> QED
  BY <1>3, <1>4, <1>5, <1>6 DEF IInv

LEMMA ConnectStep ==
    ASSUME IInv, ConnectToDaemon \/ ConnectFails
    PROVE  IInv'
<1> USE LinkAssumption DEF NoConn
<1>1. CASE ConnectToDaemon
  <2>1. PICK c \in Free : /\ daemonConnectionFd_' = c
                          /\ backlog' = Append(backlog, c)
                          /\ open' = [open EXCEPT ![c] = End]
    BY <1>1 DEF ConnectToDaemon
  <2>2. c \in Conn
    BY DEF Free
  <2>3. TypeOK'
    BY <1>1, <2>1, <2>2 DEF ConnectToDaemon, IInv, TypeOK, daemonVars, LinkAssumption, Late
  <2>4. FlagsMatchFds'
    BY <1>1, <2>1, <2>2 DEF ConnectToDaemon, IInv, FlagsMatchFds, daemonVars, Conn
  <2>5. SilenceNoticed'
    BY <1>1 DEF ConnectToDaemon, IInv, SilenceNoticed, daemonVars, LinkAssumption, TypeOK
  <2>6. PendingExplained'
    BY <1>1 DEF ConnectToDaemon, IInv, PendingExplained, daemonVars
  <2> QED
    BY <2>3, <2>4, <2>5, <2>6 DEF IInv
<1>2. CASE ConnectFails
  BY <1>2 DEF ConnectFails, IInv, TypeOK, FlagsMatchFds, SilenceNoticed, PendingExplained,
              daemonVars, tcpVars
<1> QED
  BY <1>1, <1>2

\* Writes of the other threads, exits and cuts touch no clock but to reset it.
LEMMA OtherStep ==
    ASSUME IInv, DaemonSend \/ DaemonExit \/ ClientSend \/ ClientExit \/ NetCut \/ NetHeal
    PROVE  IInv'
<1> USE LinkAssumption DEF NoConn
<1>1. CASE DaemonSend
  <2>1. clientConnectionFd_ \in Conn
    BY <1>1 DEF DaemonSend, IInv, TypeOK, FlagsMatchFds
  <2>2. Written(toClient[clientConnectionFd_], clientConnectionFd_, "client", "card") \in Seq(Msg)
    BY <2>1, WrittenIsQueue DEF IInv, TypeOK, Msg
  <2> QED
    BY <1>1, <2>1, <2>2
    DEF DaemonSend, IInv, TypeOK, FlagsMatchFds, SilenceNoticed, PendingExplained,
        daemonVars, clientVars
<1>2. CASE ClientSend
  <2>1. daemonConnectionFd_ \in Conn
    BY <1>2 DEF ClientSend, IInv, TypeOK, FlagsMatchFds
  <2>2. Written(toDaemon[daemonConnectionFd_], daemonConnectionFd_, "daemon", "card") \in Seq(Msg)
    BY <2>1, WrittenIsQueue DEF IInv, TypeOK, Msg
  <2> QED
    BY <1>2, <2>1, <2>2
    DEF ClientSend, IInv, TypeOK, FlagsMatchFds, SilenceNoticed, PendingExplained,
        daemonVars, clientVars
<1>3. CASE DaemonExit
  <2>1. open' \in [Conn -> SUBSET End] /\ toDaemon' \in [Conn -> Seq(Msg)]
    BY <1>3 DEF DaemonExit, IInv, TypeOK, Closed
  <2>2. faults' \in 0 .. MaxFault
    BY <1>3 DEF DaemonExit, IInv, TypeOK, LinkAssumption
  <2>3. backlog' \in Seq(Conn) /\ excuse' \in SUBSET Excuse
    BY <1>3 DEF DaemonExit
  <2>4. TypeOK'
    BY <1>3, <2>1, <2>2, <2>3, ZeroIsIdle DEF DaemonExit, IInv, TypeOK, clientVars
  <2> QED
    BY <1>3, <2>4 DEF DaemonExit, IInv, FlagsMatchFds, SilenceNoticed, PendingExplained,
                      clientVars
<1>4. CASE ClientExit
  <2>1. open' \in [Conn -> SUBSET End] /\ toClient' \in [Conn -> Seq(Msg)]
    BY <1>4 DEF ClientExit, IInv, TypeOK, Closed
  <2>2. faults' \in 0 .. MaxFault
    BY <1>4 DEF ClientExit, IInv, TypeOK, LinkAssumption
  <2>3. TypeOK'
    BY <1>4, <2>1, <2>2, ZeroIsIdle DEF ClientExit, IInv, TypeOK, daemonVars
  <2> QED
    BY <1>4, <2>3 DEF ClientExit, IInv, FlagsMatchFds, SilenceNoticed, PendingExplained,
                      daemonVars
<1>5. CASE NetCut
  <2>1. excuse' \in SUBSET Excuse
    BY <1>5 DEF NetCut, IInv, TypeOK, Excuse
  <2>2. faults' \in 0 .. MaxFault
    BY <1>5 DEF NetCut, IInv, TypeOK, LinkAssumption
  <2>3. UNCHANGED <<daemonVars, clientVars, tcpVars, asked>> /\ netUp' \in BOOLEAN
    BY <1>5 DEF NetCut
  <2>4. TypeOK'
    BY <2>1, <2>2, <2>3 DEF IInv, TypeOK, daemonVars, clientVars, tcpVars
  <2>5. excuse \subseteq excuse'
    BY <1>5 DEF NetCut
  <2> QED
    BY <2>3, <2>4, <2>5 DEF IInv, FlagsMatchFds, SilenceNoticed, PendingExplained,
                            daemonVars, clientVars
<1>6. CASE NetHeal
  BY <1>6 DEF NetHeal, IInv, TypeOK, FlagsMatchFds, SilenceNoticed, PendingExplained,
              daemonVars, clientVars, tcpVars
<1> QED
  BY <1>1, <1>2, <1>3, <1>4, <1>5, <1>6

-----------------------------------------------------------------------------

\* IInv holds initially and every step of either process, of the other threads,
\* of the network and of the clock preserves it.
THEOREM LinkInductive == Spec => []IInv
<1>1. Init => IInv
  <2> SUFFICES ASSUME Init PROVE IInv
    OBVIOUS
  <2>1. TypeOK
    <3>1. /\ open \in [Conn -> SUBSET End] /\ backlog \in Seq(Conn)
          /\ toDaemon \in [Conn -> Seq(Msg)] /\ toClient \in [Conn -> Seq(Msg)]
      BY DEF Init
    <3>2. /\ dIdle \in 0 .. Late /\ cIdle \in 0 .. Late /\ cBusy \in 0 .. MaxBusy
          /\ lostFds \in Nat /\ faults \in 0 .. MaxFault /\ excuse \in SUBSET Excuse
      BY LinkAssumption, ZeroIsIdle DEF Init
    <3>3. /\ clientConnectionFd_ \in Conn \cup {NoConn}
          /\ daemonConnectionFd_ \in Conn \cup {NoConn}
          /\ clientConnected_ \in BOOLEAN /\ pendingKeepalive_ \in BOOLEAN
          /\ dRan \in BOOLEAN /\ daemonConnected_ \in BOOLEAN /\ cRan \in BOOLEAN
          /\ netUp \in BOOLEAN /\ asked \in BOOLEAN
      BY DEF Init
    <3> QED
      BY <3>1, <3>2, <3>3 DEF TypeOK
  <2>2. FlagsMatchFds /\ SilenceNoticed /\ PendingExplained
    BY LinkAssumption DEF Init, FlagsMatchFds, SilenceNoticed, PendingExplained
  <2> QED
    BY <2>1, <2>2 DEF IInv
<1>2. IInv /\ [Next]_vars => IInv'
  <2> SUFFICES ASSUME IInv, [Next]_vars PROVE IInv'
    OBVIOUS
  <2>1. CASE DaemonLoop
    <3>1. ASSUME clientConnected_,
                 NEW n \in 0 .. Len(toDaemon[clientConnectionFd_]), NEW hup \in BOOLEAN,
                 DaemonPoll(n, hup)
          PROVE  IInv'
      <4>1. n \in Nat
        BY <3>1 DEF IInv, TypeOK, FlagsMatchFds
      <4> QED
        BY <3>1, <4>1, DaemonPollStep
    <3> QED
      BY <2>1, <3>1, AcceptStep DEF DaemonLoop
  <2>2. CASE ClientLoop
    <3>1. ASSUME daemonConnected_,
                 NEW n \in 0 .. Len(toClient[daemonConnectionFd_]), NEW hup \in BOOLEAN,
                 NEW busy \in 0 .. MaxBusy + 1, ClientPoll(n, hup, busy)
          PROVE  IInv'
      <4>1. n \in Nat /\ busy \in Nat
        BY <3>1, LinkAssumption DEF IInv, TypeOK, FlagsMatchFds, LinkAssumption
      <4> QED
        BY <3>1, <4>1, ClientPollStep
    <3> QED
      BY <2>2, <3>1, ConnectStep DEF ClientLoop
  <2>3. CASE Tick
    BY <2>3, TickStep
  <2>4. CASE DaemonSend \/ DaemonExit \/ ClientSend \/ ClientExit \/ NetCut \/ NetHeal
    BY <2>4, OtherStep
  <2>5. CASE UNCHANGED vars
    BY <2>5 DEF vars, IInv, TypeOK, FlagsMatchFds, SilenceNoticed, PendingExplained,
                daemonVars, clientVars, tcpVars
  <2> QED
    BY <2>1, <2>2, <2>3, <2>4, <2>5 DEF Next
<1> QED
  BY <1>1, <1>2, PTL DEF Spec

\* Every variable of the link keeps its type.
THEOREM LinkTypeCorrect == Spec => []TypeOK
  BY LinkInductive, PTL DEF IInv

\* An idle client is asked for a sign of life unless pendingKeepalive_ was left
\* over, and neither end believes in a silent peer for longer than one second past
\* KEEPALIVE_MSG_TIMEOUT_SEC.
THEOREM LinkSilenceAnswered == Spec => []SilenceAnswered
<1>1. IInv => SilentPeerDropped
  BY LinkAssumption DEF IInv, TypeOK, SilenceNoticed, SilentPeerDropped, LinkAssumption, Late
<1>2. IInv => IdleClientAsked
  BY LinkAssumption DEF IInv, TypeOK, SilenceNoticed, PendingExplained, IdleClientAsked,
                        LinkAssumption
<1> QED
  BY <1>1, <1>2, LinkInductive, PTL DEF SilenceAnswered

-----------------------------------------------------------------------------
(* Sockets: what is open is what either end still knows.                   *)

\* A connection waits in the backlog at most once.
WaitsOnce ==
    \A i, j \in 1 .. Len(backlog) : backlog[i] = backlog[j] => i = j

\* The connections that wait to be accepted.
Waiting == {backlog[i] : i \in 1 .. Len(backlog)}

\* accept() takes one connection out of the backlog and no other.
LEMMA AcceptTakesOne ==
    ASSUME backlog \in Seq(Conn), backlog # << >>, WaitsOnce,
           backlog' = Tail(backlog)
    PROVE  /\ Waiting = Waiting' \cup {Head(backlog)}
           /\ Head(backlog) \notin Waiting'
           /\ WaitsOnce'
<1>1. Len(backlog) \in Nat \ {0} /\ Head(backlog) = backlog[1]
  OBVIOUS
<1>2. /\ Len(backlog') = Len(backlog) - 1
      /\ \A i \in 1 .. Len(backlog') : backlog'[i] = backlog[i + 1]
  OBVIOUS
<1>3. ASSUME NEW i \in 1 .. Len(backlog), i # 1
      PROVE  i - 1 \in 1 .. Len(backlog') /\ backlog'[i - 1] = backlog[i]
  BY <1>1, <1>2, <1>3
<1>4. Waiting \subseteq Waiting' \cup {Head(backlog)}
  <2> SUFFICES ASSUME NEW i \in 1 .. Len(backlog)
               PROVE  backlog[i] \in Waiting' \cup {Head(backlog)}
    BY DEF Waiting
  <2>1. CASE i = 1
    BY <2>1, <1>1
  <2>2. CASE i # 1
    BY <2>2, <1>3 DEF Waiting
  <2> QED
    BY <2>1, <2>2
<1>5. ASSUME NEW i \in 1 .. Len(backlog')
      PROVE  i + 1 \in 1 .. Len(backlog) /\ i + 1 # 1 /\ backlog'[i] = backlog[i + 1]
  BY <1>1, <1>2
<1>6. Waiting' \cup {Head(backlog)} \subseteq Waiting
  <2>1. Head(backlog) \in Waiting
    BY <1>1 DEF Waiting
  <2>2. ASSUME NEW i \in 1 .. Len(backlog') PROVE backlog'[i] \in Waiting
    BY <1>5 DEF Waiting
  <2> QED
    BY <2>1, <2>2 DEF Waiting
<1>7. Head(backlog) \notin Waiting'
  <2>1. ASSUME NEW i \in 1 .. Len(backlog') PROVE backlog'[i] # backlog[1]
    <3>1. 1 \in 1 .. Len(backlog)
      BY <1>1
    <3> QED
      BY <1>5, <3>1 DEF WaitsOnce
  <2> QED
    BY <1>1, <2>1 DEF Waiting
<1>8. WaitsOnce'
  <2> SUFFICES ASSUME NEW i \in 1 .. Len(backlog'), NEW j \in 1 .. Len(backlog'),
                      backlog'[i] = backlog'[j]
               PROVE  i = j
    BY DEF WaitsOnce
  <2>1. i + 1 = j + 1
    BY <1>5 DEF WaitsOnce
  <2> QED
    BY <2>1
<1> QED
  BY <1>4, <1>6, <1>7, <1>8

\* A connection that does not wait yet is added to the backlog by the kernel.
LEMMA ConnectAddsOne ==
    ASSUME backlog \in Seq(Conn), WaitsOnce, NEW c \in Conn, c \notin Waiting,
           backlog' = Append(backlog, c)
    PROVE  Waiting' = Waiting \cup {c} /\ WaitsOnce'
<1>1. /\ Len(backlog) \in Nat /\ Len(backlog') = Len(backlog) + 1
      /\ backlog'[Len(backlog) + 1] = c
      /\ \A i \in 1 .. Len(backlog) : backlog'[i] = backlog[i]
  OBVIOUS
<1>2. \A i \in 1 .. Len(backlog') : i \in 1 .. Len(backlog) \/ i = Len(backlog) + 1
  BY <1>1
<1>3. Waiting' \subseteq Waiting \cup {c}
  BY <1>1, <1>2 DEF Waiting
<1>4. Waiting \cup {c} \subseteq Waiting'
  <2>1. ASSUME NEW i \in 1 .. Len(backlog) PROVE backlog[i] \in Waiting'
    <3>1. i \in 1 .. Len(backlog') /\ backlog'[i] = backlog[i]
      BY <1>1
    <3> QED
      BY <3>1 DEF Waiting
  <2>2. c \in Waiting'
    <3>1. Len(backlog) + 1 \in 1 .. Len(backlog')
      BY <1>1
    <3> QED
      BY <3>1, <1>1 DEF Waiting
  <2> QED
    BY <2>1, <2>2 DEF Waiting
<1>5. WaitsOnce'
  <2>1. \A i \in 1 .. Len(backlog) : backlog[i] # c
    BY DEF Waiting
  <2> QED
    BY <1>1, <1>2, <2>1 DEF WaitsOnce
<1> QED
  BY <1>3, <1>4, <1>5

\* SocketsAccounted in terms of the connections that wait.
LEMMA AccountedBySet ==
    SocketsAccounted <=>
       /\ \A c \in Conn : "client" \in open[c] <=> c = daemonConnectionFd_
       /\ \A c \in Conn : "daemon" \in open[c] <=> c = clientConnectionFd_ \/ c \in Waiting
       /\ clientConnectionFd_ \notin Waiting
  BY DEF SocketsAccounted, Waiting

Accounted == SocketsAccounted /\ WaitsOnce

\* A pass of the daemon's loop and the end of its process close what they forget.
LEMMA DaemonKeepsAccounts ==
    ASSUME IInv, Accounted,
           AcceptClient \/ DaemonExit
             \/ \E n \in Nat, hup \in BOOLEAN : DaemonPoll(n, hup)
    PROVE  Accounted'
<1> USE DEF NoConn
<1>1. /\ open \in [Conn -> SUBSET End] /\ backlog \in Seq(Conn)
      /\ clientConnectionFd_ \in Conn \cup {NoConn}
      /\ 0 \notin Conn
  BY DEF IInv, TypeOK, Conn
<1>2. CASE AcceptClient
  <2>1. Head(backlog) \in Conn
    BY <1>1, <1>2 DEF AcceptClient
  <2>2. clientConnectionFd_ = NoConn
    BY <1>2 DEF AcceptClient, IInv, FlagsMatchFds
  <2>3. /\ Waiting = Waiting' \cup {Head(backlog)} /\ Head(backlog) \notin Waiting'
        /\ WaitsOnce'
    BY <1>1, <1>2, AcceptTakesOne DEF AcceptClient, Accounted
  <2>4. /\ clientConnectionFd_' = Head(backlog) /\ open' = open
        /\ daemonConnectionFd_' = daemonConnectionFd_
    BY <1>2 DEF AcceptClient, clientVars
  <2>5. \A c \in Conn : "client" \in open'[c] <=> c = daemonConnectionFd_'
    BY <2>4 DEF Accounted, SocketsAccounted
  <2>6. \A c \in Conn : "daemon" \in open'[c] <=> c = clientConnectionFd_' \/ c \in Waiting'
    BY <1>1, <2>2, <2>3, <2>4, AccountedBySet DEF Accounted
  <2>7. SocketsAccounted'
    BY <2>3, <2>4, <2>5, <2>6 DEF SocketsAccounted, Waiting
  <2> QED
    BY <2>3, <2>7 DEF Accounted
<1>3. CASE DaemonExit
  <2> DEFINE mine == {clientConnectionFd_} \cup Waiting
  <2>1. open' = [c \in Conn |-> IF c \in mine THEN open[c] \ {"daemon"} ELSE open[c]]
    BY <1>3 DEF DaemonExit, Closed, Waiting
  <2>2. /\ clientConnectionFd_' = 0 /\ backlog' = << >>
        /\ daemonConnectionFd_' = daemonConnectionFd_
    BY <1>3 DEF DaemonExit, clientVars
  <2>3. \A c \in Conn : "client" \in open'[c] <=> "client" \in open[c]
    BY <2>1
  <2>4. \A c \in Conn : "daemon" \notin open'[c]
    BY <2>1, AccountedBySet DEF Accounted
  <2> QED
    BY <1>1, <2>2, <2>3, <2>4 DEF Accounted, SocketsAccounted, WaitsOnce
<1>4. ASSUME NEW n \in Nat, NEW hup \in BOOLEAN, DaemonPoll(n, hup)
      PROVE  Accounted'
  <2> DEFINE c == clientConnectionFd_
  <2>1. c \in Conn
    BY <1>4 DEF IInv, TypeOK, FlagsMatchFds, DaemonPoll
  <2>2. backlog' = backlog /\ daemonConnectionFd_' = daemonConnectionFd_
    BY <1>4 DEF DaemonPoll, clientVars
  <2>3. \/ clientConnectionFd_' = c /\ open' = open
        \/ clientConnectionFd_' = 0 /\ open' = [open EXCEPT ![c] = @ \ {"daemon"}]
    <3>1. CASE clientConnected_'
      <4>1. clientConnectionFd_' = c /\ open' = [open EXCEPT ![c] = @]
        BY <1>4, <3>1 DEF DaemonPoll
      <4> QED
        BY <4>1, <1>1
    <3>2. CASE ~clientConnected_'
      BY <1>4, <3>2 DEF DaemonPoll, Closed
    <3> QED
      BY <3>1, <3>2
  <2>4. CASE clientConnectionFd_' = c /\ open' = open
    BY <2>2, <2>4 DEF Accounted, SocketsAccounted, WaitsOnce
  <2>5. CASE clientConnectionFd_' = 0 /\ open' = [open EXCEPT ![c] = @ \ {"daemon"}]
    <3>1. \A d \in Conn : "client" \in open'[d] <=> "client" \in open[d]
      BY <1>1, <2>5
    <3>2. \A d \in Conn : "daemon" \in open'[d] <=> d # c /\ "daemon" \in open[d]
      BY <1>1, <2>5
    <3>3. Waiting' = Waiting
      BY <2>2 DEF Waiting
    <3>4. 0 \notin Waiting
      BY <1>1 DEF Waiting
    <3>5. \A d \in Conn : "daemon" \in open'[d] <=> d \in Waiting'
      BY <3>2, <3>3, AccountedBySet, <2>1 DEF Accounted
    <3> QED
      BY <1>1, <2>2, <2>5, <3>1, <3>3, <3>4, <3>5
      DEF Accounted, SocketsAccounted, WaitsOnce, Waiting
  <2> QED
    BY <2>3, <2>4, <2>5
<1> QED
  BY <1>2, <1>3, <1>4

\* A pass of the client's loop closes the connection it drops, and connects only
\* where nothing is open; its exit closes the connection it has.
LEMMA ClientKeepsAccounts ==
    ASSUME IInv, Accounted,
           ConnectToDaemon \/ ClientExit
             \/ \E n \in Nat, hup \in BOOLEAN, busy \in Nat : ClientPoll(n, hup, busy)
    PROVE  Accounted'
<1> USE DEF NoConn
<1>1. /\ open \in [Conn -> SUBSET End] /\ backlog \in Seq(Conn)
      /\ daemonConnectionFd_ \in Conn \cup {NoConn}
      /\ 0 \notin Conn
  BY DEF IInv, TypeOK, Conn
<1>2. CASE ConnectToDaemon
  <2>1. PICK c \in Free : /\ daemonConnectionFd_' = c
                          /\ backlog' = Append(backlog, c)
                          /\ open' = [open EXCEPT ![c] = End]
    BY <1>2 DEF ConnectToDaemon
  <2>2. c \in Conn /\ open[c] = {}
    BY DEF Free
  <2>3. c \notin Waiting /\ c # clientConnectionFd_
    BY <2>2, AccountedBySet DEF Accounted
  <2>4. Waiting' = Waiting \cup {c} /\ WaitsOnce'
    BY <1>1, <2>1, <2>2, <2>3, ConnectAddsOne DEF Accounted
  <2>5. clientConnectionFd_' = clientConnectionFd_ /\ daemonConnectionFd_ = 0
    BY <1>2 DEF ConnectToDaemon, daemonVars, IInv, FlagsMatchFds
  <2>6. \A d \in Conn : open'[d] = IF d = c THEN End ELSE open[d]
    BY <1>1, <2>1
  <2>7. \A d \in Conn : "client" \in open'[d] <=> d = daemonConnectionFd_'
    BY <1>1, <2>1, <2>5, <2>6 DEF Accounted, SocketsAccounted, End
  <2>8. \A d \in Conn : "daemon" \in open'[d] <=> d = clientConnectionFd_' \/ d \in Waiting'
    BY <2>4, <2>5, <2>6, AccountedBySet DEF Accounted, End
  <2>9. clientConnectionFd_' \notin Waiting'
    BY <2>3, <2>4, <2>5, AccountedBySet DEF Accounted
  <2> QED
    BY <2>4, <2>7, <2>8, <2>9 DEF Accounted, SocketsAccounted, Waiting
<1>3. CASE ClientExit
  <2>1. open' = [d \in Conn |-> IF d = daemonConnectionFd_ THEN open[d] \ {"client"}
                                ELSE open[d]]
    BY <1>3 DEF ClientExit, Closed
  <2>2. /\ backlog' = backlog /\ clientConnectionFd_' = clientConnectionFd_
        /\ daemonConnectionFd_' = 0
    BY <1>3 DEF ClientExit, daemonVars
  <2>3. \A d \in Conn : "daemon" \in open'[d] <=> "daemon" \in open[d]
    BY <2>1
  <2>4. \A d \in Conn : "client" \notin open'[d]
    BY <2>1 DEF Accounted, SocketsAccounted
  <2> QED
    BY <1>1, <2>2, <2>3, <2>4 DEF Accounted, SocketsAccounted, WaitsOnce
<1>4. ASSUME NEW n \in Nat, NEW hup \in BOOLEAN, NEW busy \in Nat,
             ClientPoll(n, hup, busy)
      PROVE  Accounted'
  <2> DEFINE c == daemonConnectionFd_
  <2>1. c \in Conn
    BY <1>4 DEF IInv, TypeOK, FlagsMatchFds, ClientPoll, ClientDue
  <2>2. backlog' = backlog /\ clientConnectionFd_' = clientConnectionFd_
    BY <1>4 DEF ClientPoll, daemonVars
  <2>3. \/ daemonConnectionFd_' = c /\ open' = open
        \/ daemonConnectionFd_' = 0 /\ open' = [open EXCEPT ![c] = @ \ {"client"}]
    <3>1. CASE daemonConnected_'
      <4>1. daemonConnectionFd_' = c /\ open' = [open EXCEPT ![c] = @]
        BY <1>4, <3>1 DEF ClientPoll
      <4> QED
        BY <4>1, <1>1
    <3>2. CASE ~daemonConnected_'
      BY <1>4, <3>2 DEF ClientPoll, Closed
    <3> QED
      BY <3>1, <3>2
  <2>4. CASE daemonConnectionFd_' = c /\ open' = open
    BY <2>2, <2>4 DEF Accounted, SocketsAccounted, WaitsOnce
  <2>5. CASE daemonConnectionFd_' = 0 /\ open' = [open EXCEPT ![c] = @ \ {"client"}]
    <3>1. \A d \in Conn : "daemon" \in open'[d] <=> "daemon" \in open[d]
      BY <1>1, <2>5
    <3>2. \A d \in Conn : "client" \notin open'[d]
      BY <1>1, <2>1, <2>5 DEF Accounted, SocketsAccounted
    <3> QED
      BY <1>1, <2>2, <2>5, <3>1, <3>2 DEF Accounted, SocketsAccounted, WaitsOnce
  <2> QED
    BY <2>3, <2>4, <2>5
<1> QED
  BY <1>2, <1>3, <1>4

LEMMA LinkAccounted == Spec => []Accounted
<1>1. Init => Accounted
  <2> SUFFICES ASSUME Init PROVE Accounted
    OBVIOUS
  <2>1. 0 \notin Conn /\ Len(backlog) = 0
    BY DEF Init, Conn
  <2> QED
    BY <2>1 DEF Init, Accounted, SocketsAccounted, WaitsOnce, NoConn
<1>2. IInv /\ Accounted /\ [Next]_vars => Accounted'
  <2> SUFFICES ASSUME IInv, Accounted, [Next]_vars PROVE Accounted'
    OBVIOUS
  <2>1. CASE DaemonLoop
    <3>1. ASSUME NEW n \in 0 .. Len(toDaemon[clientConnectionFd_]), clientConnected_
          PROVE  n \in Nat
      BY <3>1 DEF IInv, TypeOK, FlagsMatchFds
    <3> QED
      BY <2>1, <3>1, DaemonKeepsAccounts DEF DaemonLoop
  <2>2. CASE ClientLoop
    <3>1. ASSUME NEW n \in 0 .. Len(toClient[daemonConnectionFd_]), daemonConnected_
          PROVE  n \in Nat
      BY <3>1 DEF IInv, TypeOK, FlagsMatchFds
    <3>2. 0 .. MaxBusy + 1 \subseteq Nat
      BY LinkAssumption DEF LinkAssumption
    <3>3. CASE ConnectFails
      BY <3>3 DEF ConnectFails, daemonVars, tcpVars, Accounted, SocketsAccounted, WaitsOnce
    <3> QED
      BY <2>2, <3>1, <3>2, <3>3, ClientKeepsAccounts DEF ClientLoop
  <2>3. CASE DaemonExit \/ ClientExit
    BY <2>3, DaemonKeepsAccounts, ClientKeepsAccounts
  <2>4. CASE DaemonSend \/ ClientSend \/ NetCut \/ NetHeal \/ Tick \/ UNCHANGED vars
    <3>1. UNCHANGED <<open, backlog, clientConnectionFd_, daemonConnectionFd_>>
      BY <2>4 DEF DaemonSend, ClientSend, NetCut, NetHeal, Tick, vars, daemonVars,
                  clientVars, tcpVars
    <3> QED
      BY <3>1 DEF Accounted, SocketsAccounted, WaitsOnce
  <2> QED
    BY <2>1, <2>2, <2>3, <2>4 DEF Next
<1> QED
  BY <1>1, <1>2, LinkInductive, PTL DEF Spec

\* No socket is forgotten while it is open, at either end, however a connection
\* is lost: what is open at the client is the connection it uses, what is open at
\* the daemon is the accepted connection or waits to be accepted, once.
THEOREM LinkSocketsAccounted == Spec => []SocketsAccounted
<1>1. Accounted => SocketsAccounted
  BY DEF Accounted
<1> QED
  BY <1>1, LinkAccounted, PTL

-----------------------------------------------------------------------------
(* A client that is there is asked, and its answer is read in time.        *)

\* The daemon's client has its end open.
ClientThere == clientConnected_ /\ "client" \in open[clientConnectionFd_]

\* Without an excuse the client's loop can read and answer.
Unhindered == ClientThere /\ excuse = {} => netUp /\ cBusy = 0

\* Then the request the daemon waits for an answer to, or an answer, is under way:
\* one of the loops is due, so no second passes before the daemon is answered.
AtClient == \E i \in 1 .. Len(toClient[clientConnectionFd_]) :
                toClient[clientConnectionFd_][i] = "ka"
UnderWay == dIdle <= Interval + 1 /\ (toDaemon[clientConnectionFd_] # << >> \/ AtClient)
KeepaliveUnderWay == ClientThere /\ excuse = {} /\ pendingKeepalive_ => UnderWay

Answering == Unhindered /\ KeepaliveUnderWay

\* What a writer adds leaves what is there where it is.
LEMMA AddedBehind ==
    ASSUME NEW q \in Seq(Msg), NEW m \in Msg
    PROVE  /\ Append(q, m) # << >> /\ Append(q, m)[Len(q) + 1] = m
           /\ Len(q) \in Nat /\ Len(Append(q, m)) = Len(q) + 1
           /\ \A i \in 1 .. Len(q) : Append(q, m)[i] = q[i]
  OBVIOUS

\* What is behind the n messages that were read is still there.
LEMMA StillThere ==
    ASSUME NEW q \in Seq(Msg), NEW n \in 0 .. Len(q), NEW i \in 1 .. Len(q), i > n
    PROVE  /\ i - n \in 1 .. Len(SubSeq(q, n + 1, Len(q)))
           /\ SubSeq(q, n + 1, Len(q))[i - n] = q[i]
<1>1. /\ n \in Nat /\ i \in Nat /\ Len(q) \in Nat /\ i <= Len(q) /\ n < i
  OBVIOUS
<1>2. Len(SubSeq(q, n + 1, Len(q))) = Len(q) - n
  BY <1>1
<1>3. \A j \in 1 .. Len(q) - n : SubSeq(q, n + 1, Len(q))[j] = q[n + j]
  BY <1>1
<1>4. i - n \in 1 .. Len(q) - n /\ n + (i - n) = i
  BY <1>1
<1> QED
  BY <1>2, <1>3, <1>4

\* A step that leaves the daemon's books alone, and of the connection it serves
\* takes nothing away, keeps what is under way.
LEMMA AnsweringStays ==
    ASSUME Answering, UNCHANGED <<clientConnected_, clientConnectionFd_, pendingKeepalive_, dIdle>>,
           ClientThere' /\ excuse' = {} => ClientThere /\ excuse = {} /\ netUp' /\ cBusy' = 0,
           ClientThere' => /\ toDaemon[clientConnectionFd_] # << >>
                              => toDaemon'[clientConnectionFd_] # << >>
                           /\ AtClient => AtClient'
    PROVE  Answering'
  BY DEF Answering, Unhindered, KeepaliveUnderWay, UnderWay

\* While an answer is due a loop is due, and no second passes.
LEMMA AnsweringTick ==
    ASSUME IInv, Accounted, Answering, Tick
    PROVE  Answering'
<1>1. /\ UNCHANGED <<clientConnected_, clientConnectionFd_, pendingKeepalive_, open, netUp, excuse,
                     toDaemon, toClient>>
      /\ cBusy' = IF cBusy > 0 THEN cBusy - 1 ELSE 0
  BY DEF Tick, tcpVars
<1>2. ~(ClientThere /\ excuse = {} /\ pendingKeepalive_)
  <2> SUFFICES ASSUME ClientThere, excuse = {}, pendingKeepalive_ PROVE FALSE
    OBVIOUS
  <2>1. netUp /\ cBusy = 0 /\ (toDaemon[clientConnectionFd_] # << >> \/ AtClient)
    BY DEF Answering, Unhindered, KeepaliveUnderWay, UnderWay
  <2>2. CASE toDaemon[clientConnectionFd_] # << >>
    BY <2>1, <2>2 DEF Tick, DaemonDue, Ready, ClientThere
  <2>3. CASE AtClient
    <3>1. clientConnectionFd_ \in Conn
      BY DEF IInv, TypeOK, FlagsMatchFds, ClientThere
    <3>2. daemonConnectionFd_ = clientConnectionFd_
      BY <3>1 DEF Accounted, SocketsAccounted, ClientThere
    <3>3. daemonConnected_
      BY <3>1, <3>2 DEF IInv, FlagsMatchFds, NoConn, Conn
    <3>4. toClient[clientConnectionFd_] # << >>
      <4>1. Len(toClient[clientConnectionFd_]) # 0
        BY <2>3 DEF AtClient
      <4> QED
        BY <4>1
    <3> QED
      BY <2>1, <3>2, <3>3, <3>4 DEF Tick, ClientDue, Ready
  <2> QED
    BY <2>1, <2>2, <2>3
<1>3. ClientThere' = ClientThere
  BY <1>1 DEF ClientThere
<1> QED
  BY <1>1, <1>2, <1>3 DEF Answering, Unhindered, KeepaliveUnderWay


\* A new connection starts without a request, or with an excuse.
LEMMA AnsweringAccept ==
    ASSUME IInv, AcceptClient
    PROVE  Answering'
<1>1. excuse' = {} => netUp /\ ~(cBusy > 0) /\ ~pendingKeepalive_
  BY DEF AcceptClient, ExcuseNow
<1>2. UNCHANGED <<netUp, cBusy, pendingKeepalive_>>
  BY DEF AcceptClient, clientVars, PendingAtAccept
<1>3. cBusy \in 0 .. MaxBusy
  BY DEF IInv, TypeOK
<1>4. ~(cBusy > 0) => cBusy = 0
  BY <1>3
<1> QED
  BY <1>1, <1>2, <1>4 DEF Answering, Unhindered, KeepaliveUnderWay

\* A pass of the daemon's loop: what it asks is under way, and what it reads is
\* the answer.
LEMMA AnsweringDaemonPoll ==
    ASSUME IInv, Answering, NEW n \in Nat, NEW hup \in BOOLEAN, DaemonPoll(n, hup)
    PROVE  Answering'
<1> DEFINE c == clientConnectionFd_
           ask == AskAfter(dIdle) /\ ~pendingKeepalive_
<1>1. c \in Conn /\ clientConnected_
  BY DEF IInv, TypeOK, FlagsMatchFds, DaemonPoll
<1>2. /\ toDaemon \in [Conn -> Seq(Msg)] /\ toClient \in [Conn -> Seq(Msg)]
      /\ open \in [Conn -> SUBSET End] /\ cBusy \in 0 .. MaxBusy
  BY DEF IInv, TypeOK
<1>3. SUFFICES ASSUME clientConnected_', excuse' = {}, "client" \in open'[clientConnectionFd_']
               PROVE  netUp' /\ cBusy' = 0 /\ (pendingKeepalive_' => UnderWay')
  BY DEF Answering, Unhindered, KeepaliveUnderWay, ClientThere
<1>4. /\ clientConnectionFd_' = c /\ netUp' = netUp /\ cBusy' = cBusy
      /\ open' = [open EXCEPT ![c] = @]
  BY <1>3 DEF DaemonPoll, clientVars
<1>5. "client" \in open[c]
  BY <1>1, <1>2, <1>3, <1>4
<1>6. CASE n > 0
  <2>1. excuse' = ExcuseNow
    BY <1>6 DEF DaemonPoll
  <2>2. netUp /\ ~(cBusy > 0)
    BY <2>1, <1>3 DEF ExcuseNow
  <2>3. cBusy = 0
    BY <1>2, <2>2
  <2>4. ~AskAfter(0)
    BY LinkAssumption DEF AskAfter, LinkAssumption
  <2>5. ~pendingKeepalive_'
    BY <1>6, <2>4 DEF DaemonPoll, PendingAfterRead
  <2> QED
    BY <1>4, <2>2, <2>3, <2>5
<1>7. CASE ~(n > 0)
  <2>1. n = 0
    BY <1>7
  <2>2. /\ excuse' = excuse /\ dIdle' = dIdle
        /\ pendingKeepalive_' = (pendingKeepalive_ \/ ask)
        /\ toClient' = [toClient EXCEPT ![c] =
                          IF ask THEN Written(@, c, "client", "ka") ELSE @]
    BY <1>3, <1>7 DEF DaemonPoll, PendingAfterRead
  <2>3. netUp /\ cBusy = 0
    BY <1>1, <1>3, <1>5, <2>2 DEF Answering, Unhindered, ClientThere
  <2>4. toDaemon[c] = << >>
    BY <2>1, <2>3 DEF DaemonPoll, Reads
  <2>5. CASE pendingKeepalive_
    <3>1. dIdle <= Interval + 1 /\ AtClient
      BY <1>1, <1>3, <1>5, <2>2, <2>4, <2>5
      DEF Answering, KeepaliveUnderWay, UnderWay, ClientThere
    <3>2. toClient'[c] = toClient[c]
      BY <1>1, <1>2, <2>2, <2>5
    <3> QED
      BY <1>4, <2>2, <2>3, <3>1, <3>2 DEF UnderWay, AtClient
  <2>6. CASE ask
    <3>1. dIdle <= Interval + 1
      BY <1>1, <2>6, LinkAssumption
      DEF IInv, TypeOK, SilenceNoticed, AskAfter, LinkAssumption, Late
    <3>2. toClient'[c] = Append(toClient[c], "ka")
      BY <1>1, <1>2, <1>5, <2>2, <2>6 DEF Written
    <3>3. toClient[c] \in Seq(Msg) /\ "ka" \in Msg
      BY <1>1, <1>2 DEF Msg
    <3>4. /\ Len(toClient'[c]) = Len(toClient[c]) + 1 /\ Len(toClient[c]) \in Nat
          /\ toClient'[c][Len(toClient[c]) + 1] = "ka"
      BY <3>2, <3>3, AddedBehind
    <3>5. AtClient'
      <4>1. Len(toClient[c]) + 1 \in 1 .. Len(toClient'[c])
        BY <3>4
      <4> QED
        BY <1>4, <3>4, <4>1 DEF AtClient
    <3> QED
      BY <1>4, <2>2, <2>3, <3>1, <3>5 DEF UnderWay
  <2>7. CASE ~pendingKeepalive_ /\ ~ask
    BY <1>4, <2>2, <2>3, <2>7
  <2> QED
    BY <2>5, <2>6, <2>7
<1> QED
  BY <1>6, <1>7

\* A pass of the client's loop: it answers the request it reads, and what it does
\* not read stays.
LEMMA AnsweringClientPoll ==
    ASSUME IInv, Accounted, Answering, NEW n \in Nat, NEW hup \in BOOLEAN, NEW busy \in Nat,
           n <= Len(toClient[daemonConnectionFd_]), ClientPoll(n, hup, busy)
    PROVE  Answering'
<1> DEFINE c == daemonConnectionFd_
           d == clientConnectionFd_
           q == toClient[c]
           rest == SubSeq(q, n + 1, Len(q))
<1>1. c \in Conn /\ daemonConnected_
  BY DEF IInv, TypeOK, FlagsMatchFds, ClientPoll, ClientDue
<1>2. /\ toDaemon \in [Conn -> Seq(Msg)] /\ toClient \in [Conn -> Seq(Msg)]
      /\ open \in [Conn -> SUBSET End] /\ q \in Seq(Msg) /\ toDaemon[c] \in Seq(Msg)
  BY <1>1 DEF IInv, TypeOK
<1>3. /\ UNCHANGED <<clientConnected_, clientConnectionFd_, pendingKeepalive_, dIdle, netUp>>
      /\ \A e \in Conn : "client" \in open'[e] => "client" \in open[e]
  BY <1>1, <1>2 DEF ClientPoll, daemonVars, Closed
<1>4. SUFFICES ASSUME ClientThere', excuse' = {}
               PROVE  netUp' /\ cBusy' = 0 /\ (pendingKeepalive_' => UnderWay')
  BY DEF Answering, Unhindered, KeepaliveUnderWay
<1>5. d \in Conn /\ clientConnected_ /\ "client" \in open[d] /\ "client" \in open'[d]
  BY <1>3, <1>4 DEF IInv, TypeOK, FlagsMatchFds, ClientThere
<1>6. c = d
  BY <1>5 DEF Accounted, SocketsAccounted
<1>7. /\ excuse = {} /\ ~(busy > 0)
      /\ ~ \E i \in 2 .. n : q[i] = "ka"
  BY <1>4, <1>6 DEF ClientPoll
<1>8. ClientThere /\ netUp /\ cBusy' = 0
  BY <1>3, <1>5, <1>7 DEF Answering, Unhindered, ClientThere, ClientPoll
<1>9. daemonConnected_'
  BY <1>1, <1>2, <1>5, <1>6 DEF ClientPoll, Closed
<1>10. /\ toClient'[c] = rest
       /\ toDaemon'[c] = IF "ka" \in Dispatched(q, n) THEN Written(toDaemon[c], c, "daemon", "ka")
                                                      ELSE toDaemon[c]
  BY <1>1, <1>2, <1>9 DEF ClientPoll
<1>11. toDaemon[c] # << >> => toDaemon'[c] # << >>
  <2>1. Append(toDaemon[c], "ka") # << >>
    BY <1>2, AddedBehind DEF Msg
  <2> QED
    BY <1>10, <2>1 DEF Written
<1>12. ASSUME AtClient PROVE toDaemon'[c] # << >> \/ AtClient'
  <2>1. PICK i \in 1 .. Len(q) : q[i] = "ka"
    BY <1>6, <1>12 DEF AtClient
  <2>2. CASE i <= n
    <3>1. i = 1 /\ n > 0
      BY <1>7, <2>1, <2>2
    <3>2. "ka" \in Dispatched(q, n)
      BY <2>1, <3>1 DEF Dispatched
    <3>3. "daemon" \in open[c]
      BY <1>5, <1>6 DEF Accounted, SocketsAccounted
    <3>4. toDaemon'[c] = Append(toDaemon[c], "ka")
      BY <1>10, <3>2, <3>3 DEF Written
    <3> QED
      BY <1>2, <3>4, AddedBehind DEF Msg
  <2>3. CASE ~(i <= n)
    <3>1. n \in 0 .. Len(q) /\ i > n
      BY <1>2, <2>3
    <3>2. i - n \in 1 .. Len(rest) /\ rest[i - n] = "ka"
      BY <1>2, <2>1, <3>1, StillThere
    <3> QED
      BY <1>3, <1>6, <1>10, <3>2 DEF AtClient
  <2> QED
    BY <2>2, <2>3
<1>13. pendingKeepalive_ => UnderWay
  BY <1>7, <1>8 DEF Answering, KeepaliveUnderWay
<1> QED
  BY <1>3, <1>6, <1>8, <1>11, <1>12, <1>13 DEF UnderWay

\* The other steps take nothing away from a connection the client keeps open.
LEMMA AnsweringOther ==
    ASSUME IInv, Accounted, Answering,
           \/ ConnectToDaemon \/ ConnectFails \/ DaemonSend \/ ClientSend \/ DaemonExit
           \/ ClientExit \/ NetCut \/ NetHeal \/ UNCHANGED vars
    PROVE  Answering'
<1> DEFINE d == clientConnectionFd_
<1>1. /\ toDaemon \in [Conn -> Seq(Msg)] /\ toClient \in [Conn -> Seq(Msg)]
      /\ open \in [Conn -> SUBSET End] /\ (clientConnected_ => d \in Conn)
      /\ (daemonConnected_ => daemonConnectionFd_ \in Conn)
  BY DEF IInv, TypeOK, FlagsMatchFds
<1>2. "ka" \in Msg /\ "card" \in Msg
  BY DEF Msg
<1>3. ClientThere /\ excuse = {} => netUp /\ cBusy = 0
  BY DEF Answering, Unhindered
<1>4. CASE ConnectToDaemon
  <2>1. /\ UNCHANGED <<clientConnected_, clientConnectionFd_, pendingKeepalive_, dIdle, netUp, cBusy,
                       excuse, toDaemon, toClient>>
    BY <1>4 DEF ConnectToDaemon, daemonVars
  <2>2. PICK e \in Free : open' = [open EXCEPT ![e] = End]
    BY <1>4 DEF ConnectToDaemon
  <2>3. clientConnected_ => "daemon" \in open[d]
    BY <1>1 DEF Accounted, SocketsAccounted
  <2>4. clientConnected_ => e # d
    BY <2>2, <2>3 DEF Free
  <2>5. ClientThere' => ClientThere
    BY <1>1, <2>1, <2>2, <2>4 DEF ClientThere, Free
  <2> QED
    BY <1>3, <2>1, <2>5, AnsweringStays DEF AtClient
<1>5. CASE ConnectFails \/ UNCHANGED vars
  <2>1. /\ UNCHANGED <<clientConnected_, clientConnectionFd_, pendingKeepalive_, dIdle, netUp, cBusy,
                       excuse, toDaemon, toClient, open>>
    BY <1>5 DEF ConnectFails, vars, daemonVars, clientVars, tcpVars
  <2> QED
    BY <1>3, <2>1, AnsweringStays DEF AtClient, ClientThere
<1>6. CASE DaemonSend
  <2>1. /\ UNCHANGED <<clientConnected_, clientConnectionFd_, pendingKeepalive_, dIdle, netUp, cBusy,
                       excuse, toDaemon, open>>
        /\ toClient' = [toClient EXCEPT ![d] = Written(@, d, "client", "card")]
        /\ d \in Conn
    BY <1>1, <1>6 DEF DaemonSend, daemonVars, clientVars
  <2>2. toClient'[d] = toClient[d] \/ toClient'[d] = Append(toClient[d], "card")
    BY <1>1, <2>1 DEF Written
  <2>3. toClient[d] \in Seq(Msg)
    BY <1>1, <2>1
  <2>4. AtClient => AtClient'
    <3>1. CASE toClient'[d] = toClient[d]
      BY <2>1, <3>1 DEF AtClient
    <3>2. CASE toClient'[d] = Append(toClient[d], "card")
      <4>1. /\ Len(toClient[d]) \in Nat /\ Len(toClient'[d]) = Len(toClient[d]) + 1
            /\ \A i \in 1 .. Len(toClient[d]) : toClient'[d][i] = toClient[d][i]
        BY <1>2, <2>3, <3>2, AddedBehind
      <4>2. \A i \in 1 .. Len(toClient[d]) : i \in 1 .. Len(toClient'[d])
        BY <4>1
      <4> QED
        BY <2>1, <4>1, <4>2 DEF AtClient
    <3> QED
      BY <2>2, <3>1, <3>2
  <2> QED
    BY <1>3, <2>1, <2>4, AnsweringStays DEF ClientThere
<1>7. CASE ClientSend
  <2> DEFINE c == daemonConnectionFd_
  <2>1. /\ UNCHANGED <<clientConnected_, clientConnectionFd_, pendingKeepalive_, dIdle, netUp, cBusy,
                       excuse, toClient, open>>
        /\ toDaemon' = [toDaemon EXCEPT ![c] = Written(@, c, "daemon", "card")]
        /\ c \in Conn
    BY <1>1, <1>7 DEF ClientSend, daemonVars, clientVars
  <2>2. toDaemon[c] \in Seq(Msg)
    BY <1>1, <2>1
  <2>3. Append(toDaemon[c], "card") # << >>
    BY <1>2, <2>2, AddedBehind
  <2>4. ClientThere' => (toDaemon[d] # << >> => toDaemon'[d] # << >>)
    BY <1>1, <2>1, <2>3 DEF Written, ClientThere
  <2> QED
    BY <1>3, <2>1, <2>4, AnsweringStays DEF ClientThere, AtClient
<1>8. CASE DaemonExit
  BY <1>8 DEF DaemonExit, Answering, Unhindered, KeepaliveUnderWay, ClientThere
<1>9. CASE ClientExit
  <2> DEFINE c == daemonConnectionFd_
  <2>1. /\ UNCHANGED <<clientConnected_, clientConnectionFd_, pendingKeepalive_, dIdle, netUp,
                       excuse, toDaemon>>
        /\ cBusy' = 0
        /\ open' = [e \in Conn |-> IF e = c THEN Closed(e, "client") ELSE open[e]]
        /\ toClient' = [e \in Conn |-> IF e = c THEN << >> ELSE toClient[e]]
    BY <1>9 DEF ClientExit, daemonVars
  <2>2. ClientThere' => ClientThere /\ d # c
    BY <1>1, <2>1 DEF ClientThere, Closed
  <2>3. ClientThere' => toClient'[d] = toClient[d]
    BY <1>1, <2>1, <2>2 DEF ClientThere
  <2> QED
    BY <1>3, <2>1, <2>2, <2>3, AnsweringStays DEF AtClient
<1>10. CASE NetCut \/ NetHeal
  <2>1. UNCHANGED <<clientConnected_, clientConnectionFd_, pendingKeepalive_, dIdle, cBusy,
                    toDaemon, toClient, open>>
    BY <1>10 DEF NetCut, NetHeal, daemonVars, clientVars, tcpVars
  <2>2. ClientThere' => ClientThere
    BY <2>1 DEF ClientThere
  <2>3. ClientThere' /\ excuse' = {} => excuse = {} /\ netUp'
    BY <1>3, <1>10, <2>2 DEF NetCut, NetHeal, ClientThere
  <2> QED
    BY <1>3, <2>1, <2>2, <2>3, AnsweringStays DEF AtClient
<1> QED
  BY <1>4, <1>5, <1>6, <1>7, <1>8, <1>9, <1>10

\* A client that is there can answer, and what it is asked or answers is under way.
LEMMA LinkAnswering == Spec => []Answering
<1>1. Init => Answering
  BY DEF Init, Answering, Unhindered, KeepaliveUnderWay, ClientThere
<1>2. IInv /\ Accounted /\ Answering /\ [Next]_vars => Answering'
  <2> SUFFICES ASSUME IInv, Accounted, Answering, [Next]_vars PROVE Answering'
    OBVIOUS
  <2>1. CASE DaemonLoop
    <3>1. ASSUME NEW n \in 0 .. Len(toDaemon[clientConnectionFd_]), clientConnected_
          PROVE  n \in Nat
      BY <3>1 DEF IInv, TypeOK, FlagsMatchFds
    <3> QED
      BY <2>1, <3>1, AnsweringAccept, AnsweringDaemonPoll DEF DaemonLoop
  <2>2. CASE ClientLoop
    <3>1. ASSUME daemonConnected_,
                 NEW n \in 0 .. Len(toClient[daemonConnectionFd_]), NEW hup \in BOOLEAN,
                 NEW busy \in 0 .. MaxBusy + 1, ClientPoll(n, hup, busy)
          PROVE  Answering'
      <4>1. /\ n \in Nat /\ n <= Len(toClient[daemonConnectionFd_]) /\ busy \in Nat
        BY <3>1, LinkAssumption DEF IInv, TypeOK, FlagsMatchFds, LinkAssumption
      <4> QED
        BY <3>1, <4>1, AnsweringClientPoll
    <3> QED
      BY <2>2, <3>1, AnsweringOther DEF ClientLoop
  <2>3. CASE Tick
    BY <2>3, AnsweringTick
  <2>4. CASE ~(DaemonLoop \/ ClientLoop \/ Tick)
    BY <2>4, AnsweringOther DEF Next
  <2> QED
    BY <2>1, <2>2, <2>3, <2>4
<1> QED
  BY <1>1, <1>2, LinkInductive, LinkAccounted, PTL DEF Spec

\* The daemon's loop never drops a client that has its end open, unless the network
\* was cut, the client's loop was blocked, the keepalive request was coalesced behind
\* another message or pendingKeepalive_ was left over from an earlier connection.
THEOREM LinkReachableClientKept == Spec => ReachableClientKept
<1> DEFINE Drop == clientConnected_ /\ ~clientConnected_' /\ dRan' /\ excuse = {}
                     => "client" \notin open[clientConnectionFd_]
<1>1. IInv /\ Answering /\ [Next]_vars => [Drop]_vars
  <2> SUFFICES ASSUME IInv, Answering, [Next]_vars, clientConnected_, ~clientConnected_', dRan',
                      excuse = {}, "client" \in open[clientConnectionFd_]
               PROVE  FALSE
    OBVIOUS
  <2> DEFINE c == clientConnectionFd_
  <2>1. PICK n \in 0 .. Len(toDaemon[c]), hup \in BOOLEAN : DaemonPoll(n, hup)
    <3>1. ~ClientLoop
      <4>1. ASSUME NEW n, NEW hup, NEW busy, ClientPoll(n, hup, busy) PROVE FALSE
        <5>1. UNCHANGED daemonVars
          BY <4>1 DEF ClientPoll
        <5> QED
          BY <5>1 DEF daemonVars
      <4> QED
        BY <4>1 DEF ClientLoop, ConnectToDaemon, ConnectFails, daemonVars
    <3>2. ~(AcceptClient \/ DaemonSend \/ DaemonExit)
      BY DEF AcceptClient, DaemonSend, DaemonExit, daemonVars
    <3>3. ~(ClientSend \/ ClientExit \/ NetCut \/ NetHeal \/ Tick \/ UNCHANGED vars)
      BY DEF ClientSend, ClientExit, NetCut, NetHeal, Tick, vars, daemonVars
    <3> QED
      BY <3>1, <3>2, <3>3 DEF Next, DaemonLoop
  <2>2. ~PeerGone(c, "client")
    BY DEF PeerGone
  <2>3. /\ ~(n > 0) /\ AskAfter(dIdle) /\ pendingKeepalive_ /\ GiveUpAfter(dIdle)
    <3>1. ~AskAfter(0)
      BY LinkAssumption DEF AskAfter, LinkAssumption
    <3> QED
      BY <2>1, <2>2, <3>1 DEF DaemonPoll, PendingAfterRead
  <2>4. dIdle <= Interval + 1
    BY <2>3 DEF Answering, KeepaliveUnderWay, UnderWay, ClientThere
  <2>5. dIdle \in Int
    BY DEF IInv, TypeOK
  <2> QED
    BY <2>3, <2>4, <2>5, LinkAssumption DEF GiveUpAfter, LinkAssumption
<1> QED
  BY <1>1, LinkInductive, LinkAnswering, PTL DEF Spec, ReachableClientKept

-----------------------------------------------------------------------------
(* What one read() returned is parsed back into what was framed.           *)

\* A byte is what is left of a number, and the number when it fits.
LEMMA ByteOf ==
    ASSUME NEW n \in Nat
    PROVE  /\ Uint8(n) \in Nat /\ Uint8(n) <= n /\ Uint8(n) < Byte
           /\ n < Byte => Uint8(n) = n
  BY CodecAssumption DEF CodecAssumption, Uint8

LEMMA DataIsBytes ==
    ASSUME NEW data \in Data
    PROVE  data \in Seq(Int) /\ Len(data) \in Nat
<1>1. PICK n \in 0 .. MaxData : data \in [1 .. n -> {0, 1}]
  BY DEF Data, Bytes
<1>2. n \in Nat
  BY CodecAssumption DEF CodecAssumption
<1>3. data \in Seq({0, 1})
  BY <1>1, <1>2
<1> QED
  BY <1>3

LEMMA Joined ==
    ASSUME NEW s \in Seq(Int), NEW t \in Seq(Int)
    PROVE  /\ s \o t \in Seq(Int) /\ Len(s \o t) = Len(s) + Len(t)
           /\ \A i \in 1 .. Len(s) + Len(t) :
                (s \o t)[i] = IF i <= Len(s) THEN s[i] ELSE t[i - Len(s)]
  BY ConcatProperties

\* What one read() returned of a frame: its first bytes, its data, and what was
\* coalesced behind it.
Framed(head, data, tail) == (head \o data) \o tail

\* A frame's bytes, and what was read with them, are where the parsers look.
LEMMA FramedBytes ==
    ASSUME NEW head \in Seq(Int), NEW data \in Seq(Int), NEW tail \in Seq(Int)
    PROVE  /\ Framed(head, data, tail) \in Seq(Int)
           /\ Len(Framed(head, data, tail)) = Len(head) + Len(data) + Len(tail)
           /\ \A i \in 1 .. Len(head) : Framed(head, data, tail)[i] = head[i]
           /\ \A i \in 1 .. Len(data) : Framed(head, data, tail)[Len(head) + i] = data[i]
           /\ \A i \in 1 .. Len(tail) :
                 Framed(head, data, tail)[Len(head) + Len(data) + i] = tail[i]
<1> DEFINE frame == head \o data
<1>1. /\ frame \in Seq(Int) /\ Len(frame) = Len(head) + Len(data)
      /\ \A i \in 1 .. Len(head) + Len(data) :
            frame[i] = IF i <= Len(head) THEN head[i] ELSE data[i - Len(head)]
  BY Joined
<1>2. /\ Len(head) \in Nat /\ Len(data) \in Nat /\ Len(tail) \in Nat /\ Len(frame) \in Nat
  BY <1>1
<1> HIDE DEF frame
<1>3. /\ frame \o tail \in Seq(Int) /\ Len(frame \o tail) = Len(frame) + Len(tail)
      /\ \A i \in 1 .. Len(frame) + Len(tail) :
            (frame \o tail)[i] = IF i <= Len(frame) THEN frame[i] ELSE tail[i - Len(frame)]
  BY <1>1, Joined
<1>4. \A i \in 1 .. Len(head) : (frame \o tail)[i] = head[i]
  BY <1>1, <1>2, <1>3
<1>5. \A i \in 1 .. Len(data) : (frame \o tail)[Len(head) + i] = data[i]
  <2> SUFFICES ASSUME NEW i \in 1 .. Len(data)
               PROVE  (frame \o tail)[Len(head) + i] = data[i]
    OBVIOUS
  <2>1. /\ Len(head) + i \in 1 .. Len(head) + Len(data) /\ ~(Len(head) + i <= Len(head))
        /\ (Len(head) + i) - Len(head) = i
    BY <1>2
  <2>2. frame[Len(head) + i] = data[i]
    BY <1>1, <2>1
  <2> QED
    BY <1>1, <1>2, <1>3, <2>1, <2>2
<1>6. \A i \in 1 .. Len(tail) : (frame \o tail)[Len(head) + Len(data) + i] = tail[i]
  <2> SUFFICES ASSUME NEW i \in 1 .. Len(tail)
               PROVE  (frame \o tail)[Len(head) + Len(data) + i] = tail[i]
    OBVIOUS
  <2>1. /\ Len(frame) + i \in 1 .. Len(frame) + Len(tail) /\ ~(Len(frame) + i <= Len(frame))
        /\ (Len(frame) + i) - Len(frame) = i
    BY <1>2
  <2> QED
    BY <1>1, <1>2, <1>3, <2>1
<1> QED
  BY <1>1, <1>3, <1>4, <1>5, <1>6 DEF frame, Framed

\* The part of a sequence that holds another one is that one.
LEMMA PartIs ==
    ASSUME NEW buf \in Seq(Int), NEW data \in Seq(Int), NEW k \in Nat,
           \A i \in 1 .. Len(data) : buf[k + i] = data[i]
    PROVE  SubSeq(buf, k + 1, k + Len(data)) = data
<1> DEFINE part == SubSeq(buf, k + 1, k + Len(data))
<1>1. Len(data) \in Nat
  OBVIOUS
<1>2. \A i \in k + 1 .. k + Len(data) : buf[i] \in Int
  <2> SUFFICES ASSUME NEW i \in k + 1 .. k + Len(data) PROVE buf[i] \in Int
    OBVIOUS
  <2>1. i - k \in 1 .. Len(data) /\ k + (i - k) = i
    BY <1>1
  <2>2. buf[k + (i - k)] = data[i - k] /\ data[i - k] \in Int
    BY <2>1
  <2> QED
    BY <2>1, <2>2
<1>3. /\ part \in Seq(Int)
      /\ Len(part) = IF k + 1 <= k + Len(data) THEN (k + Len(data)) - (k + 1) + 1 ELSE 0
      /\ \A i \in 1 .. (k + Len(data)) - (k + 1) + 1 : part[i] = buf[(k + 1) + i - 1]
  BY <1>1, <1>2, SubSeqProperties
<1>4. Len(part) = Len(data)
  BY <1>1, <1>3
<1>5. \A i \in 1 .. Len(data) : part[i] = data[i]
  <2> SUFFICES ASSUME NEW i \in 1 .. Len(data) PROVE part[i] = data[i]
    OBVIOUS
  <2>1. i \in 1 .. (k + Len(data)) - (k + 1) + 1 /\ (k + 1) + i - 1 = k + i
    BY <1>1
  <2> QED
    BY <1>3, <2>1
<1> HIDE DEF part
<1>6. part = data
  BY <1>3, <1>4, <1>5, SeqEqual
<1> QED
  BY <1>6 DEF part

\* An answer or an AtR is told from a message the parser drops.
LEMMA ParsedIsNotDropped ==
    /\ \A id, data : [id |-> id, data |-> data] # Dropped
    /\ \A type, data : [type |-> type, data |-> data] # Dropped
<1>1. DOMAIN Dropped = {"dropped"}
  BY DEF Dropped
<1>2. \A id, data : DOMAIN [id |-> id, data |-> data] = {"id", "data"}
  OBVIOUS
<1>3. \A type, data : DOMAIN [type |-> type, data |-> data] = {"type", "data"}
  OBVIOUS
<1>4. \A id, data : "id" \in DOMAIN [id |-> id, data |-> data]
  BY <1>2
<1>5. \A type, data : "type" \in DOMAIN [type |-> type, data |-> data]
  BY <1>3
<1> QED
  BY <1>1, <1>4, <1>5

\* Data whose length is the byte before them: what the parser takes is what was
\* framed, and it takes nothing only if there is more in the message or the length
\* does not fit the byte.
LEMMA LengthByteGuards ==
    ASSUME NEW head \in Seq(Int), NEW k \in Nat \ {0}, Len(head) = k,
           NEW data \in Data, head[k] = Uint8(Len(data)),
           NEW tail \in Seq(Int)
    PROVE  LET buf == Framed(head, data, tail) IN
           /\ Len(buf) \in Nat /\ Len(buf) >= k
           /\ LengthAgrees(buf, k) => SubSeq(buf, k + 1, k + buf[k]) = data
           /\ ~LengthAgrees(buf, k) => tail # << >> \/ Len(data) >= Byte
<1> DEFINE buf == Framed(head, data, tail)
<1>1. data \in Seq(Int) /\ Len(data) \in Nat /\ Len(tail) \in Nat
  BY DataIsBytes
<1>2. /\ buf \in Seq(Int) /\ Len(buf) = k + Len(data) + Len(tail) /\ buf[k] = Uint8(Len(data))
      /\ \A i \in 1 .. Len(data) : buf[k + i] = data[i]
  <2>1. buf \in Seq(Int)
    BY <1>1, FramedBytes
  <2>4. Len(buf) = Len(head) + Len(data) + Len(tail)
    BY <1>1, FramedBytes
  <2>2. \A i \in 1 .. Len(head) : buf[i] = head[i]
    <3>1. \A h, d, t \in Seq(Int) : \A i \in 1 .. Len(h) : Framed(h, d, t)[i] = h[i]
      BY FramedBytes
    <3> QED
      BY <1>1, <3>1, Zenon
  <2>3. \A i \in 1 .. Len(data) : buf[Len(head) + i] = data[i]
    BY <1>1, FramedBytes
  <2> HIDE DEF buf
  <2> QED
    BY <2>1, <2>2, <2>3, <2>4
<1> HIDE DEF buf
<1>3. /\ Uint8(Len(data)) \in Nat /\ Uint8(Len(data)) <= Len(data)
      /\ Len(data) < Byte => Uint8(Len(data)) = Len(data)
  BY <1>1, ByteOf
<1>4. ASSUME LengthAgrees(buf, k) PROVE SubSeq(buf, k + 1, k + buf[k]) = data
  <2>1. buf[k] = Len(data)
    <3>1. buf[k] = Len(buf) - k /\ buf[k] = Uint8(Len(data))
      BY <1>2, <1>4 DEF LengthAgrees
    <3>2. Uint8(Len(data)) = Len(data) + Len(tail)
      BY <1>1, <1>2, <3>1
    <3> QED
      BY <1>1, <1>3, <3>1, <3>2
  <2> QED
    BY <1>1, <1>2, <2>1, PartIs
<1>5. ASSUME ~LengthAgrees(buf, k), tail = << >> PROVE Len(data) >= Byte
  <2>1. Len(tail) = 0
    BY <1>5
  <2>2. ~(Len(data) < Byte)
    BY <1>1, <1>2, <1>3, <1>5, <2>1 DEF LengthAgrees
  <2> QED
    BY <1>1, <2>2, CodecAssumption DEF CodecAssumption
<1>6. Len(buf) \in Nat /\ Len(buf) >= k
  BY <1>1, <1>2
<1> QED
  BY <1>4, <1>5, <1>6 DEF buf

\* Of a command, whichever of its parts are there, the parser finds each.
LEMMA CommandParsed ==
    ASSUME NEW id \in Nat, id < Byte, NEW cmd \in Command
    PROVE  /\ ApduRequest(id, CommandBytes(cmd)) \in Seq(Int)
           /\ ApduRequest(id, CommandBytes(cmd))[1] = APDU_TRANSFER_MSG
           /\ SendApduToSim(ApduRequest(id, CommandBytes(cmd))) = Wanted([id |-> id, cmd |-> cmd])
<1> DEFINE h == cmd.header
           data == cmd.data
           n == Len(data)
           le == cmd.le
           front == <<APDU_TRANSFER_MSG, Uint8(id)>>
           body == IF data = << >> THEN << >> ELSE <<n>> \o data
           last == IF le = -1 THEN << >> ELSE <<le>>
           apdu == Framed(HeaderBytes(h), body, last)
           buf == front \o apdu
<1>1. /\ h = 1 /\ data \in Data /\ n < Byte /\ le \in -1 .. 2
  BY DEF Command
<1>2. data \in Seq(Int) /\ n \in Nat /\ Uint8(id) = id
  BY <1>1, DataIsBytes, ByteOf
<1>3. data = << >> <=> n = 0
  BY <1>2
<1>4. ApduRequest(id, CommandBytes(cmd)) = buf
  BY DEF ApduRequest, CommandBytes, Framed
<1>5. Wanted([id |-> id, cmd |-> cmd]) = [id |-> id, header |-> h, lc |-> n, data |-> data,
                                          le |-> IF le = -1 THEN 0 ELSE le]
  BY DEF Wanted
<1>6. /\ front \in Seq(Int) /\ Len(front) = 2 /\ front[2] = id /\ front[1] = APDU_TRANSFER_MSG
  BY <1>2 DEF APDU_TRANSFER_MSG
<1>7. /\ HeaderBytes(h) \in Seq(Int) /\ Len(HeaderBytes(h)) = 4 /\ HeaderBytes(h)[1] = h
  BY <1>1 DEF HeaderBytes
<1>8. /\ last \in Seq(Int) /\ Len(last) = (IF le = -1 THEN 0 ELSE 1)
      /\ le # -1 => last[1] = le
  BY <1>1
<1>9. /\ body \in Seq(Int) /\ Len(body) = (IF n = 0 THEN 0 ELSE 1 + n)
      /\ n # 0 => body[1] = n /\ \A i \in 1 .. n : body[1 + i] = data[i]
  <2>1. CASE n = 0
    <3>1. body = << >>
      BY <1>3, <2>1
    <3> HIDE DEF body
    <3> QED
      BY <2>1, <3>1
  <2>2. CASE n # 0
    <3> DEFINE count == <<n>>
    <3>1. body = count \o data
      BY <1>3, <2>2
    <3>2. count \in Seq(Int) /\ Len(count) = 1 /\ count[1] = n
      BY <1>2
    <3> HIDE DEF count, body, data
    <3>3. /\ body \in Seq(Int) /\ Len(body) = Len(count) + n
          /\ \A i \in 1 .. Len(count) + n : body[i] = IF i <= Len(count) THEN count[i]
                                                     ELSE data[i - Len(count)]
      <4>1. /\ count \o data \in Seq(Int) /\ Len(count \o data) = Len(count) + Len(data)
            /\ \A i \in 1 .. Len(count) + Len(data) :
                 (count \o data)[i] = IF i <= Len(count) THEN count[i] ELSE data[i - Len(count)]
        BY <1>2, <3>2, Joined
      <4> QED
        BY <3>1, <4>1
    <3> HIDE DEF n
    <3>4. \A i \in 1 .. n : 1 + i \in 1 .. 1 + n /\ ~(1 + i <= 1) /\ (1 + i) - 1 = i
      BY <1>2
    <3>5. \A i \in 1 .. n : body[1 + i] = data[i]
      BY <3>2, <3>3, <3>4
    <3>6. body[1] = n
      BY <1>2, <3>2, <3>3
    <3>7. Len(body) = 1 + n
      BY <3>2, <3>3
    <3> QED
      BY <2>2, <3>3, <3>5, <3>6, <3>7
  <2> QED
    BY <2>1, <2>2
<1> HIDE DEF h, data, le, front, body, last
<1>10. /\ apdu \in Seq(Int) /\ Len(apdu) = 4 + Len(body) + Len(last) /\ apdu[1] = h
       /\ \A i \in 1 .. Len(body) : apdu[4 + i] = body[i]
       /\ \A i \in 1 .. Len(last) : apdu[4 + Len(body) + i] = last[i]
  <2>1. /\ apdu \in Seq(Int)
        /\ Len(apdu) = Len(HeaderBytes(h)) + Len(body) + Len(last)
        /\ \A i \in 1 .. Len(HeaderBytes(h)) : apdu[i] = HeaderBytes(h)[i]
        /\ \A i \in 1 .. Len(body) : apdu[Len(HeaderBytes(h)) + i] = body[i]
        /\ \A i \in 1 .. Len(last) : apdu[Len(HeaderBytes(h)) + Len(body) + i] = last[i]
    BY <1>7, <1>8, <1>9, FramedBytes
  <2> HIDE DEF apdu
  <2> QED
    BY <1>7, <2>1
<1> HIDE DEF apdu
<1>11. /\ buf \in Seq(Int) /\ Len(buf) = 2 + Len(apdu) /\ buf[2] = id /\ buf[1] = APDU_TRANSFER_MSG
       /\ \A i \in 1 .. Len(apdu) : buf[2 + i] = apdu[i]
  <2>1. /\ buf \in Seq(Int) /\ Len(buf) = 2 + Len(apdu)
        /\ \A i \in 1 .. 2 + Len(apdu) : buf[i] = IF i <= 2 THEN front[i] ELSE apdu[i - 2]
    <3>1. /\ front \o apdu \in Seq(Int) /\ Len(front \o apdu) = Len(front) + Len(apdu)
          /\ \A i \in 1 .. Len(front) + Len(apdu) :
               (front \o apdu)[i] = IF i <= Len(front) THEN front[i] ELSE apdu[i - Len(front)]
      BY <1>6, <1>10, Joined
    <3> QED
      BY <1>6, <3>1
  <2>2. Len(apdu) \in Nat
    BY <1>10
  <2>3. \A i \in 1 .. Len(apdu) : 2 + i \in 1 .. 2 + Len(apdu) /\ ~(2 + i <= 2) /\ (2 + i) - 2 = i
    BY <2>2
  <2> HIDE DEF buf
  <2> QED
    BY <1>6, <2>1, <2>2, <2>3
<1> HIDE DEF buf
<1>12. /\ Len(buf) = 6 + Len(body) + Len(last) /\ buf[3] = h
       /\ \A i \in 1 .. Len(body) : buf[6 + i] = body[i]
       /\ \A i \in 1 .. Len(last) : buf[6 + Len(body) + i] = last[i]
  <2>1. Len(body) \in Nat /\ Len(last) \in Nat
    BY <1>8, <1>9
  <2>2. \A i \in 1 .. Len(body) : 4 + i \in 1 .. Len(apdu) /\ 2 + (4 + i) = 6 + i
    BY <1>10, <2>1
  <2>3. \A i \in 1 .. Len(last) : /\ 4 + Len(body) + i \in 1 .. Len(apdu)
                                 /\ 2 + (4 + Len(body) + i) = 6 + Len(body) + i
    BY <1>10, <2>1
  <2>4. 1 \in 1 .. Len(apdu) /\ 2 + 1 = 3
    BY <1>10, <2>1
  <2>5. Len(buf) = 6 + Len(body) + Len(last)
    BY <1>10, <1>11, <2>1
  <2>6. buf[3] = h
    BY <1>10, <1>11, <2>4
  <2>7. \A i \in 1 .. Len(body) : buf[6 + i] = body[i]
    BY <1>10, <1>11, <2>2
  <2>8. \A i \in 1 .. Len(last) : buf[6 + Len(body) + i] = last[i]
    BY <1>10, <1>11, <2>3
  <2> QED
    BY <2>5, <2>6, <2>7, <2>8
<1> HIDE DEF n
<1>13. CASE n = 0
  <2>1. Len(buf) = (IF le = -1 THEN 6 ELSE 7) /\ (le # -1 => buf[7] = le)
    BY <1>8, <1>9, <1>12, <1>13
  <2>2. LcOf(buf) = 0
    BY <2>1 DEF LcOf
  <2>3. LeOf(buf, 0) = IF le = -1 THEN 0 ELSE le
    BY <2>1 DEF LeOf
  <2>4. SubSeq(buf, 8, 7 + 0) = data
    BY <1>3, <1>13, SubSeqEmpty
  <2> QED
    BY <1>4, <1>5, <1>11, <1>12, <1>13, <2>1, <2>2, <2>3, <2>4 DEF SendApduToSim
<1>14. CASE n # 0
  <2>1. Len(buf) = (IF le = -1 THEN 7 ELSE 8) + n
    BY <1>2, <1>8, <1>9, <1>12, <1>14
  <2>2. le # -1 => buf[n + 8] = le
    <3> SUFFICES ASSUME le # -1 PROVE buf[n + 8] = le
      OBVIOUS
    <3>1. 1 \in 1 .. Len(last) /\ 6 + Len(body) + 1 = n + 8
      BY <1>2, <1>8, <1>9, <1>14
    <3> QED
      BY <1>8, <1>12, <3>1
  <2>3. buf[7] = n
    <3>1. 1 \in 1 .. Len(body) /\ 6 + 1 = 7
      BY <1>2, <1>9, <1>14
    <3> QED
      BY <1>9, <1>12, <1>14, <3>1
  <2>4. \A i \in 1 .. n : buf[7 + i] = data[i]
    <3>1. \A i \in 1 .. n : 1 + i \in 1 .. Len(body) /\ 6 + (1 + i) = 7 + i
      BY <1>2, <1>9, <1>14
    <3> QED
      BY <1>9, <1>12, <1>14, <3>1
  <2>5. SubSeq(buf, 8, 7 + n) = data
    BY <1>2, <1>11, <2>4, PartIs DEF n
  <2>6. LcOf(buf) = n
    BY <1>2, <1>14, <2>1, <2>3 DEF LcOf
  <2>7. LeOf(buf, n) = IF le = -1 THEN 0 ELSE le
    <3>1. CASE le = -1
      BY <1>2, <1>14, <2>1, <3>1 DEF LeOf
    <3>2. CASE le # -1
      BY <1>2, <1>14, <2>1, <2>2, <3>2 DEF LeOf
    <3> QED
      BY <3>1, <3>2
  <2>8. ~(Len(buf) < 6 \/ (n > 0 /\ Len(buf) < n + 7))
    BY <1>2, <2>1
  <2> QED
    BY <1>4, <1>5, <1>11, <1>12, <2>5, <2>6, <2>7, <2>8 DEF SendApduToSim
<1> QED
  BY <1>13, <1>14

\* What was framed is bytes.
LEMMA CommandIsBytes ==
    ASSUME NEW cmd \in Command
    PROVE  CommandBytes(cmd) \in Seq(Int)
<1> DEFINE body == IF cmd.data = << >> THEN << >> ELSE <<Len(cmd.data)>> \o cmd.data
           last == IF cmd.le = -1 THEN << >> ELSE <<cmd.le>>
<1>1. /\ cmd.data \in Seq(Int) /\ Len(cmd.data) \in Nat
      /\ cmd.header = 1 /\ cmd.le \in -1 .. 2
  BY DataIsBytes DEF Command
<1>2. HeaderBytes(cmd.header) \in Seq(Int)
  BY <1>1 DEF HeaderBytes
<1>3. body \in Seq(Int)
  <2>1. <<Len(cmd.data)>> \in Seq(Int)
    BY <1>1
  <2>2. <<Len(cmd.data)>> \o cmd.data \in Seq(Int)
    BY <1>1, <2>1, Joined
  <2> QED
    BY <2>2
<1>4. last \in Seq(Int)
  BY <1>1
<1> HIDE DEF body, last
<1>5. (HeaderBytes(cmd.header) \o body) \o last \in Seq(Int)
  BY <1>2, <1>3, <1>4, Joined
<1> QED
  BY <1>5 DEF CommandBytes, body, last

LEMMA TailIsBytes ==
    ASSUME NEW tail \in Tails
    PROVE  tail \in Seq(Int)
<1>1. tail \in Seq(0 .. Byte - 1)
  BY CodecAssumption DEF CodecAssumption
<1> QED
  BY <1>1, CodecAssumption DEF CodecAssumption

\* What is sent.
MessageTypes ==
    \/ kind = "command" /\ msg \in [id : Ids, cmd : Command]
    \/ kind = "answer" /\ msg \in Answer
    \/ kind = "atr" /\ msg \in Atr

\* The frame of an answer or an AtR: the bytes in front of its data.
HeadOf == IF kind = "answer" THEN <<APDU_TRANSFER_MSG, Uint8(msg.id), Uint8(Len(msg.data))>>
          ELSE <<msg.type, Uint8(Len(msg.data))>>

LEMMA AnswerFramed ==
    ASSUME MessageTypes, kind \in {"answer", "atr"}
    PROVE  /\ Frame = HeadOf \o msg.data /\ HeadOf \in Seq(Int)
           /\ msg.data \in Data /\ msg.data \in Seq(Int) /\ Len(msg.data) \in Nat
           /\ kind = "answer" => /\ Len(HeadOf) = 3 /\ HeadOf[1] = APDU_TRANSFER_MSG
                                 /\ HeadOf[2] = Uint8(msg.id) /\ HeadOf[3] = Uint8(Len(msg.data))
           /\ kind = "atr" => /\ Len(HeadOf) = 2 /\ HeadOf[1] = msg.type
                              /\ HeadOf[2] = Uint8(Len(msg.data))
                              /\ msg.type \in {CARD_RESET_MSG, CARD_INSERTED_MSG}
<1>1. msg.data \in Data
  BY DEF MessageTypes, Answer, Atr
<1>2. msg.data \in Seq(Int) /\ Len(msg.data) \in Nat /\ Uint8(Len(msg.data)) \in Nat
  BY <1>1, DataIsBytes, ByteOf
<1>3. CASE kind = "answer"
  <2>1. msg.id \in Nat /\ Uint8(msg.id) \in Nat
    BY <1>3, ByteOf, CodecAssumption DEF MessageTypes, Answer, CodecAssumption
  <2>2. Frame = HeadOf \o msg.data
    BY <1>3 DEF Frame, ApduResponse, HeadOf
  <2>3. HeadOf = <<APDU_TRANSFER_MSG, Uint8(msg.id), Uint8(Len(msg.data))>>
    BY <1>3 DEF HeadOf
  <2> QED
    BY <1>1, <1>2, <1>3, <2>1, <2>2, <2>3 DEF APDU_TRANSFER_MSG
<1>4. CASE kind = "atr"
  <2>1. msg.type \in {CARD_RESET_MSG, CARD_INSERTED_MSG}
    BY <1>4 DEF MessageTypes, Atr
  <2>2. Frame = HeadOf \o msg.data
    BY <1>4 DEF Frame, AtrMessage, HeadOf
  <2>3. HeadOf = <<msg.type, Uint8(Len(msg.data))>>
    BY <1>4 DEF HeadOf
  <2> QED
    BY <1>1, <1>2, <1>4, <2>1, <2>2, <2>3 DEF CARD_RESET_MSG, CARD_INSERTED_MSG
<1> QED
  BY <1>3, <1>4

LEMMA FrameIsBytes == MessageTypes => Frame \in Seq(Int)
<1> SUFFICES ASSUME MessageTypes PROVE Frame \in Seq(Int)
  OBVIOUS
<1>1. CASE kind = "command"
  <2>1. msg.id \in Nat /\ msg.cmd \in Command
    BY <1>1, CodecAssumption DEF MessageTypes, CodecAssumption
  <2>2. <<APDU_TRANSFER_MSG, Uint8(msg.id)>> \in Seq(Int)
    BY <2>1, ByteOf DEF APDU_TRANSFER_MSG
  <2>3. <<APDU_TRANSFER_MSG, Uint8(msg.id)>> \o CommandBytes(msg.cmd) \in Seq(Int)
    BY <2>1, <2>2, CommandIsBytes, Joined
  <2> QED
    BY <1>1, <2>3 DEF Frame, ApduRequest
<1>2. CASE kind \in {"answer", "atr"}
  BY <1>2, AnswerFramed, Joined
<1> QED
  BY <1>1, <1>2 DEF MessageTypes

\* The first bytes of a sequence.
LEMMA FirstBytes ==
    ASSUME NEW s \in Seq(Int), NEW n \in 1 .. Len(s) - 1
    PROVE  /\ SubSeq(s, 1, n) \in Seq(Int) /\ Len(SubSeq(s, 1, n)) = n
           /\ \A i \in 1 .. n : SubSeq(s, 1, n)[i] = s[i]
           /\ SubSeq(s, n + 1, Len(s)) \in Seq(Int)
  OBVIOUS

\* A part of a frame whose length fits its byte says so.
LEMMA PartDisagrees ==
    ASSUME NEW head \in Seq(Int), NEW k \in Nat \ {0}, Len(head) = k,
           NEW data \in Data, Len(data) < Byte, head[k] = Uint8(Len(data)),
           NEW n \in 1 .. Len(head \o data) - 1
    PROVE  LET buf == SubSeq(head \o data, 1, n) IN
           /\ Len(buf) = n /\ buf[1] = head[1] /\ n \in Nat
           /\ n >= k => ~LengthAgrees(buf, k)
<1> DEFINE frame == head \o data
           buf == SubSeq(frame, 1, n)
<1>1. data \in Seq(Int) /\ Len(data) \in Nat /\ Uint8(Len(data)) = Len(data)
  BY DataIsBytes, ByteOf
<1>2. /\ frame \in Seq(Int) /\ Len(frame) = k + Len(data)
      /\ \A i \in 1 .. k : frame[i] = head[i]
  <2>1. /\ frame \in Seq(Int) /\ Len(frame) = Len(head) + Len(data)
        /\ \A i \in 1 .. Len(head) + Len(data) :
             frame[i] = IF i <= Len(head) THEN head[i] ELSE data[i - Len(head)]
    BY <1>1, Joined
  <2> HIDE DEF frame
  <2>2. \A i \in 1 .. k : i \in 1 .. Len(head) + Len(data) /\ i <= Len(head)
    BY <1>1
  <2> QED
    BY <2>1, <2>2
<1>3. n \in 1 .. Len(frame) - 1
  OBVIOUS
<1> HIDE DEF frame
<1>4. Len(buf) = n /\ \A i \in 1 .. n : buf[i] = frame[i]
  BY <1>2, <1>3, FirstBytes
<1> HIDE DEF buf
<1>5. buf[1] = head[1] /\ n \in Nat
  BY <1>2, <1>3, <1>4
<1>6. ASSUME n >= k PROVE ~LengthAgrees(buf, k)
  <2>1. k \in 1 .. k /\ k \in 1 .. n
    BY <1>5, <1>6
  <2>2. buf[k] = Len(data)
    BY <1>1, <1>2, <1>4, <2>1
  <2> QED
    BY <1>1, <1>2, <1>3, <1>4, <2>2 DEF LengthAgrees
<1> QED
  BY <1>4, <1>5, <1>6 DEF buf, frame

\* The read() that began with the frame's first byte returned a part of it, or the
\* whole and what was coalesced behind it, which leaves nothing to be read.
Part(w) == \E n \in 1 .. Len(Frame) - 1 : w = SubSeq(Frame, 1, n)
Whole(w) == \E tail \in Tails : w = Frame \o tail /\ coalesced = (tail # << >>)
FirstRead(w) == IF cut THEN Part(w) ELSE unread = << >> /\ Whole(w)

Made == {Handled(w) : w \in Seq(Int)}
CodecIInv ==
    /\ MessageTypes /\ cut \in BOOLEAN
    /\ unread \in Seq(Int) /\ wire \in Seq(Int) /\ got \in Seq(Made)
    /\ got = << >> /\ wire = << >> => ~cut /\ unread \in {<< >>, Frame}
    /\ got = << >> /\ wire # << >> => FirstRead(wire)
    /\ got # << >> => \E w \in Seq(Int) : FirstRead(w) /\ got[1] = Handled(w)
    /\ got # << >> /\ ~cut => Len(got) = 1 /\ wire = << >>

LEMMA CodecInductive == CodecSpec => []CodecIInv
<1>1. CodecInit => CodecIInv
  <2> SUFFICES ASSUME CodecInit PROVE CodecIInv
    OBVIOUS
  <2>1. unread \in Seq(Int) /\ wire \in Seq(Int) /\ got \in Seq(Made)
    BY DEF CodecInit
  <2> QED
    BY <2>1 DEF CodecInit, CodecIInv, MessageTypes
<1>2. CodecIInv /\ [CodecNext]_codecVars => CodecIInv'
  <2> SUFFICES ASSUME CodecIInv, [CodecNext]_codecVars PROVE CodecIInv'
    OBVIOUS
  <2> USE DEF CodecIInv
  <2>1. UNCHANGED <<kind, msg>>
    BY DEF CodecNext, Send, ReadAll, ReadPart, Receive, codecVars
  <2>2. Frame' = Frame /\ MessageTypes' /\ \A w : Handled(w)' = Handled(w)
    BY <2>1 DEF Frame, MessageTypes, Handled
  <2>3. Made' = Made
    BY <2>2 DEF Made
  <2>4. Frame \in Seq(Int)
    BY FrameIsBytes
  <2>5. CASE Send
    BY <2>2, <2>3, <2>4, <2>5 DEF Send
  <2>6. ASSUME ReadAll \/ ReadPart, got # << >> PROVE cut
    BY <2>6 DEF ReadAll, ReadPart, FirstRead
  <2>7. ASSUME NEW w, cut, cut', FirstRead(w) PROVE FirstRead(w)'
    BY <2>2, <2>7 DEF FirstRead, Part
  <2>8. CASE ReadAll
    <3> PICK tail \in Tails : wire' = unread \o tail /\ coalesced' = (tail # << >>)
      BY <2>8 DEF ReadAll
    <3>1. /\ unread # << >> /\ wire = << >> /\ unread' = << >> /\ UNCHANGED <<cut, got>>
          /\ tail \in Seq(Int)
      BY <2>8, TailIsBytes DEF ReadAll
    <3>2. wire' \in Seq(Int) /\ Len(wire') = Len(unread) + Len(tail)
      BY <3>1, Joined
    <3>3. wire' # << >>
      <4>1. Len(unread) \in Nat /\ Len(unread) # 0 /\ Len(tail) \in Nat
        BY <3>1
      <4>2. Len(wire') # 0
        BY <3>2, <4>1
      <4> QED
        BY <4>2
    <3>4. CASE got = << >>
      <4>1. unread = Frame /\ ~cut
        BY <3>1, <3>4
      <4>2. FirstRead(wire)'
        BY <2>2, <3>1, <4>1 DEF FirstRead, Whole
      <4> QED
        BY <2>2, <2>3, <3>1, <3>2, <3>3, <3>4, <4>2
    <3>5. CASE got # << >>
      <4>1. cut /\ cut'
        BY <2>6, <2>8, <3>1, <3>5
      <4>2. PICK w \in Seq(Int) : FirstRead(w) /\ got[1] = Handled(w)
        BY <3>5
      <4>3. FirstRead(w)' /\ got'[1] = Handled(w)'
        BY <2>2, <2>7, <3>1, <4>1, <4>2
      <4> QED
        BY <2>2, <2>3, <3>1, <3>2, <3>5, <4>1, <4>3
    <3> QED
      BY <3>4, <3>5
  <2>9. CASE ReadPart
    <3> PICK n \in 1 .. Len(unread) - 1 :
               wire' = SubSeq(unread, 1, n) /\ unread' = SubSeq(unread, n + 1, Len(unread))
      BY <2>9 DEF ReadPart
    <3>1. unread # << >> /\ wire = << >> /\ cut' = TRUE /\ got' = got
      BY <2>9 DEF ReadPart
    <3>2. wire' \in Seq(Int) /\ Len(wire') = n /\ unread' \in Seq(Int)
      <4>1. unread \in Seq(Int)
        OBVIOUS
      <4> QED
        BY <4>1, FirstBytes
    <3>3. wire' # << >>
      <4>1. Len(unread) \in Nat
        OBVIOUS
      <4>2. Len(wire') # 0
        BY <3>2, <4>1
      <4> QED
        BY <4>2
    <3>4. CASE got = << >>
      <4>1. unread = Frame
        BY <3>1, <3>4
      <4>2. FirstRead(wire)'
        BY <2>2, <3>1, <4>1 DEF FirstRead, Part
      <4> QED
        BY <2>2, <2>3, <3>1, <3>2, <3>3, <3>4, <4>2
    <3>5. CASE got # << >>
      <4>1. cut /\ cut'
        BY <2>6, <2>9, <3>1, <3>5
      <4>2. PICK w \in Seq(Int) : FirstRead(w) /\ got[1] = Handled(w)
        BY <3>5
      <4>3. FirstRead(w)' /\ got'[1] = Handled(w)'
        BY <2>2, <2>7, <3>1, <4>1, <4>2
      <4> QED
        BY <2>2, <2>3, <3>1, <3>2, <3>5, <4>1, <4>3
    <3> QED
      BY <3>4, <3>5
  <2>10. CASE Receive
    <3>1. /\ wire # << >> /\ got' = Append(got, Handled(wire)) /\ wire' = << >>
          /\ UNCHANGED <<unread, coalesced, cut>>
      BY <2>10 DEF Receive
    <3>2. Handled(wire) \in Made
      BY DEF Made
    <3>3. got' \in Seq(Made) /\ got' # << >> /\ Len(got') = Len(got) + 1
          /\ got'[1] = IF got = << >> THEN Handled(wire) ELSE got[1]
      BY <3>1, <3>2
    <3>4. \A w : FirstRead(w)' = FirstRead(w)
      BY <2>2, <3>1 DEF FirstRead, Part, Whole
    <3>5. \E w \in Seq(Int) : FirstRead(w) /\ got'[1] = Handled(w)
      BY <3>1, <3>3
    <3>6. ~cut => Len(got') = 1
      BY <3>1, <3>3
    <3> QED
      BY <2>2, <2>3, <3>1, <3>3, <3>4, <3>5, <3>6
  <2>11. CASE UNCHANGED codecVars
    <3>1. UNCHANGED <<unread, wire, coalesced, cut, got>>
      BY <2>11 DEF codecVars
    <3>2. \A w : FirstRead(w)' = FirstRead(w)
      BY <2>2, <3>1 DEF FirstRead, Part, Whole
    <3> QED
      BY <2>2, <2>3, <3>1, <3>2
  <2> QED
    BY <2>5, <2>8, <2>9, <2>10, <2>11 DEF CodecNext
<1> QED
  BY <1>1, <1>2, PTL DEF CodecSpec

\* What was made of one read().
LEMMA OneMade ==
    ASSUME CodecIInv, got # << >>, ~cut
    PROVE  got = <<got[1]>>
<1>1. Len(got) = 1 /\ got \in Seq(Made)
  BY DEF CodecIInv
<1> QED
  BY <1>1

\* A command of any of the four cases that arrives alone and in one read() reaches the
\* card, once, with its own data, Lc and Le, under its own identifier, whatever the sizes.
THEOREM LinkCommandIntact == CodecSpec => []CommandIntact
<1>1. CodecIInv => CommandIntact
  <2> SUFFICES ASSUME CodecIInv, kind = "command", got # << >>, ~coalesced, ~cut, msg.id < Byte
               PROVE  got = <<Wanted(msg)>>
    BY DEF CommandIntact
  <2>1. msg \in [id : Ids, cmd : Command]
    BY DEF CodecIInv, MessageTypes
  <2>2. PICK w \in Seq(Int) : FirstRead(w) /\ got[1] = Handled(w)
    BY DEF CodecIInv
  <2>3. w = ApduRequest(msg.id, CommandBytes(msg.cmd)) \o << >>
    BY <2>2 DEF FirstRead, Whole, Frame
  <2>4. msg.id \in Nat /\ msg.cmd \in Command /\ msg = [id |-> msg.id, cmd |-> msg.cmd]
    BY <2>1, CodecAssumption DEF CodecAssumption
  <2>5. /\ ApduRequest(msg.id, CommandBytes(msg.cmd)) \in Seq(Int)
        /\ ApduRequest(msg.id, CommandBytes(msg.cmd))[1] = APDU_TRANSFER_MSG
        /\ SendApduToSim(ApduRequest(msg.id, CommandBytes(msg.cmd))) = Wanted(msg)
    BY <2>4, CommandParsed
  <2>6. w = ApduRequest(msg.id, CommandBytes(msg.cmd))
    BY <2>3, <2>5, ConcatEmptySeq
  <2>7. SendApduToSim(w) = Wanted(msg) /\ w[1] = APDU_TRANSFER_MSG
    BY <2>5, <2>6
  <2>8. got[1] = Wanted(msg)
    BY <2>2, <2>7 DEF Handled, HandleDaemonMsg
  <2> QED
    BY <2>8, OneMade
<1> QED
  BY <1>1, CodecInductive, PTL

\* How a message of the client is handled, by its first byte.
LEMMA ClientMsgByType ==
    ASSUME NEW w, kind \in {"answer", "atr"}
    PROVE  /\ w[1] = APDU_TRANSFER_MSG => Handled(w) = HandleApduTransfer(w)
           /\ w[1] \in {CARD_RESET_MSG, CARD_INSERTED_MSG} => Handled(w) = HandleAtr(w)
  BY DEF Handled, HandleClientMsg, APDU_TRANSFER_MSG, CARD_RESET_MSG, CARD_INSERTED_MSG

\* An answer or an AtR that was read as a whole.
LEMMA WholeParsed ==
    ASSUME MessageTypes, kind \in {"answer", "atr"}, NEW w, Whole(w)
    PROVE  /\ Handled(w) \in {Said, Dropped}
           /\ ~coalesced /\ ~TooLong => Handled(w) = Said
<1>0. PICK tail \in Tails : w = Frame \o tail /\ coalesced = (tail # << >>)
  BY DEF Whole
<1>1. msg.data \in Data /\ msg.data \in Seq(Int) /\ tail \in Seq(Int)
  BY AnswerFramed, TailIsBytes
<1>2. PICK head : head = HeadOf
  OBVIOUS
<1>3. head \in Seq(Int) /\ w = Framed(head, msg.data, tail)
  BY <1>0, <1>2, AnswerFramed DEF Framed
<1>4. \A i \in 1 .. Len(head) : w[i] = head[i]
  BY <1>1, <1>3, FramedBytes
<1>5. ASSUME NEW k \in Nat \ {0}, Len(head) = k, head[k] = Uint8(Len(msg.data))
      PROVE  /\ Len(w) \in Nat /\ Len(w) >= k
             /\ LengthAgrees(w, k) => SubSeq(w, k + 1, k + w[k]) = msg.data
             /\ ~LengthAgrees(w, k) => tail # << >> \/ TooLong
  BY <1>1, <1>3, <1>5, LengthByteGuards DEF TooLong
<1>6. CASE kind = "answer"
  <2>1. /\ Len(head) = 3 /\ head[1] = APDU_TRANSFER_MSG /\ head[2] = Uint8(msg.id)
        /\ head[3] = Uint8(Len(msg.data))
    BY <1>2, <1>6, AnswerFramed
  <2>2. w[1] = APDU_TRANSFER_MSG /\ w[2] = Uint8(msg.id)
    BY <1>4, <2>1
  <2>3. /\ Len(w) \in Nat /\ Len(w) >= 3
        /\ LengthAgrees(w, 3) => SubSeq(w, 3 + 1, 3 + w[3]) = msg.data
        /\ ~LengthAgrees(w, 3) => tail # << >> \/ TooLong
    BY <1>5, <2>1
  <2>4. Handled(w) = IF LengthAgrees(w, 3) THEN [id |-> Uint8(msg.id), data |-> msg.data] ELSE Dropped
    <3>1. Handled(w) = HandleApduTransfer(w)
      BY <2>2, ClientMsgByType
    <3>2. ~(Len(w) < 3) /\ (LengthAgrees(w, 3) => SubSeq(w, 4, 3 + w[3]) = msg.data)
      BY <2>3
    <3> QED
      BY <2>2, <3>1, <3>2 DEF HandleApduTransfer
  <2>5. Said = [id |-> Uint8(msg.id), data |-> msg.data]
    BY <1>6 DEF Said
  <2> QED
    BY <1>0, <2>3, <2>4, <2>5
<1>7. CASE kind = "atr"
  <2>1. /\ Len(head) = 2 /\ head[1] = msg.type /\ msg.type \in {CARD_RESET_MSG, CARD_INSERTED_MSG}
        /\ head[2] = Uint8(Len(msg.data))
    BY <1>2, <1>7, AnswerFramed
  <2>2. w[1] = msg.type
    BY <1>4, <2>1
  <2>3. /\ Len(w) \in Nat /\ Len(w) >= 2
        /\ LengthAgrees(w, 2) => SubSeq(w, 2 + 1, 2 + w[2]) = msg.data
        /\ ~LengthAgrees(w, 2) => tail # << >> \/ TooLong
    BY <1>5, <2>1
  <2>4. Handled(w) = IF LengthAgrees(w, 2) THEN [type |-> msg.type, data |-> msg.data] ELSE Dropped
    <3>1. Handled(w) = HandleAtr(w)
      BY <2>1, <2>2, ClientMsgByType
    <3>2. ~(Len(w) < 2) /\ (LengthAgrees(w, 2) => SubSeq(w, 3, 2 + w[2]) = msg.data)
      BY <2>3
    <3> QED
      BY <2>2, <3>1, <3>2 DEF HandleAtr
  <2>5. Said = [type |-> msg.type, data |-> msg.data]
    BY <1>7 DEF Said
  <2> QED
    BY <1>0, <2>3, <2>4, <2>5
<1> QED
  BY <1>6, <1>7

\* The first part of an answer or an AtR that was cut.
LEMMA PartDropped ==
    ASSUME MessageTypes, kind \in {"answer", "atr"}, ~TooLong, NEW w, Part(w)
    PROVE  Handled(w) = Dropped
<1>1. PICK n \in 1 .. Len(Frame) - 1 : w = SubSeq(Frame, 1, n)
  BY DEF Part
<1>2. Len(msg.data) < Byte /\ msg.data \in Data
  BY AnswerFramed, CodecAssumption DEF TooLong, CodecAssumption
<1>3. PICK head : head = HeadOf
  OBVIOUS
<1>4. head \in Seq(Int) /\ n \in 1 .. Len(head \o msg.data) - 1 /\ w = SubSeq(head \o msg.data, 1, n)
  BY <1>1, <1>3, AnswerFramed
<1>5. ASSUME NEW k \in Nat \ {0}, Len(head) = k, head[k] = Uint8(Len(msg.data))
      PROVE  /\ Len(w) \in Nat /\ w[1] = head[1]
             /\ Len(w) >= k => ~LengthAgrees(w, k)
  BY <1>2, <1>4, <1>5, PartDisagrees
<1>6. CASE kind = "answer"
  <2>1. Len(head) = 3 /\ head[1] = APDU_TRANSFER_MSG /\ head[3] = Uint8(Len(msg.data))
    BY <1>3, <1>6, AnswerFramed
  <2>2. /\ Len(w) \in Nat /\ w[1] = APDU_TRANSFER_MSG
        /\ Len(w) >= 3 => ~LengthAgrees(w, 3)
    BY <1>5, <2>1
  <2>3. Handled(w) = HandleApduTransfer(w)
    BY <2>2, ClientMsgByType
  <2> QED
    BY <2>2, <2>3 DEF HandleApduTransfer
<1>7. CASE kind = "atr"
  <2>1. /\ Len(head) = 2 /\ head[1] \in {CARD_RESET_MSG, CARD_INSERTED_MSG}
        /\ head[2] = Uint8(Len(msg.data))
    BY <1>3, <1>7, AnswerFramed
  <2>2. /\ Len(w) \in Nat /\ w[1] \in {CARD_RESET_MSG, CARD_INSERTED_MSG}
        /\ Len(w) >= 2 => ~LengthAgrees(w, 2)
    BY <1>5, <2>1
  <2>3. Handled(w) = HandleAtr(w)
    BY <2>2, ClientMsgByType
  <2> QED
    BY <2>2, <2>3 DEF HandleAtr
<1> QED
  BY <1>6, <1>7

\* Of an answer or an AtR that was not cut the modem is given what the card said or
\* nothing, and nothing only if the data do not fit their length byte or came with
\* another message; and of one that was cut, if the data fit, the first part gives
\* nothing: for every size of the data, of the parts and of what came with them.
THEOREM LinkAnswerIntact == CodecSpec => []AnswerIntact
<1>1. CodecIInv => AnswerIntact
  <2> SUFFICES ASSUME CodecIInv, kind \in {"answer", "atr"}, got # << >>
               PROVE  /\ ~cut => got \in {<<Said>>, <<Dropped>>}
                      /\ ~cut /\ ~coalesced /\ ~TooLong => got = <<Said>>
                      /\ cut /\ ~TooLong => got[1] = Dropped
    BY DEF AnswerIntact
  <2>1. PICK w \in Seq(Int) : FirstRead(w) /\ got[1] = Handled(w)
    BY DEF CodecIInv
  <2>2. CASE cut
    BY <2>1, <2>2, PartDropped DEF FirstRead, CodecIInv
  <2>3. CASE ~cut
    <3>1. got[1] \in {Said, Dropped} /\ (~coalesced /\ ~TooLong => got[1] = Said)
      BY <2>1, <2>3, WholeParsed DEF CodecIInv, FirstRead
    <3>2. got = <<got[1]>>
      BY <2>3, OneMade
    <3> QED
      BY <2>3, <3>1, <3>2
  <2> QED
    BY <2>2, <2>3
<1> QED
  BY <1>1, CodecInductive, PTL

=============================================================================
