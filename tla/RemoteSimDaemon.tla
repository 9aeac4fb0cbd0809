--------------------------- MODULE RemoteSimDaemon ---------------------------
(***************************************************************************)
(* How remote-sim-daemon tells its modem whether a remote SIM can be       *)
(* reached (RemoteSimDaemon.cpp).                                          *)
(*                                                                         *)
(* Two threads call notifyModemConnAvailable() and ...Unavailable(): the   *)
(* main loop, when the client's connection comes or goes, and the modem    *)
(* listener, when the modem's service goes down or comes up.  Both test    *)
(* modemConnected_, send the event and set modemConnected_, with no lock.  *)
(* The modem may refuse an event, or its answer may be an error: both are  *)
(* only logged.                                                            *)
(* The link itself is SimLink; here it only connects and disconnects.      *)
(***************************************************************************)
EXTENDS Integers, Sequences

CONSTANTS
    MaxSsr,     \* bound: restarts of the modem's subsystem
    MaxDrop     \* bound: times the client's connection is lost

ASSUME DaemonAssumption == MaxSsr \in Nat /\ MaxDrop \in Nat

DaemonThread == {"main", "listener"}
OtherThread == [main |-> "listener", listener |-> "main"]
Event == {"available", "unavailable"}
Step == {"check", "send", "set"}    \* inside a notify function
Phase == {"accept", "ready", "found", "sent", "loop", "exit"}
Accident == {"refused", "down", "overlap", "untested"}
Idle == <<"idle", "none">>
Comparing == <<"compare", "none">>
Pc == {Idle, Comparing} \cup (Step \X Event)

VARIABLES
    phase,              \* initDaemon(), the loop of runDaemon(), or exit
    daemonPc,           \* where each thread is
    clientConnected_,   \* SimConnection: the daemon has a client
    modemConnected_,    \* the last thing the modem was told, by the daemon's books
    drops,              \* connections lost so far
    serviceUp,          \* modem: its remote SIM service is available
    modemNotices,       \* status changes the listener has yet to be called with
    ssrs,               \* restarts so far
    modemHas,           \* modem: it believes that a remote SIM can be reached
    eventsSent,         \* history: the last two events the modem took
    daemonCause               \* history: an event was not taken, by a modem that was
                        \* up or down; two threads were in a notify function;
                        \* initDaemon() sent what the listener sends, too

modemVars == <<serviceUp, modemNotices, ssrs>>
daemonVars == <<phase, daemonPc, clientConnected_, modemConnected_, drops, modemVars,
                modemHas, eventsSent, daemonCause>>

DaemonInit ==
    /\ phase = "accept" /\ daemonPc = [t \in DaemonThread |-> Idle]
    /\ clientConnected_ = FALSE /\ modemConnected_ = FALSE /\ drops = 0
    /\ serviceUp = TRUE /\ modemNotices = << >> /\ ssrs = 0
    /\ modemHas = FALSE /\ eventsSent = << >> /\ daemonCause = {}

\* remoteSimMgr_->sendConnectionAvailable() and ...Unavailable().  The modem takes
\* an event only while its service is up, ...
EventTaken(e, seen) ==
    /\ serviceUp
    /\ modemHas' = (e = "available")
    /\ eventsSent' = <<e, IF eventsSent = << >> THEN "none" ELSE eventsSent[1]>>
    /\ daemonCause' = seen

\* ... and then, too, the status may be other than SUCCESS, or eventCallback() may
\* be called with an error.
EventLost(e, seen) ==
    /\ daemonCause' = seen \cup (IF modemHas = (e = "available") THEN {}
                            ELSE IF serviceUp THEN {"refused"} ELSE {"down"})
    /\ UNCHANGED <<modemHas, eventsSent>>

SendEvent(e, seen) == EventTaken(e, seen) \/ EventLost(e, seen)

-----------------------------------------------------------------------------
(* initDaemon().                                                           *)

AcceptFirst ==
    /\ phase = "accept"
    /\ clientConnected_' = TRUE /\ phase' = "ready"
    /\ UNCHANGED <<daemonPc, modemConnected_, drops, modemVars, modemHas, eventsSent, daemonCause>>

\* isSubsystemReady(), or onSubsystemReady() within SUBSYSTEM_READY_TIMEOUT_SEC.
SubsystemReady ==
    /\ phase = "ready" /\ serviceUp
    /\ phase' = "found"
    /\ UNCHANGED <<daemonPc, clientConnected_, modemConnected_, drops, modemVars,
                   modemHas, eventsSent, daemonCause>>

\* A thread is between its test of modemConnected_ and its note there.
InNotify(t) ==
    \/ daemonPc[t] \in {"send", "set"} \X Event
    \/ t = "main" /\ phase = "sent"

\* The first event is sent, without a test, then noted.
InitSend ==
    /\ phase = "found"
    /\ SendEvent("available", daemonCause \cup IF modemConnected_ \/ InNotify("listener")
                                       THEN {"untested"} ELSE {})
    /\ phase' = "sent"
    /\ UNCHANGED <<daemonPc, clientConnected_, modemConnected_, drops, modemVars>>

InitSet ==
    /\ phase = "sent"
    /\ modemConnected_' = TRUE /\ phase' = "loop"
    /\ UNCHANGED <<daemonPc, clientConnected_, drops, modemVars, modemHas, eventsSent, daemonCause>>

\* The subsystem is not ready in time, or the status of the first event is not
\* SUCCESS: tearDownClientConnection() and EXIT_FAILURE.
InitFails ==
    /\ \/ phase = "ready" /\ ~serviceUp /\ UNCHANGED <<modemHas, eventsSent, daemonCause>>
       \/ phase = "found" /\ EventLost("available", daemonCause)
    /\ clientConnected_' = FALSE /\ phase' = "exit"
    /\ UNCHANGED <<daemonPc, modemConnected_, drops, modemVars>>

-----------------------------------------------------------------------------
(* The loop of runDaemon().                                                *)

\* handleClientConnection() returns: with a client it may find it lost, and
\* without one it returns only after accept().
HandleClientConnection ==
    /\ phase = "loop" /\ daemonPc["main"] = Idle
    /\ \/ clientConnected_ /\ UNCHANGED <<clientConnected_, drops>>
       \/ /\ clientConnected_ /\ drops < MaxDrop
          /\ clientConnected_' = FALSE /\ drops' = drops + 1
       \/ ~clientConnected_ /\ clientConnected_' = TRUE /\ UNCHANGED drops
    /\ daemonPc' = [daemonPc EXCEPT !["main"] = Comparing]
    /\ UNCHANGED <<phase, modemConnected_, modemVars, modemHas, eventsSent, daemonCause>>

\* What the loop tells the modem after a pass.
AfterPassNoDrop ==
    IF clientConnected_ /\ ~modemConnected_ THEN <<"check", "available">> ELSE Idle
AfterPass ==
    IF clientConnected_ /\ ~modemConnected_ THEN <<"check", "available">>
    ELSE IF ~clientConnected_ /\ modemConnected_ THEN <<"check", "unavailable">>
    ELSE Idle

Compare ==
    /\ phase = "loop" /\ daemonPc["main"] = Comparing
    /\ daemonPc' = [daemonPc EXCEPT !["main"] = AfterPass]
    /\ UNCHANGED <<phase, clientConnected_, modemConnected_, drops, modemVars,
                   modemHas, eventsSent, daemonCause>>

-----------------------------------------------------------------------------
(* notifyModemConnAvailable() and notifyModemConnUnavailable(), by thread. *)

NeededSwapped(e) == modemConnected_ = (e = "available")
Needed(e) == modemConnected_ = (e = "unavailable")

NotifyCheck(t, e) ==
    /\ phase # "exit" /\ daemonPc[t] = <<"check", e>>
    /\ daemonPc' = [daemonPc EXCEPT ![t] = IF Needed(e) THEN <<"send", e>> ELSE Idle]
    /\ daemonCause' = daemonCause \cup IF InNotify(OtherThread[t]) THEN {"overlap"} ELSE {}
    /\ UNCHANGED <<phase, clientConnected_, modemConnected_, drops, modemVars,
                   modemHas, eventsSent>>

NotifySend(t, e) ==
    /\ phase # "exit" /\ daemonPc[t] = <<"send", e>>
    /\ SendEvent(e, daemonCause)
    /\ daemonPc' = [daemonPc EXCEPT ![t] = <<"set", e>>]
    /\ UNCHANGED <<phase, clientConnected_, modemConnected_, drops, modemVars>>

\* modemConnected_ is set whether or not the modem took the event.
BooksSwapped(e) == e = "unavailable"
Books(e) == e = "available"

NotifySet(t, e) ==
    /\ phase # "exit" /\ daemonPc[t] = <<"set", e>>
    /\ modemConnected_' = Books(e)
    /\ daemonPc' = [daemonPc EXCEPT ![t] = Idle]
    /\ UNCHANGED <<phase, clientConnected_, drops, modemVars, modemHas, eventsSent, daemonCause>>

Notify(t) == \E e \in Event : NotifyCheck(t, e) \/ NotifySend(t, e) \/ NotifySet(t, e)

\* RemoteSimListener::onServiceStatusChange().
AfterNoticeDeaf ==
    IF Head(modemNotices) = "available" /\ clientConnected_ THEN <<"check", "available">> ELSE Idle
AfterNotice ==
    IF Head(modemNotices) = "unavailable" THEN <<"check", "unavailable">>
    ELSE IF clientConnected_ THEN <<"check", "available">> ELSE Idle

OnServiceStatusChange ==
    /\ phase # "exit" /\ daemonPc["listener"] = Idle /\ modemNotices # << >>
    /\ modemNotices' = Tail(modemNotices)
    /\ daemonPc' = [daemonPc EXCEPT !["listener"] = AfterNotice]
    /\ UNCHANGED <<phase, clientConnected_, modemConnected_, drops, serviceUp,
                   ssrs, modemHas, eventsSent, daemonCause>>

\* deInit(): notifyModemConnUnavailable() and tearDownClientConnection().
Released ==
    /\ IF Needed("unavailable")
       THEN SendEvent("unavailable", daemonCause) /\ modemConnected_' = FALSE
       ELSE UNCHANGED <<modemHas, eventsSent, daemonCause, modemConnected_>>
    /\ clientConnected_' = FALSE

\* signalHandler() on the main thread, wherever it is: deInit() and exit().
Terminate ==
    /\ phase # "exit" /\ phase' = "exit"
    /\ Released
    /\ UNCHANGED <<daemonPc, drops, modemVars>>

-----------------------------------------------------------------------------
(* The modem.  A restart forgets what it was told.                         *)

ServiceDown ==
    /\ serviceUp /\ ssrs < MaxSsr /\ phase # "exit"
    /\ serviceUp' = FALSE /\ ssrs' = ssrs + 1 /\ modemHas' = FALSE /\ eventsSent' = << >>
    /\ modemNotices' = Append(modemNotices, "unavailable")
    /\ UNCHANGED <<phase, daemonPc, clientConnected_, modemConnected_, drops, daemonCause>>

ServiceBack ==
    /\ ~serviceUp /\ phase # "exit"
    /\ serviceUp' = TRUE /\ modemNotices' = Append(modemNotices, "available")
    /\ UNCHANGED <<phase, daemonPc, clientConnected_, modemConnected_, drops, ssrs,
                   modemHas, eventsSent, daemonCause>>

Main == HandleClientConnection \/ Compare \/ Notify("main")
Listener == OnServiceStatusChange \/ Notify("listener")

DaemonNext ==
    \/ AcceptFirst \/ SubsystemReady \/ InitSend \/ InitSet \/ InitFails
    \/ Main \/ Listener \/ Terminate
    \/ ServiceDown \/ ServiceBack

\* Both threads run; the modem comes back after a restart.
DaemonFairness ==
    /\ WF_daemonVars(Main) /\ WF_daemonVars(Listener)
    /\ WF_daemonVars(InitSend \/ InitSet) /\ WF_daemonVars(ServiceBack)

DaemonSpec == DaemonInit /\ [][DaemonNext]_daemonVars /\ DaemonFairness

-----------------------------------------------------------------------------
(* Properties.                                                             *)

\* The state keeps its type: every thread is at one of its steps and the queues
\* hold events.
DaemonTypeOK ==
    /\ phase \in Phase /\ daemonPc \in [DaemonThread -> Pc]
    /\ clientConnected_ \in BOOLEAN /\ modemConnected_ \in BOOLEAN
    /\ drops \in 0 .. MaxDrop /\ serviceUp \in BOOLEAN
    /\ modemNotices \in Seq(Event) /\ ssrs \in 0 .. MaxSsr
    /\ modemHas \in BOOLEAN /\ eventsSent \in Seq(Event \cup {"none"})
    /\ daemonCause \in SUBSET Accident

\* Neither thread is in a notify function and the listener has heard it all.
AtRest == phase = "loop" /\ modemNotices = << >> /\ \A t \in DaemonThread : daemonPc[t] = Idle

\* At rest the modem believes what the daemon's books say, over any restarts of the
\* modem, unless an event was not taken (RemoteSimDaemon.cpp:97, 107, 121), two threads
\* were between test and note at once (96, 106) or initDaemon(), which makes no test
\* (202), met the listener; and until the first restart the books say whether there is
\* a client, at every start of a pass.
BooksExact ==
    /\ DaemonTypeOK
    /\ AtRest /\ daemonCause = {} => modemHas = modemConnected_
    /\ phase = "loop" /\ daemonPc["main"] = Idle /\ ssrs = 0 => modemConnected_ = clientConnected_

\* Until it forgets or the daemon exits, the modem is never told twice in a row what
\* it knows, though main loop and listener both tell it (RemoteSimDaemon.cpp:84, 388,
\* 392), with the same exceptions.
ToldOnce == daemonCause = {} /\ phase # "exit" /\ eventsSent # << >> => eventsSent[1] # eventsSent[2]

\* A client that stays is announced: the daemon ends up with modemConnected_
\* set, restarts of the modem notwithstanding.
ClientAnnounced == <>[](clientConnected_ /\ phase = "loop") => <>[]modemConnected_

\* "Handle case where modem goes down or comes up" (remote_sim_api.md:49): once the
\* modem's service and the client stay, the modem gets to know of the client, if it
\* is up until the loop runs, takes every event that is sent while it is up, and no two
\* threads are in a notify function.
ModemLearnsOfClient ==
    (/\ <>[](clientConnected_ /\ serviceUp /\ phase = "loop")
     /\ [](daemonCause \subseteq {"down"}) /\ [](serviceUp \/ phase = "loop"))
      => <>[]modemHas

\* The process does not exit leaving the modem with a remote SIM, over any restarts,
\* with the same exceptions; unless the signal came between
\* an event and its note in modemConnected_ (RemoteSimDaemon.cpp:117); or initDaemon()
\* gave up after the listener had announced the client (196, 204).
ReleasedAtExit ==
    [][phase # "exit" /\ phase' = "exit" /\ modemHas' /\ daemonCause' = {}
         => \/ phase = "sent" \/ \E t \in DaemonThread : daemonPc[t] = <<"set", "available">>
            \/ phase \in {"ready", "found"} /\ modemConnected_']_daemonVars

=============================================================================
