----------------------------- MODULE Cv2xDaemon -----------------------------
(***************************************************************************)
(* The cv2x-daemon reference application in daemon mode: the main thread   *)
(* of Cv2xDaemon.cpp, which boots the daemon and then follows the power    *)
(* state of the system, over the data calls of Cv2xTelux.                  *)
(***************************************************************************)
EXTENDS Cv2xTelux

VARIABLES
    main,           \* where the main thread is
    systemState_,   \* Cv2xDaemon
    system,         \* environment: the power state of the system
    tcu,            \* environment: the notice of a power state on its way
    acked           \* the daemon has acknowledged it

teluxVars == <<flagVars, startVars, listenVars, processVars, radioVars, modemVars, historyVars>>
mainVars == <<main, systemState_>>
powerVars == <<system, tcu, acked>>
vars == <<teluxVars, mainVars, powerVars>>

MainStep == {"boot", "mode", "modeStart", "data", "calls", "enable", "between",
             "waiting", "woken", "acking", "resume", "resumeStart", "exit", "crashed"}

Init ==
    /\ TeluxInit
    /\ main = "boot" /\ systemState_ = "UNKNOWN"
    /\ system = "awake" /\ tcu = "none" /\ acked = FALSE

Ended == main \in {"exit", "crashed"}

-----------------------------------------------------------------------------
(* The end of the process.                                                 *)

\* Its memory is gone and nobody is there to be told.
Gone(as) ==
    /\ main' = as /\ runs' = FALSE /\ registered' = FALSE /\ systemState_' = "UNKNOWN"
    /\ cv2xStatus_' = "UNKNOWN" /\ isInitializationDone_' = FALSE
    /\ isPostSSRV2XDone_' = FALSE /\ dcInfo' = FALSE /\ dataLib' = "none"
    /\ callStatus' = [k \in Kind |-> "INVALID"] /\ awaiting' = FALSE
    /\ step' = [t \in Starter |-> "idle"] /\ leg' = [t \in Starter |-> NoLegs]
    /\ notices' = <<>> /\ info' = [k \in Kind |-> <<>>] /\ available' = FALSE
    /\ UNCHANGED <<request, dataUp, powerVars>>

\* A start that the modem has still to serve.
Late == IF \E t \in Asker : request[t] = "asked" THEN {"late"} ELSE {}

\* deInit(): stopV2xMode() before the end.
DeInit ==
    \/ radio # "on" /\ Troubles(0, Late) /\ UNCHANGED <<radio, call>>
    \/ radio = "on" /\ Trouble({"radioFailed"} \cup Late) /\ UNCHANGED <<radio, call>>
    \/ radio = "on" /\ radio' = "off" /\ call' = [k \in Kind |-> "none"] /\ Troubles(0, Late)

Exits == DeInit /\ Gone("exit")

\* terminationHandler(), whatever the threads are doing.
TerminationHandler == runs /\ Exits

\* An error while the daemon boots: a listener that cannot be registered, V2X mode
\* that does not start, data services or data calls that fail.
BootFails ==
    /\ runs
    /\ \/ main \in {"boot", "mode", "enable"}
       \/ main = "modeStart" /\ request["main"] = "refused"
       \/ main = "data" /\ dataLib = "failed"
       \/ main = "calls" /\ step["main"] = "failed"
    /\ Exits

\* onDataCallInfoChanged() for a call of another application: its profile is
\* compared through pointers that are null until the calls are first started.
OnForeignInfo ==
    /\ runs /\ dataLib = "ready" /\ ~dcInfo
    /\ Gone("crashed") /\ Troubles(0, Late) /\ UNCHANGED <<radio, call>>

-----------------------------------------------------------------------------
(* runAsDaemon().                                                          *)

RegisterListeners ==
    /\ runs /\ main = "boot" /\ main' = "mode" /\ registered' = TRUE
    /\ UNCHANGED <<flagVars, startVars, listenVars, runs, radioVars, modemVars, historyVars,
                   systemState_, powerVars>>

\* startV2xMode(): a radio that is on is stopped first, and asked to start even if
\* that fails.
StartV2xMode ==
    /\ runs /\ main \in {"mode", "resume"} /\ radio # "down"
    /\ main' = IF main = "mode" THEN "modeStart" ELSE "resumeStart"
    /\ IF radio = "on" THEN StopV2xRadio ELSE UNCHANGED <<radioVars, historyVars>>
    /\ StartV2xRadio("main")
    /\ UNCHANGED <<flagVars, startVars, listenVars, processVars, systemState_, powerVars>>

V2xModeStarted ==
    /\ runs /\ main = "modeStart" /\ main' = "data" /\ Answered("main", "started")
    /\ UNCHANGED <<flagVars, startVars, listenVars, processVars, radioVars, historyVars,
                   systemState_, powerVars>>

\* The asynchronous task has ended: findProfilesAndStartDataCalls().
DataReady ==
    /\ runs /\ main = "data" /\ dataLib = "ready" /\ main' = "calls" /\ Begin("main")
    /\ UNCHANGED <<cv2xStatus_, isInitializationDone_, isPostSSRV2XDone_, listenVars,
                   processVars, leg, radioVars, modemVars, historyVars, systemState_, powerVars>>

DataCallsStarted ==
    /\ runs /\ main = "calls" /\ step["main"] = "done" /\ main' = "enable"
    /\ step' = [step EXCEPT !["main"] = "idle"]
    /\ UNCHANGED <<flagVars, leg, listenVars, processVars, radioVars, modemVars, historyVars,
                   systemState_, powerVars>>

EnableSysPowerNotification ==
    /\ runs /\ main = "enable" /\ main' = "between"
    /\ UNCHANGED <<teluxVars, systemState_, powerVars>>

-----------------------------------------------------------------------------
(* The loop of main().                                                     *)

\* cv_.wait(lock) has no predicate: it may also return by itself, which changes
\* nothing unless a state is left to be handled.
Wait ==
    /\ runs
    /\ \/ main = "between" /\ main' = "waiting"
       \/ main = "waiting" /\ systemState_ # "UNKNOWN" /\ main' = "woken"
    /\ UNCHANGED <<teluxVars, systemState_, powerVars>>

\* onTcuActivityStateUpdate(): the main thread has mutex_ unless it waits or is
\* between two rounds.
OnTcuActivityStateUpdate ==
    /\ runs /\ tcu # "none" /\ main \in {"between", "waiting", "woken"}
    /\ systemState_' = tcu /\ tcu' = "none"
    /\ main' = IF main = "waiting" THEN "woken" ELSE main
    /\ Blame("missed", main = "between")
    /\ UNCHANGED <<flagVars, startVars, listenVars, processVars, radioVars, modemVars,
                   system, acked>>

\* handleSystemStateChange().  stopV2xMode() may fail; the acknowledgement
\* follows all the same.
SuspendUnstopped == main' = "acking" /\ UNCHANGED <<radioVars, historyVars>>
HandleSuspend ==
    /\ main' = "acking"
    /\ IF radio = "on" THEN StopV2xRadio ELSE UNCHANGED <<radioVars, historyVars>>

HandleSystemStateChange ==
    /\ runs /\ main = "woken"
    /\ \/ systemState_ = "SUSPEND" /\ HandleSuspend
       \/ systemState_ = "SHUTDOWN" /\ main' = "acking" /\ UNCHANGED <<radioVars, historyVars>>
       \/ systemState_ = "RESUME" /\ main' = "resume" /\ UNCHANGED <<radioVars, historyVars>>
    /\ UNCHANGED <<flagVars, startVars, listenVars, processVars, modemVars, systemState_,
                   powerVars>>

\* sendActivityStateAck(), and the round ends.
SendActivityStateAck ==
    /\ runs /\ main = "acking" /\ main' = "between" /\ systemState_' = "UNKNOWN"
    /\ acked' = (system \in {"suspending", "stopping"})
    /\ UNCHANGED <<teluxVars, system, tcu>>

\* startV2xMode() ends, when the status is refused or after startV2xRadio().
Resumed ==
    /\ runs /\ main' = "between" /\ systemState_' = "UNKNOWN"
    /\ \/ /\ main = "resumeStart" /\ UNCHANGED historyVars
          /\ \E answer \in {"started", "refused"} : Answered("main", answer)
       \/ main = "resume" /\ Refused("radioFailed", radio # "down") /\ UNCHANGED modemVars
    /\ UNCHANGED <<flagVars, startVars, listenVars, processVars, radioVars, powerVars>>

-----------------------------------------------------------------------------
(* The power of the system.                                                *)

PowerChange(to, notice) ==
    /\ main \in {"between", "waiting", "woken", "acking", "resume", "resumeStart"}
    /\ tcu = "none" /\ system' = to /\ tcu' = notice /\ acked' = FALSE
    /\ UNCHANGED <<flagVars, startVars, listenVars, registered, radioVars, modemVars, mainVars>>

Suspend ==
    /\ runs /\ system = "awake" /\ Trouble({})
    /\ PowerChange("suspending", "SUSPEND") /\ UNCHANGED runs
Resume ==
    /\ system = "asleep" /\ PowerChange("awake", "RESUME")
    /\ runs' = TRUE /\ UNCHANGED historyVars
Shutdown ==
    /\ runs /\ system = "awake" /\ Trouble({})
    /\ PowerChange("stopping", "SHUTDOWN") /\ UNCHANGED runs

\* It goes on without an acknowledgement only when none is going to come.
PowerDown ==
    /\ runs /\ (acked \/ ("missed" \in cause /\ tcu = "none"))
    /\ \/ system = "suspending" /\ system' = "asleep"
       \/ system = "stopping" /\ system' = "off"
    /\ runs' = FALSE
    /\ UNCHANGED <<flagVars, startVars, listenVars, registered, radioVars, modemVars, historyVars,
                   mainVars, tcu, acked>>

-----------------------------------------------------------------------------

MainThread ==
    \/ RegisterListeners \/ StartV2xMode \/ V2xModeStarted \/ DataReady \/ DataCallsStarted
    \/ EnableSysPowerNotification \/ HandleSystemStateChange \/ SendActivityStateAck
    \/ Resumed \/ BootFails

Next ==
    \/ TeluxNext /\ UNCHANGED <<mainVars, powerVars>>
    \/ MainThread \/ Wait \/ OnTcuActivityStateUpdate \/ TerminationHandler \/ OnForeignInfo
    \/ Suspend \/ Resume \/ Shutdown \/ PowerDown

\* The steps of each thread.  The IP call is started by a task of its own, which
\* neither waits for the thread nor makes it wait before the end of both.
StarterThread(t) ==
    FindProfiles(t) \/ Join(t) \/ SetInitializationDone(t) \/ \E k \in Kind : Leg(t, k)
RadioThread == RadioListener \/ StarterThread("radio")
DataThread == DataServiceAvailable \/ RadioBack \/ StarterThread("data")
NewsThread == InitDataLibrary \/ \E k \in Kind : OnDataCallInfoChanged(k)
Modem == \/ RadioRecovers \/ DataRecovers
         \/ \E k \in Kind : Connect(k)
         \/ \E t \in Asker : ServeStart(t)
Quiet == UNCHANGED <<mainVars, powerVars>>

\* Every thread of the process goes on, callbacks are delivered, the modem comes
\* back and a call that connects gets somewhere.
Fairness ==
    /\ WF_vars(MainThread \/ (StarterThread("main") /\ Quiet))
    /\ WF_vars(RadioThread /\ Quiet) /\ WF_vars(DataThread /\ Quiet)
    /\ WF_vars(NewsThread /\ Quiet) /\ WF_vars(Modem /\ Quiet)
    /\ WF_vars(OnTcuActivityStateUpdate)

Spec == Init /\ [][Next]_vars /\ Fairness

-----------------------------------------------------------------------------
(* Properties.                                                             *)

\* The state keeps its type.
TypeOK ==
    /\ cv2xStatus_ \in {"UNKNOWN", "INACTIVE", "ACTIVE"}
    /\ {isInitializationDone_, isPostSSRV2XDone_, dcInfo, awaiting} \subseteq BOOLEAN
    /\ {dataUp, available, acked, runs, registered} \subseteq BOOLEAN
    /\ dataLib \in {"none", "ready", "failed"}
    /\ callStatus \in [Kind -> Status]
    /\ systemState_ \in {"UNKNOWN", "SUSPEND", "RESUME", "SHUTDOWN"}
    /\ main \in MainStep
    /\ step \in [Starter -> Step] /\ leg \in [Starter -> [Kind -> LegStep]]
    /\ radio \in {"off", "on", "down"}
    /\ request \in [Asker -> Request]
    /\ notices \in Seq({"down", "up", "INACTIVE", "ACTIVE"})
    /\ call \in [Kind -> {"none", "connecting", "up"}]
    /\ info \in [Kind -> Seq(Status)]
    /\ system \in {"awake", "suspending", "asleep", "stopping", "off"}
    /\ tcu \in {"none", "SUSPEND", "RESUME", "SHUTDOWN"}
    /\ troubles \in 0 .. MaxTrouble /\ cause \subseteq Cause

Starting == {t \in Starter : step[t] \notin {"idle", "done", "failed"}}

\* Two threads never start the data calls at once, unless the modem restarted:
\* the status changes that booting itself brings about start nothing.
OneStarter == "ssr" \notin cause => Cardinality(Starting) <= 1

\* A system that sleeps with the daemon's acknowledgement, and one the daemon has
\* left, has its radio off, unless the radio refused a command, the modem came
\* back in between, or the daemon left while a start was still to be served.
SleepsQuiet ==
    (system = "asleep" /\ acked) \/ main = "exit"
        => radio # "on" \/ cause \cap {"ssr", "radioFailed", "late"} # {}

\* Whoever waits for a data call has news to come, of this call or the other,
\* unless the news came before the wait or was not to come.
NewsToCome ==
    (\E t \in Starter, k \in Kind : leg[t][k] = "waiting")
        => (\E k \in Kind : info[k] # <<>> \/ call[k] = "connecting") \/ "noNews" \in cause

\* A radio that stays on gets its data calls, at boot, after a resume and after a
\* restart of the modem, unless a start was refused, the status changed just when
\* the calls were left to it, or the thread to start them waits for lost news.
CallsUp ==
    radio = "on" ~> \/ \A k \in Kind : call[k] = "up"
                    \/ radio # "on" \/ ~runs \/ cause \cap {"noCall", "noNews"} # {}

\* A suspend that was notified and is not acknowledged is in the main thread's
\* hands, unless the notice came while that thread was between two rounds.
SuspendInHand ==
    system = "suspending" /\ tcu = "none" /\ runs
        => acked \/ main \in {"woken", "acking"} \/ "missed" \in cause

\* A suspend is handled, and only with the radio off.
SuspendHandled == SuspendInHand /\ SleepsQuiet

\* The data calls are started by one thread, and whoever starts them is woken.
StartsSound == TypeOK /\ OneStarter /\ NewsToCome
=============================================================================
