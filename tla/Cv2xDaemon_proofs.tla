-------------------------- MODULE Cv2xDaemon_proofs --------------------------
(***************************************************************************)
(* Proofs about Cv2xDaemon and the Cv2xTelux it is composed with, for      *)
(* every bound on the accidents of the radio: that the data calls are      *)
(* started by one thread at a time until the modem restarts and whoever    *)
(* waits for a call has news to come, and that a suspend is acknowledged   *)
(* with the radio off, or for a cause the history names.                   *)
(***************************************************************************)
EXTENDS Cv2xDaemon, SequenceTheorems, FiniteSetTheorems, TLAPS

\* What the queues hold: the radio's notices, of which some leave it at rest, and
\* the news of a data call.
Notice == {"down", "up", "INACTIVE", "ACTIVE"}
Quieter == {"INACTIVE", "ACTIVE"}
News == {"CONNECTED", "NO_NET"}

\* What a queue of notices or of news may become.
LEMMA QueueOf ==
    ASSUME NEW S, NEW q \in Seq(S)
    PROVE  /\ <<>> \in Seq(S)
           /\ q # <<>> => Head(q) \in S /\ Tail(q) \in Seq(S)
           /\ \A x \in S : /\ Append(q, x) \in Seq(S) /\ Append(q, x) # <<>>
                           /\ <<x>> \in Seq(S) /\ q \o <<x>> \in Seq(S)
           /\ q \o <<>> \in Seq(S)
           /\ \A x, y \in S : q \o <<x, y>> \in Seq(S)
<1>1. <<>> \in Seq(S)
  OBVIOUS
<1>5. ASSUME NEW x \in S
      PROVE  <<x>> \in Seq(S) /\ Append(q, x) \in Seq(S) /\ Append(q, x) # <<>>
  <2>1. <<x>> \in Seq(S)
    OBVIOUS
  <2>2. Append(q, x) \in Seq(S) /\ Len(Append(q, x)) = Len(q) + 1 /\ Len(q) \in Nat
    BY AppendProperties
  <2> QED
    BY <2>1, <2>2
<1>2. \A x, y \in S : <<x, y>> \in Seq(S)
  OBVIOUS
<1>3. \A r \in Seq(S) : q \o r \in Seq(S)
  OBVIOUS
<1>4. q # <<>> => Head(q) \in S /\ Tail(q) \in Seq(S)
  OBVIOUS
<1> QED
  BY <1>1, <1>2, <1>3, <1>4, <1>5

-----------------------------------------------------------------------------
(* What a step of the radio does.                                          *)

\* The history only grows, within its types.
LEMMA Histories ==
    ASSUME TypeOK
    PROVE  /\ \A c \in Cause : \A when : Blame(c, when) =>
                /\ troubles' \in 0 .. MaxTrouble /\ cause' \subseteq Cause /\ cause \subseteq cause'
                /\ when => c \in cause'
           /\ \A n \in {0, 1, 2}, c \in SUBSET Cause : Troubles(n, c) =>
                /\ troubles' \in 0 .. MaxTrouble /\ cause' \subseteq Cause /\ cause \subseteq cause'
                /\ c \subseteq cause'
           /\ \A c \in Cause : \A served : Refused(c, served) =>
                /\ troubles' \in 0 .. MaxTrouble /\ cause' \subseteq Cause /\ cause \subseteq cause'
                /\ c \in cause'
           /\ UNCHANGED historyVars =>
                /\ troubles' \in 0 .. MaxTrouble /\ cause' \subseteq Cause /\ cause \subseteq cause'
<1>1. troubles \in 0 .. MaxTrouble /\ cause \subseteq Cause
  BY DEF TypeOK
<1>2. ASSUME NEW c \in Cause, NEW when, Blame(c, when)
      PROVE  /\ troubles' \in 0 .. MaxTrouble /\ cause' \subseteq Cause /\ cause \subseteq cause'
             /\ when => c \in cause'
  BY <1>1, <1>2 DEF Blame
<1>3. ASSUME NEW n \in {0, 1, 2}, NEW c \in SUBSET Cause, Troubles(n, c)
      PROVE  /\ troubles' \in 0 .. MaxTrouble /\ cause' \subseteq Cause /\ cause \subseteq cause'
             /\ c \subseteq cause'
  BY <1>1, <1>3, TroubleAssumption DEF Troubles
<1>4. ASSUME NEW c \in Cause, NEW served, Refused(c, served)
      PROVE  /\ troubles' \in 0 .. MaxTrouble /\ cause' \subseteq Cause /\ cause \subseteq cause'
             /\ c \in cause'
  <2>1. Troubles(1, {c}) \/ Blame(c, TRUE)
    BY <1>4 DEF Refused, Trouble
  <2>2. {c} \in SUBSET Cause
    OBVIOUS
  <2> QED
    BY <1>2, <1>3, <2>1, <2>2
<1>5. UNCHANGED historyVars =>
        troubles' \in 0 .. MaxTrouble /\ cause' \subseteq Cause /\ cause \subseteq cause'
  BY <1>1 DEF historyVars
<1> QED
  BY <1>2, <1>3, <1>4, <1>5

Blamable == "ssr" \in Cause /\ "radioFailed" \in Cause /\ "noCall" \in Cause
            /\ "noNews" \in Cause /\ "missed" \in Cause /\ "late" \in Cause
\* The causes of a failed radio and a missing call are among those named.
LEMMA AllBlamable == Blamable
  BY DEF Blamable, Cause

\* The type of what a start or a stop of the radio may change.
RadioTypes ==
    /\ radio \in {"off", "on", "down"} /\ notices \in Seq(Notice)
    /\ call \in [Kind -> {"none", "connecting", "up"}] /\ info \in [Kind -> Seq(News)]
    /\ troubles \in 0 .. MaxTrouble /\ cause \subseteq Cause

\* Starting the radio, when the modem serves the request ...
LEMMA RadioServed ==
    ASSUME TypeOK, info \in [Kind -> Seq(News)], NEW t \in Asker, ServeStart(t)
    PROVE  /\ RadioTypes' /\ UNCHANGED <<call, info>> /\ cause \subseteq cause'
           /\ radio # "down" => radio' # "down"
           /\ notices \in Seq(Quieter) => notices' \in Seq(Quieter)
           /\ radio' = radio \/ radio' = "on"
           /\ radio' = radio \/ request'[t] = "started"
           /\ \E answer \in {"started", "refused"} : request' = [request EXCEPT ![t] = answer]
<1>1. RadioTypes
  BY DEF TypeOK, RadioTypes, Notice
<1>2. request \in [Asker -> Request]
  BY DEF TypeOK
<1>3. CASE /\ radio # "down" /\ radio' = "on"
           /\ request' = [request EXCEPT ![t] = "started"]
           /\ Tell(notices, IF radio = "off" THEN <<"ACTIVE">> ELSE <<>>)
           /\ UNCHANGED historyVars
  <2>1. UNCHANGED <<call, info, troubles, cause>> /\ request'[t] = "started"
    BY <1>2, <1>3 DEF ServeStart, historyVars
  <2>2. notices' \in {notices, notices \o <<"ACTIVE">>, notices \o <<>>}
    BY <1>3 DEF Tell
  <2>3. notices' \in Seq(Notice)
    BY <1>1, <2>2, QueueOf DEF Notice, RadioTypes
  <2>4. notices \in Seq(Quieter) => notices' \in Seq(Quieter)
    BY <2>2, QueueOf DEF Quieter
  <2> QED
    BY <1>1, <1>3, <2>1, <2>3, <2>4 DEF RadioTypes
<1>4. CASE /\ Refused("radioFailed", radio # "down")
           /\ request' = [request EXCEPT ![t] = "refused"]
           /\ UNCHANGED <<radio, notices>>
  <2>1. UNCHANGED <<call, info>>
    BY DEF ServeStart
  <2>2. troubles' \in 0 .. MaxTrouble /\ cause' \subseteq Cause /\ cause \subseteq cause'
    BY <1>4, Histories, AllBlamable DEF Blamable
  <2> QED
    BY <1>1, <1>4, <2>1, <2>2 DEF RadioTypes
<1> QED
  BY <1>3, <1>4 DEF ServeStart

\* What is not informed of a call is told when the call is lost.
LEMMA LostNews ==
    ASSUME TypeOK, info \in [Kind -> Seq(News)]
    PROVE  /\ [k \in Kind |-> Lost(k)] \in [Kind -> Seq(News)]
           /\ \A k \in Kind : info[k] # <<>> \/ call[k] = "connecting" => Lost(k) # <<>>
<1> SUFFICES ASSUME NEW k \in Kind
             PROVE  /\ Lost(k) \in Seq(News)
                    /\ info[k] # <<>> \/ call[k] = "connecting" => Lost(k) # <<>>
  OBVIOUS
<1>1. info[k] \in Seq(News) /\ "NO_NET" \in News
  BY DEF News
<1>2. Append(info[k], "NO_NET") \in Seq(News) /\ Append(info[k], "NO_NET") # <<>>
  BY <1>1, QueueOf
<1> QED
  BY <1>1, <1>2 DEF Lost

\* ... and stopping it.
LEMMA RadioStopped ==
    ASSUME TypeOK, info \in [Kind -> Seq(News)], StopV2xRadio, radio # "down"
    PROVE  /\ RadioTypes' /\ cause \subseteq cause' /\ radio' # "down"
           /\ radio' # "on" \/ "radioFailed" \in cause'
           /\ \A k \in Kind : info[k] # <<>> \/ call[k] = "connecting"
                                => info'[k] # <<>> \/ call'[k] = "connecting"
           /\ notices \in Seq(Quieter) => notices' \in Seq(Quieter)
<1>1. RadioTypes
  BY DEF TypeOK, RadioTypes, Notice
<1>2. CASE /\ radio' = "off" /\ Tell(notices, <<"INACTIVE">>)
           /\ info' = [k \in Kind |-> Lost(k)] /\ call' = [k \in Kind |-> "none"]
           /\ UNCHANGED historyVars
  <2>1. notices' \in {notices, notices \o <<"INACTIVE">>}
    BY <1>2 DEF Tell
  <2>2. notices' \in Seq(Notice)
    BY <1>1, <2>1, QueueOf DEF RadioTypes, Notice
  <2>3. notices \in Seq(Quieter) => notices' \in Seq(Quieter)
    BY <2>1, QueueOf DEF Quieter
  <2>4. /\ info' \in [Kind -> Seq(News)]
        /\ \A k \in Kind : info[k] # <<>> \/ call[k] = "connecting" => info'[k] # <<>>
    BY <1>2, LostNews
  <2> QED
    BY <1>1, <1>2, <2>2, <2>3, <2>4 DEF RadioTypes, historyVars
<1>3. CASE Trouble({"radioFailed"}) /\ UNCHANGED radioVars
  <2>1. Troubles(1, {"radioFailed"}) /\ {"radioFailed"} \in SUBSET Cause
    BY <1>3 DEF Trouble, Cause
  <2>2. /\ troubles' \in 0 .. MaxTrouble /\ cause' \subseteq Cause /\ cause \subseteq cause'
        /\ "radioFailed" \in cause'
    BY <2>1, Histories
  <2> QED
    BY <1>1, <1>3, <2>2 DEF RadioTypes, radioVars
<1> QED
  BY <1>2, <1>3 DEF StopV2xRadio

-----------------------------------------------------------------------------
(* Types.                                                                  *)

FlagTypes ==
    /\ cv2xStatus_ \in {"UNKNOWN", "INACTIVE", "ACTIVE"}
    /\ isInitializationDone_ \in BOOLEAN /\ isPostSSRV2XDone_ \in BOOLEAN /\ dcInfo \in BOOLEAN
ListenTypes ==
    dataLib \in {"none", "ready", "failed"} /\ callStatus \in [Kind -> Status] /\ awaiting \in BOOLEAN
StartTypes == step \in [Starter -> Step] /\ leg \in [Starter -> [Kind -> LegStep]]
ModemTypes == dataUp \in BOOLEAN /\ available \in BOOLEAN /\ request \in [Asker -> Request]
MainTypes ==
    /\ runs \in BOOLEAN /\ registered \in BOOLEAN /\ acked \in BOOLEAN
    /\ systemState_ \in {"UNKNOWN", "SUSPEND", "RESUME", "SHUTDOWN"} /\ main \in MainStep
    /\ system \in {"awake", "suspending", "asleep", "stopping", "off"}
    /\ tcu \in {"none", "SUSPEND", "RESUME", "SHUTDOWN"}

\* The news are those of a call that came up or was lost.
CvTypes == TypeOK /\ info \in [Kind -> Seq(News)]

\* The types, taken apart by what the steps change, ...
LEMMA TypesByPart ==
    CvTypes <=> FlagTypes /\ ListenTypes /\ StartTypes /\ ModemTypes /\ MainTypes /\ RadioTypes
<1>1. ASSUME RadioTypes PROVE info \in [Kind -> Seq(Status)]
  <2>1. Seq(News) \subseteq Seq(Status)
    BY DEF News, Status
  <2> QED
    BY <1>1, <2>1 DEF RadioTypes
<1>2. FlagTypes /\ ListenTypes /\ StartTypes /\ ModemTypes /\ MainTypes /\ RadioTypes => CvTypes
  BY <1>1 DEF CvTypes, TypeOK, FlagTypes, ListenTypes, StartTypes, ModemTypes, MainTypes, RadioTypes, Notice
<1>3. CvTypes => FlagTypes /\ ListenTypes /\ StartTypes /\ ModemTypes /\ MainTypes /\ RadioTypes
  BY DEF CvTypes, TypeOK, FlagTypes, ListenTypes, StartTypes, ModemTypes, MainTypes, RadioTypes, Notice
<1> QED
  BY <1>2, <1>3

\* ... put together again after a step, ...
LEMMA TypesByPartNext ==
    (FlagTypes /\ ListenTypes /\ StartTypes /\ ModemTypes /\ MainTypes /\ RadioTypes)' => CvTypes'
  BY TypesByPart, PTL

\* ... and kept by a step that leaves a part alone.
LEMMA PartsStay ==
    /\ FlagTypes /\ UNCHANGED flagVars => FlagTypes'
    /\ ListenTypes /\ UNCHANGED listenVars => ListenTypes'
    /\ StartTypes /\ UNCHANGED startVars => StartTypes'
    /\ ModemTypes /\ UNCHANGED modemVars => ModemTypes'
    /\ MainTypes /\ UNCHANGED <<processVars, mainVars, powerVars>> => MainTypes'
    /\ RadioTypes /\ UNCHANGED <<radioVars, historyVars>> => RadioTypes'
<1>1. FlagTypes /\ UNCHANGED flagVars => FlagTypes'
  BY DEF FlagTypes, flagVars
<1>2. ListenTypes /\ UNCHANGED listenVars => ListenTypes'
  BY DEF ListenTypes, listenVars
<1>3. StartTypes /\ UNCHANGED startVars => StartTypes'
  BY DEF StartTypes, startVars
<1>4. ModemTypes /\ UNCHANGED modemVars => ModemTypes'
  BY DEF ModemTypes, modemVars
<1>5. MainTypes /\ UNCHANGED <<processVars, mainVars, powerVars>> => MainTypes'
  BY DEF MainTypes, processVars, mainVars, powerVars
<1>6. RadioTypes /\ UNCHANGED <<radioVars, historyVars>> => RadioTypes'
  BY DEF RadioTypes, radioVars, historyVars
<1> QED
  BY <1>1, <1>2, <1>3, <1>4, <1>5, <1>6

\* The types are kept by the steps of each thread, one lemma for each.
LEMMA HistoryTypes ==
    ASSUME CvTypes, UNCHANGED radioVars,
           \/ UNCHANGED historyVars
           \/ \E c \in Cause : \/ \E when : Blame(c, when)
                               \/ \E served : Refused(c, served)
                               \/ Trouble({c})
           \/ Trouble({})
    PROVE  RadioTypes'
<1>1. /\ radio \in {"off", "on", "down"} /\ notices \in Seq(Notice)
      /\ call \in [Kind -> {"none", "connecting", "up"}] /\ info \in [Kind -> Seq(News)]
  BY DEF CvTypes, TypeOK, Notice
<1>2. troubles' \in 0 .. MaxTrouble /\ cause' \subseteq Cause
  <2>1. TypeOK /\ \A c \in Cause : {c} \in SUBSET Cause
    BY DEF CvTypes
  <2>2. CASE \E c \in Cause : Trouble({c})
    BY <2>1, <2>2, Histories DEF Trouble
  <2>3. CASE Trouble({})
    BY <2>1, <2>3, Histories DEF Trouble
  <2>4. CASE \E c \in Cause : \E when : Blame(c, when)
    BY <2>1, <2>4, Histories
  <2>5. CASE \E c \in Cause : \E served : Refused(c, served)
    BY <2>1, <2>5, Histories
  <2>6. CASE UNCHANGED historyVars
    BY <2>1, <2>6, Histories
  <2> QED
    BY <2>2, <2>3, <2>4, <2>5, <2>6
<1> QED
  BY <1>1, <1>2 DEF RadioTypes, radioVars

\* A thread that starts the data calls keeps the types.
LEMMA StarterTypes ==
    ASSUME CvTypes, NEW t \in Starter,
           FindProfilesFails(t) \/ FindProfiles(t) \/ Join(t) \/ SetInitializationDone(t)
    PROVE  (FlagTypes /\ ListenTypes /\ StartTypes /\ ModemTypes /\ RadioTypes)'
<1>1. FlagTypes /\ ListenTypes /\ StartTypes /\ ModemTypes /\ RadioTypes
  BY TypesByPart
<1>2. StartTypes'
  <2>1. \A r \in Step : Ends(t, r) => StartTypes'
    BY <1>1 DEF Ends, StartTypes, Step, NoLegs, LegStep
  <2>2. CASE FindProfiles(t)
    BY <1>1, <2>2 DEF FindProfiles, StartTypes, Step, LegStep, startVars
  <2>3. CASE Join(t)
    BY <1>1, <2>1, <2>3 DEF Join, StartTypes, Step
  <2>4. CASE FindProfilesFails(t) \/ SetInitializationDone(t)
    BY <2>1, <2>4 DEF FindProfilesFails, SetInitializationDone, Step
  <2> QED
    BY <2>2, <2>3, <2>4
<1>3. FlagTypes' /\ ListenTypes' /\ ModemTypes'
  BY <1>1, PartsStay DEF FindProfilesFails, FindProfiles, Join, SetInitializationDone, FlagTypes
<1>4. RadioTypes'
  BY HistoryTypes DEF FindProfilesFails, FindProfiles, Join, SetInitializationDone, Cause
<1> QED
  BY <1>2, <1>3, <1>4

\* So does each leg of such a start, for its call.
LEMMA LegTypes ==
    ASSUME CvTypes, NEW t \in Starter, NEW k \in Kind, Leg(t, k)
    PROVE  (FlagTypes /\ ListenTypes /\ StartTypes /\ ModemTypes /\ RadioTypes)'
<1>1. FlagTypes /\ ListenTypes /\ StartTypes /\ ModemTypes /\ RadioTypes
  BY TypesByPart
<1>2. FlagTypes' /\ ListenTypes' /\ ModemTypes'
  BY <1>1, PartsStay DEF Leg, StartDataCall, WaitDataCallConnect
<1>3. StartTypes'
  <2>1. step' = step /\ \E l \in LegStep : leg' = [leg EXCEPT ![t][k] = l]
    BY DEF Leg, StartDataCall, WaitDataCallConnect, LegStep, startVars
  <2> QED
    BY <1>1, <2>1 DEF StartTypes
<1>4. RadioTypes'
  <2>1. CASE UNCHANGED call
    <3>1. UNCHANGED radioVars
      BY <2>1 DEF Leg, StartDataCall, WaitDataCallConnect, radioVars
    <3>2. UNCHANGED historyVars \/ (\E when : Blame("noNews", when)) \/ \E served : Refused("noCall", served)
      BY DEF Leg, StartDataCall, WaitDataCallConnect
    <3> QED
      BY <3>1, <3>2, HistoryTypes, AllBlamable DEF Blamable
  <2>2. CASE call' = [call EXCEPT ![k] = IF @ = "none" THEN "connecting" ELSE @]
             /\ Blame("noNews", call[k] = "up") /\ UNCHANGED <<radio, notices, info>>
    <3>1. troubles' \in 0 .. MaxTrouble /\ cause' \subseteq Cause
      BY <2>2, Histories, AllBlamable DEF Blamable, CvTypes
    <3>2. call' \in [Kind -> {"none", "connecting", "up"}]
      BY <1>1, <2>2 DEF RadioTypes
    <3> QED
      BY <1>1, <2>2, <3>1, <3>2 DEF RadioTypes
  <2> QED
    BY <2>1, <2>2 DEF Leg, StartDataCall, WaitDataCallConnect, radioVars
<1> QED
  BY <1>2, <1>3, <1>4

\* So do the callbacks of the radio's listener.
LEMMA RadioListenerTypes ==
    ASSUME CvTypes, RadioListener
    PROVE  (FlagTypes /\ ListenTypes /\ StartTypes /\ ModemTypes /\ RadioTypes)'
<1>1. FlagTypes /\ ListenTypes /\ StartTypes /\ ModemTypes /\ RadioTypes
  BY TypesByPart
<1>2. notices # <<>> => Tail(notices) \in Seq(Notice)
  BY <1>1, QueueOf DEF RadioTypes
<1>3. ListenTypes' /\ (OnStatusChanged \/ OnServiceUnavailable => ModemTypes')
  BY <1>1, PartsStay DEF RadioListener, OnStatusChanged, OnServiceUnavailable, OnServiceAvailable
<1>4. CASE OnStatusChanged
  <2>1. FlagTypes'
    BY <1>1, <1>4 DEF OnStatusChanged, FlagTypes, Begin
  <2>2. StartTypes'
    BY <1>1, <1>4 DEF OnStatusChanged, StartTypes, Begin, Starter, Step
  <2>3. \E when : Blame("noCall", when)
    BY <1>4 DEF OnStatusChanged
  <2>4. troubles' \in 0 .. MaxTrouble /\ cause' \subseteq Cause
    BY <2>3, Histories, AllBlamable DEF Blamable, CvTypes
  <2>5. RadioTypes'
    BY <1>1, <1>2, <1>4, <2>4 DEF OnStatusChanged, RadioTurn, RadioTypes
  <2> QED
    BY <1>3, <1>4, <2>1, <2>2, <2>5
<1>5. CASE OnServiceUnavailable
  <2>1. FlagTypes' /\ StartTypes'
    BY <1>1, <1>5, PartsStay DEF OnServiceUnavailable, FlagTypes
  <2>2. RadioTypes'
    BY <1>1, <1>2, <1>5 DEF OnServiceUnavailable, RadioTurn, RadioTypes, historyVars
  <2> QED
    BY <1>3, <1>5, <2>1, <2>2
<1>6. CASE OnServiceAvailable
  <2>1. FlagTypes' /\ StartTypes'
    BY <1>1, <1>6, PartsStay DEF OnServiceAvailable
  <2>2. RadioTypes'
    BY <1>1, <1>2, <1>6 DEF OnServiceAvailable, RadioTurn, RadioTypes, historyVars
  <2>3. ModemTypes'
    BY <1>1, <1>6 DEF OnServiceAvailable, StartV2xRadio, Answered, ModemTypes, Request
  <2> QED
    BY <1>3, <2>1, <2>2, <2>3
<1> QED
  BY <1>4, <1>5, <1>6 DEF RadioListener

\* So do the callbacks of the data listener.
LEMMA DataListenerTypes ==
    ASSUME CvTypes,
           \/ InitDataLibrary \/ DataServiceAvailable \/ RadioBack
           \/ \E k \in Kind : OnDataCallInfoChanged(k)
    PROVE  (FlagTypes /\ ListenTypes /\ StartTypes /\ ModemTypes /\ RadioTypes)'
<1>1. FlagTypes /\ ListenTypes /\ StartTypes /\ ModemTypes /\ RadioTypes
  BY TypesByPart
<1>2. CASE InitDataLibrary
  BY <1>1, <1>2, PartsStay DEF InitDataLibrary, ListenTypes
<1>3. CASE DataServiceAvailable
  <2>1. ListenTypes'
    BY <1>1, <1>3 DEF DataServiceAvailable, ListenTypes, StatusAfterSsr, Status
  <2>2. ModemTypes'
    BY <1>1, <1>3 DEF DataServiceAvailable, ModemTypes
  <2> QED
    BY <1>1, <1>3, <2>1, <2>2, PartsStay DEF DataServiceAvailable
<1>4. CASE RadioBack
  <2>1. FlagTypes' /\ ListenTypes'
    BY <1>1, <1>4 DEF RadioBack, FlagTypes, ListenTypes, Begin
  <2>2. StartTypes'
    BY <1>1, <1>4 DEF RadioBack, StartTypes, Begin, Starter, Step
  <2> QED
    BY <1>1, <1>4, <2>1, <2>2, PartsStay DEF RadioBack
<1>5. ASSUME NEW k \in Kind, OnDataCallInfoChanged(k)
      PROVE  (FlagTypes /\ ListenTypes /\ StartTypes /\ ModemTypes /\ RadioTypes)'
  <2>1. info[k] \in Seq(News) /\ info[k] # <<>>
    BY <1>1, <1>5 DEF OnDataCallInfoChanged, RadioTypes
  <2>2. Head(info[k]) \in News /\ Tail(info[k]) \in Seq(News)
    BY <2>1, QueueOf
  <2>3. ListenTypes'
    BY <1>1, <1>5, <2>2 DEF OnDataCallInfoChanged, ListenTypes, Status, News
  <2>4. StartTypes'
    <3>1. \A s \in Status : AfterWake(s) \in LegStep
      BY DEF AfterWake, LegStep, Status
    <3>2. \A j \in Kind : callStatus'[j] \in Status
      BY <2>3 DEF ListenTypes
    <3> QED
      BY <1>1, <1>5, <3>1, <3>2 DEF OnDataCallInfoChanged, StartTypes
  <2>5. troubles' \in 0 .. MaxTrouble /\ cause' \subseteq Cause
    BY <1>5, Histories, AllBlamable DEF OnDataCallInfoChanged, Blamable, CvTypes
  <2>6. RadioTypes'
    BY <1>1, <1>5, <2>2, <2>5 DEF OnDataCallInfoChanged, RadioTypes
  <2> QED
    BY <1>1, <1>5, <2>3, <2>4, <2>6, PartsStay DEF OnDataCallInfoChanged
<1> QED
  BY <1>2, <1>3, <1>4, <1>5

\* So does the modem: its restarts, and calls that come up or are lost.
LEMMA ModemStepTypes ==
    ASSUME CvTypes,
           \/ ModemFails \/ RadioRecovers \/ DataRecovers
           \/ (\E k \in Kind : Connect(k)) \/ \E t \in Asker : ServeStart(t)
    PROVE  (FlagTypes /\ ListenTypes /\ StartTypes /\ ModemTypes /\ RadioTypes)'
<1>1. FlagTypes /\ ListenTypes /\ StartTypes /\ ModemTypes /\ RadioTypes /\ TypeOK
      /\ notices \in Seq(Notice) /\ info \in [Kind -> Seq(News)]
  BY TypesByPart DEF CvTypes, RadioTypes
<1>2. CASE ModemFails
  <2>1. notices' \in Seq(Notice)
    BY <1>1, <1>2, QueueOf DEF ModemFails, Tell, Notice
  <2>2. troubles' \in 0 .. MaxTrouble /\ cause' \subseteq Cause
    <3>1. {"ssr"} \in SUBSET Cause
      BY DEF Cause
    <3> QED
      BY <1>1, <1>2, <3>1, Histories DEF ModemFails
  <2>3. info' \in [Kind -> Seq(News)]
    BY <1>1, <1>2, LostNews DEF ModemFails
  <2>4. RadioTypes'
    BY <1>2, <2>1, <2>2, <2>3 DEF ModemFails, RadioTypes
  <2>5. ModemTypes'
    BY <1>1, <1>2 DEF ModemFails, ModemTypes
  <2> QED
    BY <1>1, <1>2, <2>4, <2>5, PartsStay DEF ModemFails
<1>3. CASE RadioRecovers
  <2>1. notices' \in Seq(Notice)
    BY <1>1, <1>3, QueueOf DEF RadioRecovers, Tell, Notice
  <2>2. RadioTypes'
    BY <1>1, <1>3, <2>1 DEF RadioRecovers, RadioTypes, historyVars
  <2> QED
    BY <1>1, <1>3, <2>2, PartsStay DEF RadioRecovers
<1>4. CASE DataRecovers
  <2>1. ModemTypes'
    BY <1>1, <1>4 DEF DataRecovers, ModemTypes
  <2> QED
    BY <1>1, <1>4, <2>1, PartsStay DEF DataRecovers
<1>5. ASSUME NEW k \in Kind, Connect(k)
      PROVE  (FlagTypes /\ ListenTypes /\ StartTypes /\ ModemTypes /\ RadioTypes)'
  <2>1. call' \in [Kind -> {"none", "connecting", "up"}]
    BY <1>1, <1>5 DEF Connect, RadioTypes
  <2>2. info' \in [Kind -> Seq(News)]
    <3>1. \A x \in News : Append(info[k], x) \in Seq(News)
      BY <1>1, QueueOf
    <3> QED
      BY <1>1, <1>5, <3>1 DEF Connect, News
  <2>3. troubles' \in 0 .. MaxTrouble /\ cause' \subseteq Cause
    <3>1. {"noCall"} \in SUBSET Cause
      BY DEF Cause
    <3> QED
      BY <1>1, <1>5, <3>1, Histories DEF Connect, Trouble
  <2>4. RadioTypes'
    BY <1>1, <1>5, <2>1, <2>2, <2>3 DEF Connect, RadioTypes
  <2> QED
    BY <1>1, <1>5, <2>4, PartsStay DEF Connect
<1>6. ASSUME NEW t \in Asker, ServeStart(t)
      PROVE  (FlagTypes /\ ListenTypes /\ StartTypes /\ ModemTypes /\ RadioTypes)'
  <2>1. RadioTypes' /\ \E answer \in {"started", "refused"} : request' = [request EXCEPT ![t] = answer]
    BY <1>1, <1>6, RadioServed
  <2>2. UNCHANGED <<flagVars, listenVars, startVars, dataUp, available>>
    BY <1>6 DEF ServeStart
  <2>3. ModemTypes'
    BY <1>1, <2>1, <2>2 DEF ModemTypes, Request
  <2> QED
    BY <1>1, <2>1, <2>2, <2>3, PartsStay
<1> QED
  BY <1>2, <1>3, <1>4, <1>5, <1>6

\* No step of Cv2xTelux ends the process.
LEMMA TeluxRuns ==
    ASSUME TeluxNext
    PROVE  UNCHANGED processVars
<1>1. CASE \E t \in Starter : FindProfilesFails(t) \/ FindProfiles(t) \/ Join(t)
                              \/ SetInitializationDone(t)
  BY <1>1 DEF FindProfilesFails, FindProfiles, Join, SetInitializationDone
<1>2. CASE \E t \in Starter, k \in Kind : Leg(t, k)
  BY <1>2 DEF Leg, StartDataCall, WaitDataCallConnect
<1>3. CASE RadioListener \/ InitDataLibrary \/ DataServiceAvailable \/ RadioBack
  BY <1>3 DEF RadioListener, OnStatusChanged, OnServiceUnavailable, OnServiceAvailable, RadioTurn,
     InitDataLibrary, DataServiceAvailable, RadioBack
<1>4. CASE (\E k \in Kind : OnDataCallInfoChanged(k) \/ Connect(k))
           \/ ModemFails \/ RadioRecovers \/ DataRecovers \/ \E t \in Asker : ServeStart(t)
  BY <1>4 DEF OnDataCallInfoChanged, Connect, ModemFails, RadioRecovers, DataRecovers, ServeStart
<1> QED
  BY <1>1, <1>2, <1>3, <1>4 DEF TeluxNext

\* All steps of Cv2xTelux together.
LEMMA TeluxTypes ==
    ASSUME CvTypes, TeluxNext, UNCHANGED <<mainVars, powerVars>>
    PROVE  CvTypes'
<1>1. MainTypes'
  BY TeluxRuns, TypesByPart, PartsStay
<1>2. (FlagTypes /\ ListenTypes /\ StartTypes /\ ModemTypes /\ RadioTypes)'
  BY StarterTypes, LegTypes, RadioListenerTypes, DataListenerTypes, ModemStepTypes DEF TeluxNext
<1> QED
  BY <1>1, <1>2, TypesByPartNext

\* The process ends.
LEMMA GoneTypes ==
    ASSUME CvTypes, NEW as \in {"exit", "crashed"}, Gone(as),
           DeInit \/ (Troubles(0, Late) /\ UNCHANGED <<radio, call>>)
    PROVE  CvTypes'
<1>1. FlagTypes /\ ListenTypes /\ StartTypes /\ ModemTypes /\ MainTypes /\ RadioTypes
  BY TypesByPart
<1>2. FlagTypes' /\ ListenTypes' /\ StartTypes' /\ ModemTypes'
  BY <1>1 DEF Gone, FlagTypes, ListenTypes, StartTypes, ModemTypes, NoLegs, Status, Step, LegStep
<1>3. MainTypes'
  BY <1>1 DEF Gone, MainTypes, MainStep, powerVars
<1>4. RadioTypes'
  <2>1. \A S : <<>> \in Seq(S)
    OBVIOUS
  <2>2. notices' \in Seq(Notice) /\ info' \in [Kind -> Seq(News)]
    BY <2>1 DEF Gone
  <2>3. /\ radio' \in {"off", "on", "down"}
        /\ call' \in [Kind -> {"none", "connecting", "up"}]
    BY <1>1 DEF DeInit, RadioTypes
  <2>4. Troubles(0, Late) \/ Troubles(1, {"radioFailed"} \cup Late)
    BY DEF DeInit, Trouble
  <2>5. troubles' \in 0 .. MaxTrouble /\ cause' \subseteq Cause
    <3>1. /\ Late \in SUBSET Cause /\ {"radioFailed"} \cup Late \in SUBSET Cause
          /\ TypeOK
      BY DEF Cause, CvTypes, Late
    <3> QED
      BY <2>4, <3>1, Histories
  <2> QED
    BY <2>2, <2>3, <2>5 DEF RadioTypes
<1> QED
  BY <1>2, <1>3, <1>4, TypesByPartNext

\* Who ends it.
LEMMA GoneBy ==
    ASSUME TerminationHandler \/ BootFails \/ OnForeignInfo
    PROVE  \E as \in {"exit", "crashed"} : /\ Gone(as)
                                           /\ \/ DeInit
                                              \/ /\ as = "crashed" /\ UNCHANGED <<radio, call>>
                                                 /\ Troubles(0, Late)
  BY DEF TerminationHandler, BootFails, OnForeignInfo, Exits

\* The main thread keeps the types: boot, power loop and the end of the process.
LEMMA MainThreadTypes ==
    ASSUME CvTypes,
           \/ RegisterListeners \/ StartV2xMode \/ V2xModeStarted \/ DataReady \/ DataCallsStarted
           \/ EnableSysPowerNotification \/ HandleSystemStateChange \/ SendActivityStateAck
           \/ Resumed \/ Wait \/ OnTcuActivityStateUpdate
    PROVE  CvTypes'
<1>1. FlagTypes /\ ListenTypes /\ StartTypes /\ ModemTypes /\ MainTypes /\ RadioTypes
      /\ TypeOK /\ info \in [Kind -> Seq(News)] /\ notices \in Seq(Notice)
  BY TypesByPart DEF CvTypes, RadioTypes
<1>2. MainTypes'
  <2>1. CASE RegisterListeners
    BY <1>1, <2>1 DEF RegisterListeners, MainTypes, MainStep, powerVars
  <2>2. CASE \/ StartV2xMode \/ V2xModeStarted \/ DataReady \/ DataCallsStarted
             \/ EnableSysPowerNotification \/ HandleSystemStateChange \/ Resumed \/ Wait
    <3>1. UNCHANGED <<processVars, powerVars>> /\ systemState_' \in {systemState_, "UNKNOWN"}
      BY <2>2 DEF StartV2xMode, V2xModeStarted, DataReady, DataCallsStarted,
         EnableSysPowerNotification, HandleSystemStateChange, Resumed, Wait, teluxVars
    <3>2. main' \in MainStep
      BY <2>2 DEF StartV2xMode, V2xModeStarted, DataReady, DataCallsStarted, MainStep,
         EnableSysPowerNotification, HandleSystemStateChange, HandleSuspend, Resumed, Wait
    <3> QED
      BY <1>1, <3>1, <3>2 DEF MainTypes, processVars, powerVars
  <2>3. CASE SendActivityStateAck
    <3>1. acked' \in BOOLEAN /\ UNCHANGED <<runs, registered, system, tcu>>
          /\ systemState_' = "UNKNOWN" /\ main' = "between"
      BY <2>3 DEF SendActivityStateAck, teluxVars, processVars
    <3> QED
      BY <1>1, <3>1 DEF MainTypes, MainStep
  <2>4. CASE OnTcuActivityStateUpdate
    <3>1. /\ UNCHANGED <<runs, registered, system, acked>> /\ main' \in {"woken", main}
          /\ systemState_' = tcu /\ tcu # "none" /\ tcu' = "none"
      BY <2>4 DEF OnTcuActivityStateUpdate, processVars
    <3> QED
      BY <1>1, <3>1 DEF MainTypes, MainStep
  <2> QED
    BY <2>1, <2>2, <2>3, <2>4
<1>3. ListenTypes' /\ ModemTypes'
  <2>1. ListenTypes'
    BY <1>1, PartsStay DEF RegisterListeners, StartV2xMode, V2xModeStarted, DataReady, DataCallsStarted,
       EnableSysPowerNotification, HandleSystemStateChange, SendActivityStateAck, Resumed, Wait,
       OnTcuActivityStateUpdate, teluxVars
  <2>2. CASE StartV2xRadio("main") \/ \E answer \in {"started", "refused"} : Answered("main", answer)
    BY <1>1, <2>1, <2>2 DEF StartV2xRadio, Answered, ModemTypes, Request
  <2>3. CASE UNCHANGED modemVars
    BY <1>1, <2>1, <2>3, PartsStay
  <2> QED
    BY <2>1, <2>2, <2>3 DEF RegisterListeners, StartV2xMode, V2xModeStarted, DataReady, DataCallsStarted,
       EnableSysPowerNotification, HandleSystemStateChange, SendActivityStateAck, Resumed, Wait,
       OnTcuActivityStateUpdate, teluxVars
<1>4. FlagTypes' /\ StartTypes'
  <2>1. CASE DataReady
    BY <1>1, <2>1 DEF DataReady, Begin, FlagTypes, StartTypes, Starter, Step
  <2>2. CASE DataCallsStarted
    <3>1. StartTypes'
      BY <1>1, <2>2 DEF DataCallsStarted, StartTypes, Step
    <3> QED
      BY <1>1, <2>2, <3>1, PartsStay DEF DataCallsStarted
  <2>3. CASE UNCHANGED <<flagVars, startVars>>
    BY <1>1, <2>3, PartsStay
  <2> QED
    BY <2>1, <2>2, <2>3 DEF RegisterListeners, StartV2xMode, V2xModeStarted,
       EnableSysPowerNotification, HandleSystemStateChange, SendActivityStateAck, Resumed, Wait,
       OnTcuActivityStateUpdate, teluxVars
<1>5. RadioTypes'
  <2>1. CASE StopV2xRadio /\ radio = "on"
    BY <1>1, <2>1, RadioStopped
  <2>2. CASE UNCHANGED radioVars /\ \/ UNCHANGED historyVars
                                    \/ \E when : Blame("missed", when)
                                    \/ \E served : Refused("radioFailed", served)
    BY <2>2, HistoryTypes, AllBlamable DEF Blamable
  <2> QED
    BY <2>1, <2>2 DEF RegisterListeners, StartV2xMode, V2xModeStarted, DataReady, DataCallsStarted,
       EnableSysPowerNotification, HandleSystemStateChange, HandleSuspend, SendActivityStateAck, Resumed,
       Wait, OnTcuActivityStateUpdate, teluxVars
<1> QED
  BY <1>2, <1>3, <1>4, <1>5, TypesByPartNext

\* So does the system's power management.
LEMMA PowerTypes ==
    ASSUME CvTypes, Suspend \/ Resume \/ Shutdown \/ PowerDown
    PROVE  CvTypes'
<1>1. FlagTypes /\ ListenTypes /\ StartTypes /\ ModemTypes /\ MainTypes /\ RadioTypes
  BY TypesByPart
<1>2. UNCHANGED <<flagVars, listenVars, startVars, modemVars, radioVars>>
  BY DEF Suspend, Resume, Shutdown, PowerDown, PowerChange
<1>3. MainTypes'
  BY <1>1 DEF Suspend, Resume, Shutdown, PowerDown, PowerChange, MainTypes, mainVars
<1>4. RadioTypes'
  BY <1>2, HistoryTypes DEF Suspend, Resume, Shutdown, PowerDown
<1> QED
  BY <1>1, <1>2, <1>3, <1>4, PartsStay, TypesByPartNext

\* Every step keeps the types.
LEMMA CvTypesKept ==
    ASSUME CvTypes, [Next]_vars
    PROVE  CvTypes'
<1>1. CASE UNCHANGED vars
  <2>1. FlagTypes /\ ListenTypes /\ StartTypes /\ ModemTypes /\ MainTypes /\ RadioTypes
    BY TypesByPart
  <2> QED
    BY <1>1, <2>1, PartsStay, TypesByPartNext DEF vars, teluxVars
<1>2. CASE BootFails \/ TerminationHandler \/ OnForeignInfo
  BY <1>2, GoneBy, GoneTypes
<1> QED
  BY <1>1, <1>2, TeluxTypes, MainThreadTypes, PowerTypes DEF Next, MainThread

-----------------------------------------------------------------------------
(* Whoever waits for a data call has news to come.                         *)

\* A thread that has its answer, or waits, has its news in the queue or coming.
InformedLegs ==
    "noNews" \notin cause =>
      \A t \in Starter, k \in Kind :
         leg[t][k] \in {"answered", "waiting"} => info[k] # <<>> \/ call[k] = "connecting"

\* Nobody's history is forgotten.
LEMMA CausesGrow ==
    ASSUME TypeOK, [Next]_vars
    PROVE  cause \subseteq cause'
<1>1. SUFFICES ASSUME ~UNCHANGED cause PROVE cause \subseteq cause'
  OBVIOUS
<1>2. \/ \E c, when : Blame(c, when)
      \/ \E n, c : Troubles(n, c)
      \/ \E c, served : Refused(c, served)
      \/ \E c : Trouble(c)
  <2>1. CASE TeluxNext
    <3>1. CASE \E t \in Starter : FindProfilesFails(t) \/ FindProfiles(t) \/ Join(t)
                                  \/ SetInitializationDone(t)
      BY <1>1, <3>1 DEF FindProfilesFails, FindProfiles, Join, SetInitializationDone, historyVars
    <3>2. CASE \E t \in Starter, k \in Kind : Leg(t, k)
      BY <1>1, <3>2 DEF Leg, StartDataCall, WaitDataCallConnect, historyVars
    <3>3. CASE RadioListener \/ InitDataLibrary \/ DataServiceAvailable \/ RadioBack
      BY <1>1, <3>3 DEF RadioListener, OnStatusChanged, OnServiceUnavailable, OnServiceAvailable,
         InitDataLibrary, DataServiceAvailable, RadioBack, historyVars
    <3>4. CASE (\E k \in Kind : OnDataCallInfoChanged(k) \/ Connect(k))
               \/ ModemFails \/ RadioRecovers \/ DataRecovers \/ \E t \in Asker : ServeStart(t)
      BY <1>1, <3>4 DEF OnDataCallInfoChanged, Connect, ModemFails, RadioRecovers, DataRecovers, ServeStart,
         historyVars
    <3> QED
      BY <2>1, <3>1, <3>2, <3>3, <3>4 DEF TeluxNext
  <2>2. CASE \/ RegisterListeners \/ DataReady \/ DataCallsStarted \/ EnableSysPowerNotification
             \/ SendActivityStateAck \/ Wait \/ OnTcuActivityStateUpdate
    BY <1>1, <2>2 DEF RegisterListeners, DataReady, DataCallsStarted, EnableSysPowerNotification,
       SendActivityStateAck, Wait, OnTcuActivityStateUpdate, teluxVars, historyVars
  <2>3. CASE StartV2xMode \/ V2xModeStarted \/ HandleSystemStateChange \/ Resumed
    BY <1>1, <2>3 DEF StartV2xMode, V2xModeStarted, HandleSystemStateChange, HandleSuspend, Resumed,
       StopV2xRadio, historyVars
  <2>4. CASE Suspend \/ Resume \/ Shutdown \/ PowerDown
    BY <1>1, <2>4 DEF Suspend, Resume, Shutdown, PowerDown, historyVars
  <2>5. CASE BootFails \/ TerminationHandler \/ OnForeignInfo
    BY <1>1, <2>5 DEF BootFails, TerminationHandler, OnForeignInfo, Exits, DeInit, historyVars
  <2>6. ~UNCHANGED vars
    BY <1>1 DEF vars, teluxVars, historyVars
  <2> QED
    BY <2>1, <2>2, <2>3, <2>4, <2>5, <2>6 DEF Next, MainThread
<1> QED
  BY <1>2 DEF Blame, Troubles, Refused, Trouble

\* No news is taken back.
LEMMA LegsStay ==
    ASSUME InformedLegs, cause \subseteq cause', UNCHANGED leg,
           \A k \in Kind : info[k] # <<>> \/ call[k] = "connecting"
                             => info'[k] # <<>> \/ call'[k] = "connecting"
    PROVE  InformedLegs'
  BY DEF InformedLegs

\* The steps of Cv2xTelux keep whoever waits informed ...
LEMMA InformedTelux ==
    ASSUME CvTypes, InformedLegs, TeluxNext, cause \subseteq cause'
    PROVE  InformedLegs'
<1>1. TypeOK /\ StartTypes /\ RadioTypes
  BY TypesByPart DEF CvTypes
<1>2. ASSUME NEW t \in Starter, FindProfilesFails(t) \/ FindProfiles(t) \/ Join(t)
                                \/ SetInitializationDone(t)
      PROVE  InformedLegs'
  <2>1. /\ UNCHANGED <<call, info>>
        /\ \A u \in Starter, k \in Kind : leg'[u][k] \in {"answered", "waiting"} => leg'[u][k] = leg[u][k]
    <3>1. UNCHANGED <<call, info>>
      BY <1>2 DEF FindProfilesFails, FindProfiles, Join, SetInitializationDone, radioVars
    <3>2. \/ UNCHANGED leg
          \/ leg' = [leg EXCEPT ![t] = NoLegs]
          \/ leg' = [leg EXCEPT ![t] = [k \in Kind |-> "start"]]
      BY <1>2 DEF FindProfilesFails, FindProfiles, Join, SetInitializationDone, Ends
    <3> QED
      BY <1>1, <3>1, <3>2 DEF NoLegs, StartTypes
  <2> QED
    BY <2>1 DEF InformedLegs
<1>3. ASSUME NEW t \in Starter, NEW k \in Kind, StartDataCall(t, k)
      PROVE  InformedLegs'
  <2>1. CASE leg' = [leg EXCEPT ![t][k] = "failed"] /\ UNCHANGED call
    BY <1>1, <1>3, <2>1 DEF StartDataCall, InformedLegs, StartTypes
  <2>2. CASE /\ leg' = [leg EXCEPT ![t][k] = "answered"]
             /\ call' = [call EXCEPT ![k] = IF @ = "none" THEN "connecting" ELSE @]
             /\ Blame("noNews", call[k] = "up")
    <3> SUFFICES ASSUME "noNews" \notin cause', NEW u \in Starter, NEW j \in Kind,
                        leg'[u][j] \in {"answered", "waiting"}
                 PROVE  info'[j] # <<>> \/ call'[j] = "connecting"
      BY DEF InformedLegs
    <3>1. call[k] # "up" /\ info' = info /\ "noNews" \notin cause
      BY <1>3, <2>2 DEF Blame, StartDataCall
    <3>2. call'[k] = "connecting" /\ \A i \in Kind : i # k => call'[i] = call[i]
      BY <1>1, <2>2, <3>1 DEF RadioTypes
    <3>3. j # k => leg'[u][j] = leg[u][j]
      BY <1>1, <2>2 DEF StartTypes
    <3> QED
      BY <3>1, <3>2, <3>3 DEF InformedLegs
  <2> QED
    BY <1>3, <2>1, <2>2 DEF StartDataCall
<1>4. ASSUME NEW t \in Starter, NEW k \in Kind, WaitDataCallConnect(t, k)
      PROVE  InformedLegs'
  <2>1. UNCHANGED <<call, info>> /\ leg[t][k] = "answered" /\ leg' = [leg EXCEPT ![t][k] = "waiting"]
    BY <1>4 DEF WaitDataCallConnect, radioVars
  <2>2. \A u \in Starter, j \in Kind : leg'[u][j] \in {"answered", "waiting"}
                                         => leg[u][j] \in {"answered", "waiting"}
    BY <1>1, <2>1 DEF StartTypes
  <2> QED
    BY <2>1, <2>2 DEF InformedLegs
<1>5. CASE RadioListener \/ InitDataLibrary \/ DataServiceAvailable \/ RadioBack \/ RadioRecovers
           \/ DataRecovers \/ \E t \in Asker : ServeStart(t)
  <2>1. UNCHANGED <<leg, call, info>>
    BY <1>5 DEF RadioListener, OnStatusChanged, OnServiceUnavailable, OnServiceAvailable,
       ServeStart, InitDataLibrary, DataServiceAvailable, RadioBack, RadioRecovers, DataRecovers,
       startVars, radioVars
  <2> QED
    BY <2>1, LegsStay
<1>6. ASSUME NEW k \in Kind, OnDataCallInfoChanged(k)
      PROVE  InformedLegs'
  <2> SUFFICES ASSUME "noNews" \notin cause', NEW t \in Starter, NEW j \in Kind,
                      leg'[t][j] \in {"answered", "waiting"}
               PROVE  info'[j] # <<>> \/ call'[j] = "connecting"
    BY DEF InformedLegs
  <2>1. /\ call' = call /\ info' = [info EXCEPT ![k] = Tail(@)]
        /\ callStatus' = [callStatus EXCEPT ![k] = Head(info[k])]
        /\ leg'[t][j] = IF leg[t][j] = "waiting" THEN AfterWake(callStatus'[j]) ELSE leg[t][j]
        /\ \A u \in Starter : leg[u][k] # "answered"
        /\ "noNews" \notin cause
    BY <1>6 DEF OnDataCallInfoChanged, Blame
  <2>2. leg[t][j] \in {"answered", "waiting"}
    BY <2>1
  <2>3. CASE j = k
    <3>1. leg[t][k] = "waiting" /\ callStatus'[k] = Head(info[k])
      <4>1. callStatus \in [Kind -> Status]
        BY <1>1 DEF TypeOK
      <4> QED
        BY <2>1, <2>2, <2>3, <4>1
    <3>2. Head(info[k]) \in News
      <4>1. info[k] \in Seq(News) /\ info[k] # <<>>
        BY <1>1, <1>6 DEF OnDataCallInfoChanged, RadioTypes
      <4> QED
        BY <4>1, QueueOf
    <3>3. leg'[t][k] \in {"ok", "failed"}
      BY <2>1, <2>3, <3>1, <3>2 DEF AfterWake, News
    <3> QED
      BY <2>3, <3>3
  <2>4. CASE j # k
    <3>1. info'[j] = info[j]
      BY <1>1, <2>1, <2>4 DEF RadioTypes
    <3> QED
      BY <2>1, <2>2, <3>1 DEF InformedLegs
  <2> QED
    BY <2>3, <2>4
<1>7. ASSUME NEW k \in Kind, Connect(k)
      PROVE  InformedLegs'
  <2>1. \A s : Append(info[k], s) # <<>> \/ s \notin News
    BY <1>1, QueueOf DEF RadioTypes
  <2>2. info'[k] # <<>>
    BY <1>1, <1>7, <2>1 DEF Connect, RadioTypes, News
  <2>3. \A j \in Kind : j # k => info'[j] = info[j] /\ call'[j] = call[j]
    BY <1>1, <1>7 DEF Connect, RadioTypes
  <2>4. UNCHANGED leg
    BY <1>7 DEF Connect, startVars
  <2> QED
    BY <2>2, <2>3, <2>4, LegsStay
<1>8. CASE ModemFails
  <2>1. info' = [k \in Kind |-> Lost(k)] /\ UNCHANGED leg
    BY <1>8 DEF ModemFails, startVars
  <2>2. \A k \in Kind : info[k] # <<>> \/ call[k] = "connecting" => info'[k] # <<>>
    BY <1>1, <2>1, LostNews DEF RadioTypes
  <2> QED
    BY <2>1, <2>2, LegsStay
<1> QED
  BY <1>2, <1>3, <1>4, <1>5, <1>6, <1>7, <1>8 DEF TeluxNext, Leg

\* ... and so do all others.
LEMMA InformedKept ==
    ASSUME CvTypes, InformedLegs, [Next]_vars
    PROVE  InformedLegs'
<1>1. TypeOK /\ RadioTypes
  BY TypesByPart DEF CvTypes
<1>2. cause \subseteq cause'
  BY <1>1, CausesGrow
<1>3. CASE TeluxNext
  BY <1>2, <1>3, InformedTelux
<1>4. CASE BootFails \/ TerminationHandler \/ OnForeignInfo
  <2>1. \E as \in {"exit", "crashed"} : Gone(as)
    BY <1>4, GoneBy
  <2>2. \A t \in Starter, k \in Kind : leg'[t][k] = "none"
    BY <2>1 DEF Gone, NoLegs
  <2> QED
    BY <2>2 DEF InformedLegs
<1>5. CASE \/ MainThread /\ ~BootFails
           \/ Wait \/ OnTcuActivityStateUpdate \/ Suspend \/ Resume \/ Shutdown \/ PowerDown
           \/ UNCHANGED vars
  <2>1. UNCHANGED leg
    BY <1>5 DEF MainThread, RegisterListeners, StartV2xMode, V2xModeStarted, DataReady, DataCallsStarted,
       EnableSysPowerNotification, HandleSystemStateChange, SendActivityStateAck, Resumed,
       Wait, OnTcuActivityStateUpdate, Suspend, Resume, Shutdown, PowerDown, PowerChange, vars, teluxVars,
       startVars
  <2>2. \/ UNCHANGED <<call, info>>
        \/ StopV2xRadio /\ radio = "on"
    BY <1>5 DEF MainThread, RegisterListeners, StartV2xMode, V2xModeStarted, DataReady, DataCallsStarted,
       EnableSysPowerNotification, HandleSystemStateChange, HandleSuspend, SendActivityStateAck, Resumed,
       Wait, OnTcuActivityStateUpdate, Suspend, Resume, Shutdown, PowerDown, PowerChange, vars, teluxVars,
       radioVars
  <2>3. CASE UNCHANGED <<call, info>>
    BY <1>2, <2>1, <2>3, LegsStay
  <2>4. CASE StopV2xRadio /\ radio = "on"
    BY <1>1, <1>2, <2>1, <2>4, RadioStopped, LegsStay DEF RadioTypes
  <2> QED
    BY <2>2, <2>3, <2>4
<1> QED
  BY <1>3, <1>4, <1>5 DEF Next, MainThread

-----------------------------------------------------------------------------
(* Who starts the data calls.                                              *)

\* Until the modem restarts its services stay, and its radio only changes its status.
ServicesUp ==
    /\ dataUp /\ ~available /\ ~awaiting /\ radio # "down" /\ notices \in Seq(Quieter)
    /\ request["radio"] = "none"

\* The main thread starts the calls before the initialization is done, the radio's
\* thread only after it.
Booting == {"boot", "mode", "modeStart", "data"}
StartersInTurn ==
    /\ step["data"] = "idle"
    /\ ~isInitializationDone_ => step["radio"] = "idle"
    /\ isInitializationDone_ => main \notin Booting /\ (main = "calls" => step["main"] = "done")
MainCalls == main # "calls" => step["main"] = "idle"

NoRestart == "ssr" \notin cause => ServicesUp /\ StartersInTurn /\ MainCalls

\* Before a restart the services stay up if nothing touches them.
LEMMA ServicesStay ==
    ASSUME ServicesUp, UNCHANGED <<dataUp, available, awaiting, radio, notices, request>>
    PROVE  ServicesUp'
  BY DEF ServicesUp

\* The order of the starters stays if nothing touches it.
LEMMA StartersStay ==
    ASSUME StartersInTurn, MainCalls, UNCHANGED <<step, isInitializationDone_>>,
           \/ main' = main
           \/ main' \notin Booting \cup {"calls"} /\ main # "calls"
           \/ main' \in Booting /\ main \in Booting
    PROVE  StartersInTurn' /\ MainCalls'
  BY DEF StartersInTurn, MainCalls, Booting

\* The steps of Cv2xTelux keep the order of the starters ...
LEMMA StartersTelux ==
    ASSUME CvTypes, ServicesUp, StartersInTurn, MainCalls, "ssr" \notin cause',
           TeluxNext, UNCHANGED main
    PROVE  ServicesUp' /\ StartersInTurn' /\ MainCalls'
<1>1. TypeOK /\ StartTypes /\ RadioTypes
  BY TypesByPart DEF CvTypes
<1>2. ASSUME NEW t \in Starter, FindProfilesFails(t) \/ FindProfiles(t) \/ Join(t)
                                \/ SetInitializationDone(t)
      PROVE  ServicesUp' /\ StartersInTurn' /\ MainCalls'
  <2>1. ServicesUp'
    BY <1>2, ServicesStay DEF FindProfilesFails, FindProfiles, Join, SetInitializationDone, listenVars,
       radioVars, modemVars
  <2>2. /\ step[t] \in {"finding", "calling", "skipped", "called"}
        /\ \E s : step' = [step EXCEPT ![t] = s]
        /\ \/ isInitializationDone_' = isInitializationDone_
           \/ isInitializationDone_' /\ (t = "main" => step' = [step EXCEPT ![t] = "done"])
    BY <1>2 DEF FindProfilesFails, FindProfiles, Join, SetInitializationDone, Ends, flagVars
  <2>3. \A u \in Starter : u # t => step'[u] = step[u]
    BY <1>1, <2>2 DEF StartTypes
  <2>4. CASE t = "main"
    <3>1. main = "calls" /\ ~isInitializationDone_
      BY <2>2, <2>4 DEF MainCalls, StartersInTurn
    <3>2. isInitializationDone_' => step'["main"] = "done"
      BY <1>1, <2>2, <2>4, <3>1 DEF StartTypes
    <3> QED
      BY <2>1, <2>3, <2>4, <3>1, <3>2 DEF MainCalls, StartersInTurn, Starter, Booting
  <2>5. CASE t = "radio"
    <3>1. isInitializationDone_ /\ isInitializationDone_'
      BY <2>2, <2>5 DEF StartersInTurn
    <3> QED
      BY <2>1, <2>3, <2>5, <3>1 DEF MainCalls, StartersInTurn, Starter
  <2>6. CASE t = "data"
    BY <2>2, <2>6 DEF StartersInTurn
  <2> QED
    BY <2>4, <2>5, <2>6 DEF Starter
<1>3. CASE \/ \E t \in Starter, k \in Kind : Leg(t, k)
           \/ InitDataLibrary \/ \E k \in Kind : OnDataCallInfoChanged(k) \/ Connect(k)
  <2>1. UNCHANGED <<dataUp, available, awaiting, radio, notices, request, step, isInitializationDone_>>
    <3>1. CASE \E t \in Starter, k \in Kind : Leg(t, k)
      BY <3>1 DEF Leg, StartDataCall, WaitDataCallConnect, flagVars, listenVars, radioVars, modemVars
    <3>2. CASE InitDataLibrary \/ \E k \in Kind : OnDataCallInfoChanged(k) \/ Connect(k)
      BY <3>2 DEF InitDataLibrary, OnDataCallInfoChanged, Connect, flagVars, listenVars, startVars,
         radioVars, modemVars
    <3> QED
      BY <1>3, <3>1, <3>2
  <2> QED
    BY <2>1, ServicesStay, StartersStay
<1>4. CASE RadioListener
  <2>1. Head(notices) \in Quieter /\ Tail(notices) \in Seq(Quieter)
    <3>1. notices # <<>> /\ notices \in Seq(Quieter)
      BY <1>4 DEF RadioListener, OnStatusChanged, OnServiceUnavailable, OnServiceAvailable, RadioTurn,
         Answered, ServicesUp
    <3> QED
      BY <3>1, QueueOf
  <2>2. OnStatusChanged
    BY <1>4, <2>1 DEF RadioListener, OnServiceUnavailable, OnServiceAvailable, Answered, ServicesUp, Quieter
  <2>3. ServicesUp'
    BY <2>1, <2>2 DEF OnStatusChanged, ServicesUp, listenVars, modemVars
  <2>4. /\ UNCHANGED isInitializationDone_
        /\ \/ UNCHANGED step
           \/ isInitializationDone_ /\ step' = [step EXCEPT !["radio"] = "finding"]
    BY <2>2 DEF OnStatusChanged, StartsCalls, Begin
  <2>5. StartersInTurn' /\ MainCalls'
    BY <1>1, <2>4 DEF StartersInTurn, MainCalls, StartTypes, Starter
  <2> QED
    BY <2>3, <2>5
<1>5. ~(DataServiceAvailable \/ RadioBack \/ RadioRecovers \/ DataRecovers)
  BY DEF DataServiceAvailable, RadioBack, RadioRecovers, DataRecovers, ServicesUp
<1>6. ~ModemFails
  <2>1. ModemFails => "ssr" \in cause'
    BY DEF ModemFails, Troubles
  <2> QED
    BY <2>1
<1>7. ASSUME NEW t \in Asker, ServeStart(t)
      PROVE  ServicesUp' /\ StartersInTurn' /\ MainCalls'
  <2>1. request["radio"] = "none" /\ request[t] = "asked" /\ request \in [Asker -> Request]
    BY <1>1, <1>7 DEF ServeStart, ServicesUp, TypeOK
  <2>2. request'["radio"] = "none" /\ radio' # "down" /\ notices' \in Seq(Quieter)
    BY <1>1, <1>7, <2>1, RadioServed DEF ServicesUp, RadioTypes, Asker
  <2>3. UNCHANGED <<dataUp, available, awaiting, step, isInitializationDone_>>
    BY <1>7 DEF ServeStart, listenVars, startVars, flagVars
  <2> QED
    BY <2>2, <2>3, StartersStay DEF ServicesUp
<1> QED
  BY <1>2, <1>3, <1>4, <1>5, <1>6, <1>7 DEF TeluxNext

\* ... and so do those of the main thread.
LEMMA StartersMain ==
    ASSUME CvTypes, ServicesUp, StartersInTurn, MainCalls,
           \/ RegisterListeners \/ StartV2xMode \/ V2xModeStarted \/ DataReady \/ DataCallsStarted
           \/ EnableSysPowerNotification \/ HandleSystemStateChange \/ SendActivityStateAck
           \/ Resumed \/ Wait \/ OnTcuActivityStateUpdate
    PROVE  ServicesUp' /\ StartersInTurn' /\ MainCalls'
<1>1. TypeOK /\ StartTypes /\ RadioTypes /\ notices \in Seq(Quieter) /\ radio # "down"
  BY TypesByPart DEF CvTypes, ServicesUp
<1>2. ServicesUp'
  <2>1. UNCHANGED <<dataUp, available, awaiting>>
    BY DEF RegisterListeners, StartV2xMode, V2xModeStarted, DataReady, DataCallsStarted,
       EnableSysPowerNotification, HandleSystemStateChange, SendActivityStateAck, Resumed, Wait,
       OnTcuActivityStateUpdate, teluxVars, listenVars, modemVars, StartV2xRadio, Answered
  <2>2. \/ UNCHANGED <<radio, notices>>
        \/ StopV2xRadio /\ radio = "on"
    BY DEF RegisterListeners, StartV2xMode, V2xModeStarted, DataReady, DataCallsStarted,
       EnableSysPowerNotification, HandleSystemStateChange, HandleSuspend, SendActivityStateAck, Resumed,
       Wait, OnTcuActivityStateUpdate, teluxVars, radioVars
  <2>3. radio' # "down" /\ notices' \in Seq(Quieter)
    <3>1. CASE StopV2xRadio
      BY <1>1, <3>1, RadioStopped DEF RadioTypes
    <3> QED
      BY <1>1, <2>2, <3>1
  <2>4. request'["radio"] = "none"
    <3>1. request \in [Asker -> Request] /\ request["radio"] = "none"
      BY <1>1 DEF TypeOK, ServicesUp
    <3>2. \/ UNCHANGED request
          \/ \E answer \in Request : request' = [request EXCEPT !["main"] = answer]
      BY DEF RegisterListeners, StartV2xMode, V2xModeStarted, DataReady, DataCallsStarted,
         EnableSysPowerNotification, HandleSystemStateChange, SendActivityStateAck, Resumed, Wait,
         OnTcuActivityStateUpdate, teluxVars, modemVars, StartV2xRadio, Answered, Request
    <3> QED
      BY <3>1, <3>2 DEF Asker
  <2> QED
    BY <2>1, <2>3, <2>4 DEF ServicesUp
<1>3. CASE DataReady
  <2>1. /\ main = "data" /\ main' = "calls" /\ UNCHANGED isInitializationDone_
        /\ step' = [step EXCEPT !["main"] = "finding"]
    BY <1>3 DEF DataReady, Begin
  <2> QED
    BY <1>1, <1>2, <2>1 DEF StartersInTurn, MainCalls, StartTypes, Starter, Booting
<1>4. CASE DataCallsStarted
  <2>1. /\ main = "calls" /\ main' = "enable" /\ UNCHANGED isInitializationDone_
        /\ step' = [step EXCEPT !["main"] = "idle"]
    BY <1>4 DEF DataCallsStarted, flagVars
  <2> QED
    BY <1>1, <1>2, <2>1 DEF StartersInTurn, MainCalls, StartTypes, Starter, Booting
<1>5. CASE ~DataReady /\ ~DataCallsStarted
  <2>1. UNCHANGED <<step, isInitializationDone_>>
    BY <1>5 DEF RegisterListeners, StartV2xMode, V2xModeStarted, startVars, flagVars,
       EnableSysPowerNotification, HandleSystemStateChange, SendActivityStateAck, Resumed, Wait,
       OnTcuActivityStateUpdate, teluxVars
  <2>2. \/ main' = main
        \/ main' \notin Booting \cup {"calls"} /\ main # "calls"
        \/ main' \in Booting /\ main \in Booting
    BY <1>5 DEF RegisterListeners, StartV2xMode, V2xModeStarted, Booting,
       EnableSysPowerNotification, HandleSystemStateChange, HandleSuspend, SendActivityStateAck, Resumed,
       Wait, OnTcuActivityStateUpdate
  <2> QED
    BY <1>2, <2>1, <2>2, StartersStay
<1> QED
  BY <1>3, <1>4, <1>5

\* Every step keeps what holds until the modem restarts.
LEMMA NoRestartKept ==
    ASSUME CvTypes, NoRestart, [Next]_vars
    PROVE  NoRestart'
<1> SUFFICES ASSUME "ssr" \notin cause' PROVE ServicesUp' /\ StartersInTurn' /\ MainCalls'
  BY DEF NoRestart
<1>1. ServicesUp /\ StartersInTurn /\ MainCalls
  BY CausesGrow DEF NoRestart, CvTypes
<1>2. CASE TeluxNext /\ UNCHANGED <<mainVars, powerVars>>
  BY <1>1, <1>2, StartersTelux DEF mainVars
<1>3. CASE BootFails \/ TerminationHandler \/ OnForeignInfo
  <2>1. PICK as \in {"exit", "crashed"} : Gone(as) /\ (DeInit \/ UNCHANGED radio)
    BY <1>3, GoneBy
  <2>2. radio' # "down"
    BY <1>1, <2>1 DEF DeInit, ServicesUp
  <2>3. notices' \in Seq(Quieter)
    BY <2>1 DEF Gone
  <2>4. ServicesUp'
    BY <1>1, <2>1, <2>2, <2>3 DEF Gone, ServicesUp
  <2>5. StartersInTurn' /\ MainCalls'
    BY <2>1 DEF Gone, StartersInTurn, MainCalls, Starter
  <2> QED
    BY <2>4, <2>5
<1>4. CASE Suspend \/ Resume \/ Shutdown \/ PowerDown \/ UNCHANGED vars
  <2>1. UNCHANGED <<dataUp, available, awaiting, radio, notices, request, step, isInitializationDone_, main>>
    BY <1>4 DEF Suspend, Resume, Shutdown, PowerDown, PowerChange, vars, teluxVars, flagVars, startVars,
       listenVars, radioVars, modemVars, mainVars
  <2> QED
    BY <1>1, <2>1, ServicesStay, StartersStay
<1> QED
  BY <1>1, <1>2, <1>3, <1>4, StartersMain DEF Next, MainThread

-----------------------------------------------------------------------------
(* The power of the system.                                                *)

\* The radio does not go on by itself, unless one of these causes went before.
OffOrBlamed == radio # "on" \/ "ssr" \in cause \/ "radioFailed" \in cause \/ "late" \in cause

\* Somebody waits for a start that the modem has still to serve: the main thread, which has
\* then nothing acknowledged, or the radio's thread, after a restart; or nobody any more.
AskedFor ==
    request["main"] = "asked" => main \in {"modeStart", "resumeStart"} \/ "late" \in cause

\* The notice under way, and the one that was noted, are those of the system's state.
Notified ==
    /\ systemState_ = "SHUTDOWN" \/ tcu = "SHUTDOWN" => system \in {"stopping", "off"}
    /\ tcu = "RESUME" => system = "awake"
    /\ tcu = "SUSPEND" =>
         system = "suspending" /\ ~acked /\ systemState_ \in {"UNKNOWN", "RESUME"}
    /\ system = "awake" /\ tcu = "none" => systemState_ \in {"UNKNOWN", "RESUME"}

\* The main thread acknowledges a suspend when the radio is off, ...
Acknowledging ==
    main = "acking" => /\ systemState_ \in {"SUSPEND", "SHUTDOWN"}
                       /\ systemState_ = "SUSPEND" => OffOrBlamed
\* ... has nothing to do after that, ...
Acknowledged ==
    acked /\ system \in {"suspending", "asleep"} =>
      /\ tcu = "none" /\ systemState_ = "UNKNOWN" /\ OffOrBlamed
      /\ main \in {"between", "waiting", "exit", "crashed"}
\* ... and is at it until then.
InHand ==
    system = "suspending" /\ tcu = "none" /\ runs /\ ~acked /\ "missed" \notin cause
      => main \in {"woken", "acking"} /\ systemState_ = "SUSPEND"

\* A daemon that has left has stopped the radio.
Exited == main = "exit" => ~runs /\ OffOrBlamed

PowerKnown == Notified /\ Acknowledging /\ Acknowledged /\ InHand /\ Exited

\* A step that leaves the main thread and the power alone.
LEMMA PowerStays ==
    ASSUME PowerKnown, UNCHANGED <<runs, mainVars, powerVars>>, cause \subseteq cause',
           OffOrBlamed => OffOrBlamed'
    PROVE  PowerKnown'
<1> USE DEF PowerKnown, mainVars, powerVars
<1>1. Notified'
  BY DEF Notified
<1>2. Acknowledging' /\ Acknowledged' /\ Exited'
  BY DEF Acknowledging, Acknowledged, Exited
<1>3. InHand'
  BY DEF InHand
<1> QED
  BY <1>1, <1>2, <1>3

\* A step of the main thread that has no notice in hand.
LEMMA PowerGoesOn ==
    ASSUME PowerKnown, UNCHANGED <<runs, powerVars>>, cause \subseteq cause', runs,
           main \notin {"woken", "acking"}, main' \notin {"acking", "exit"},
           systemState_' \in {systemState_, "UNKNOWN"},
           \/ main' \in {"between", "waiting"} /\ (OffOrBlamed => OffOrBlamed')
           \/ main \notin {"between", "waiting", "exit", "crashed"}
           \/ systemState_ # "UNKNOWN"
    PROVE  PowerKnown'
<1> USE DEF PowerKnown, powerVars
<1>1. Notified'
  BY DEF Notified
<1>2. Acknowledging' /\ Exited'
  BY DEF Acknowledging, Exited
<1>3. Acknowledged'
  BY DEF Acknowledged
<1>4. InHand'
  BY DEF InHand
<1> QED
  BY <1>1, <1>2, <1>3, <1>4

\* A radio that is off goes on only for one of the causes, or when a start is served.
LEMMA OffStays ==
    ASSUME CvTypes, NoRestart, TeluxNext, cause \subseteq cause', OffOrBlamed,
           \A t \in Asker : ~ServeStart(t)
    PROVE  OffOrBlamed'
<1> SUFFICES ASSUME "ssr" \notin cause' PROVE UNCHANGED radio
  BY DEF OffOrBlamed
<1>1. ServicesUp
  BY DEF NoRestart
<1>2. CASE \/ \E t \in Starter : FindProfilesFails(t) \/ FindProfiles(t) \/ Join(t)
                                 \/ SetInitializationDone(t)
           \/ \E t \in Starter, k \in Kind : Leg(t, k)
  BY <1>2 DEF FindProfilesFails, FindProfiles, Join, SetInitializationDone, Leg, StartDataCall,
     WaitDataCallConnect, radioVars
<1>3. CASE RadioListener
  BY <1>3 DEF RadioListener, OnStatusChanged, OnServiceUnavailable, OnServiceAvailable
<1>4. CASE \/ InitDataLibrary \/ DataServiceAvailable \/ RadioBack \/ DataRecovers
           \/ \E k \in Kind : OnDataCallInfoChanged(k) \/ Connect(k)
  BY <1>4 DEF InitDataLibrary, DataServiceAvailable, RadioBack, DataRecovers, OnDataCallInfoChanged, Connect,
     radioVars
<1>5. ~ModemFails /\ ~RadioRecovers
  <2>1. ModemFails => "ssr" \in cause'
    BY DEF ModemFails, Troubles
  <2> QED
    BY <1>1, <2>1 DEF RadioRecovers, ServicesUp
<1> QED
  BY <1>2, <1>3, <1>4, <1>5 DEF TeluxNext

\* A start is served for the main thread, which is at it, or for one of the causes.
LEMMA PowerServed ==
    ASSUME CvTypes, NoRestart, AskedFor, PowerKnown, NEW t \in Asker, ServeStart(t),
           UNCHANGED <<mainVars, powerVars>>
    PROVE  PowerKnown'
<1>1. TypeOK /\ info \in [Kind -> Seq(News)]
  BY DEF CvTypes
<1>2. cause \subseteq cause' /\ UNCHANGED runs /\ request[t] = "asked"
  BY <1>1, RadioServed DEF ServeStart, processVars
<1>3. CASE OffOrBlamed => OffOrBlamed'
  BY <1>2, <1>3, PowerStays
<1>4. CASE OffOrBlamed /\ ~OffOrBlamed'
  <2>1. "ssr" \notin cause /\ "late" \notin cause
    BY <1>2, <1>4 DEF OffOrBlamed
  <2>2. main \in {"modeStart", "resumeStart"}
    BY <1>2, <2>1 DEF NoRestart, ServicesUp, AskedFor, Asker
  <2>3. ~acked \/ system \notin {"suspending", "asleep"}
    BY <2>2 DEF PowerKnown, Acknowledged
  <2> USE DEF mainVars, powerVars
  <2>4. Notified' /\ InHand'
    BY <1>2 DEF PowerKnown, Notified, InHand
  <2>5. Acknowledging' /\ Acknowledged' /\ Exited'
    BY <2>2, <2>3 DEF Acknowledging, Acknowledged, Exited
  <2> QED
    BY <2>4, <2>5 DEF PowerKnown
<1> QED
  BY <1>3, <1>4

\* The end of the process.
LEMMA PowerGone ==
    ASSUME CvTypes, PowerKnown, cause \subseteq cause',
           TerminationHandler \/ BootFails \/ OnForeignInfo
    PROVE  PowerKnown'
<1>1. PICK as \in {"exit", "crashed"} : /\ Gone(as)
                                        /\ DeInit \/ (as = "crashed" /\ UNCHANGED radio)
  BY GoneBy
<1>2. main' = as /\ ~runs' /\ systemState_' = "UNKNOWN" /\ UNCHANGED <<system, tcu, acked>>
  BY <1>1 DEF Gone, powerVars
<1>3. DeInit => OffOrBlamed'
  <2>1. Trouble({"radioFailed"} \cup Late) => "radioFailed" \in cause'
    BY DEF Trouble, Troubles
  <2> QED
    BY <2>1 DEF DeInit, OffOrBlamed
<1>4. OffOrBlamed => OffOrBlamed'
  BY <1>1, <1>3 DEF OffOrBlamed, historyVars
<1>5. Notified'
  BY <1>2 DEF PowerKnown, Notified
<1>6. Acknowledging' /\ InHand' /\ Exited'
  BY <1>1, <1>2, <1>3 DEF Acknowledging, InHand, Exited
<1>7. Acknowledged'
  BY <1>2, <1>4 DEF PowerKnown, Acknowledged
<1> QED
  BY <1>5, <1>6, <1>7 DEF PowerKnown

\* The main thread, without a notice and with one.
LEMMA PowerMain ==
    ASSUME CvTypes, PowerKnown, cause \subseteq cause',
           \/ RegisterListeners \/ StartV2xMode \/ V2xModeStarted \/ DataReady \/ DataCallsStarted
           \/ EnableSysPowerNotification \/ Resumed \/ Wait
    PROVE  PowerKnown'
<1>1. /\ runs /\ UNCHANGED <<runs, powerVars>> /\ main \notin {"woken", "acking"}
      /\ main' \notin {"acking", "exit"} /\ systemState_' \in {systemState_, "UNKNOWN"}
  BY DEF RegisterListeners, StartV2xMode, V2xModeStarted, DataReady, DataCallsStarted,
     EnableSysPowerNotification, Resumed, Wait, teluxVars, processVars
<1>2. \/ main' \in {"between", "waiting"} /\ UNCHANGED radio
      \/ main \notin {"between", "waiting", "exit", "crashed"}
      \/ systemState_ # "UNKNOWN"
  BY DEF RegisterListeners, StartV2xMode, V2xModeStarted, DataReady, DataCallsStarted,
     EnableSysPowerNotification, Resumed, Wait, teluxVars, radioVars, historyVars
<1> QED
  BY <1>1, <1>2, PowerGoesOn DEF OffOrBlamed

\* A notice is handled.
LEMMA PowerHandled ==
    ASSUME CvTypes, PowerKnown, cause \subseteq cause', HandleSystemStateChange
    PROVE  PowerKnown'
<1>1. UNCHANGED <<runs, system, tcu, acked, systemState_>> /\ main = "woken"
  BY DEF HandleSystemStateChange, processVars, powerVars
<1>2. \/ systemState_ = "SUSPEND" /\ main' = "acking" /\ OffOrBlamed'
      \/ systemState_ = "SHUTDOWN" /\ main' = "acking"
      \/ systemState_ = "RESUME" /\ main' = "resume"
  <2>1. HandleSuspend => main' = "acking" /\ OffOrBlamed'
    <3>1. CASE radio = "on" /\ StopV2xRadio
      <4>1. TypeOK /\ info \in [Kind -> Seq(News)]
        BY DEF CvTypes
      <4> QED
        BY <3>1, <4>1, RadioStopped DEF OffOrBlamed, HandleSuspend
    <3>2. CASE radio # "on" /\ UNCHANGED radioVars
      BY <3>2 DEF OffOrBlamed, radioVars, HandleSuspend
    <3> QED
      BY <3>1, <3>2 DEF HandleSuspend
  <2> QED
    BY <2>1 DEF HandleSystemStateChange
<1>3. Notified' /\ Acknowledging' /\ Exited'
  BY <1>1, <1>2 DEF PowerKnown, Notified, Acknowledging, Exited
<1>4. Acknowledged'
  BY <1>1 DEF PowerKnown, Acknowledged
<1>5. InHand'
  BY <1>1, <1>2 DEF PowerKnown, InHand
<1> QED
  BY <1>3, <1>4, <1>5 DEF PowerKnown

\* A notice is acknowledged.
LEMMA PowerAcknowledged ==
    ASSUME CvTypes, PowerKnown, SendActivityStateAck
    PROVE  PowerKnown'
<1>1. /\ UNCHANGED <<runs, system, tcu, radio, cause>> /\ main = "acking" /\ main' = "between"
      /\ systemState_' = "UNKNOWN" /\ acked' = (system \in {"suspending", "stopping"})
  BY DEF SendActivityStateAck, teluxVars, processVars, radioVars, historyVars
<1>2. systemState_ \in {"SUSPEND", "SHUTDOWN"} /\ (systemState_ = "SUSPEND" => OffOrBlamed)
  BY <1>1 DEF PowerKnown, Acknowledging
<1>3. tcu # "SUSPEND"
  BY <1>2 DEF PowerKnown, Notified
<1>4. Notified'
  BY <1>1, <1>3 DEF PowerKnown, Notified
<1>5. tcu \in {"none", "SUSPEND", "RESUME", "SHUTDOWN"}
  BY DEF CvTypes, TypeOK
<1>6. Acknowledged'
  <2> SUFFICES ASSUME system = "suspending" PROVE tcu = "none" /\ OffOrBlamed'
    BY <1>1 DEF Acknowledged
  <2>1. tcu = "none" /\ systemState_ = "SUSPEND"
    BY <1>2, <1>3, <1>5 DEF PowerKnown, Notified
  <2> QED
    BY <1>1, <1>2, <2>1 DEF OffOrBlamed
<1>7. Acknowledging' /\ InHand' /\ Exited'
  BY <1>1 DEF Acknowledging, InHand, Exited
<1> QED
  BY <1>4, <1>6, <1>7 DEF PowerKnown

\* A notice is noted by the listener's thread.
LEMMA PowerNoted ==
    ASSUME CvTypes, PowerKnown, cause \subseteq cause', OnTcuActivityStateUpdate
    PROVE  PowerKnown'
<1>1. /\ UNCHANGED <<runs, system, acked, radio>> /\ tcu # "none" /\ tcu' = "none"
      /\ systemState_' = tcu /\ main \in {"between", "waiting", "woken"}
      /\ main' = (IF main = "waiting" THEN "woken" ELSE main)
      /\ main = "between" => "missed" \in cause'
  BY DEF OnTcuActivityStateUpdate, processVars, radioVars, Blame
<1>2. tcu \in {"SUSPEND", "RESUME", "SHUTDOWN"}
  BY <1>1 DEF CvTypes, TypeOK
<1>3. Notified'
  BY <1>1, <1>2 DEF PowerKnown, Notified
<1>4. Acknowledging' /\ Exited'
  BY <1>1 DEF Acknowledging, Exited
<1>5. Acknowledged'
  BY <1>1 DEF PowerKnown, Acknowledged
<1>6. InHand'
  BY <1>1, <1>2 DEF PowerKnown, Notified, InHand
<1> QED
  BY <1>3, <1>4, <1>5, <1>6 DEF PowerKnown

\* The system goes to sleep, wakes up or is switched off.
LEMMA PowerChanges ==
    ASSUME CvTypes, PowerKnown, cause \subseteq cause', Suspend \/ Resume \/ Shutdown \/ PowerDown
    PROVE  PowerKnown'
<1>1. UNCHANGED <<main, systemState_, radio>>
  BY DEF Suspend, Resume, Shutdown, PowerDown, PowerChange, mainVars, radioVars
<1>2. OffOrBlamed => OffOrBlamed'
  BY <1>1 DEF OffOrBlamed
<1>3. Acknowledging'
  BY <1>1, <1>2 DEF PowerKnown, Acknowledging
<1>4. CASE Suspend \/ Shutdown
  <2>1. /\ runs /\ system = "awake" /\ tcu = "none" /\ ~acked'
        /\ \/ system' = "suspending" /\ tcu' = "SUSPEND"
           \/ system' = "stopping" /\ tcu' = "SHUTDOWN"
    BY <1>4 DEF Suspend, Shutdown, PowerChange
  <2>2. Notified'
    BY <1>1, <2>1 DEF PowerKnown, Notified
  <2>3. Acknowledged' /\ InHand' /\ Exited'
    BY <1>1, <2>1 DEF PowerKnown, Acknowledged, InHand, Exited
  <2> QED
    BY <1>3, <2>2, <2>3 DEF PowerKnown
<1>5. CASE Resume
  <2>1. /\ system = "asleep" /\ tcu = "none" /\ ~acked' /\ system' = "awake" /\ tcu' = "RESUME"
        /\ main # "exit"
    BY <1>5 DEF Resume, PowerChange
  <2>2. Notified'
    BY <1>1, <2>1 DEF PowerKnown, Notified
  <2>3. Acknowledged' /\ InHand' /\ Exited'
    BY <1>1, <2>1 DEF Acknowledged, InHand, Exited
  <2> QED
    BY <1>3, <2>2, <2>3 DEF PowerKnown
<1>6. CASE PowerDown
  <2>1. /\ UNCHANGED <<tcu, acked>> /\ ~runs' /\ (acked \/ tcu = "none")
        /\ \/ system = "suspending" /\ system' = "asleep"
           \/ system = "stopping" /\ system' = "off"
    BY <1>6 DEF PowerDown
  <2>2. Notified'
    BY <1>1, <2>1 DEF PowerKnown, Notified
  <2>3. Acknowledged'
    BY <1>1, <1>2, <2>1 DEF PowerKnown, Acknowledged
  <2>4. InHand' /\ Exited'
    BY <1>1, <1>2, <2>1 DEF PowerKnown, InHand, Exited
  <2> QED
    BY <1>3, <2>2, <2>3, <2>4 DEF PowerKnown
<1> QED
  BY <1>4, <1>5, <1>6

\* Every step keeps what is known of the power.
LEMMA PowerKept ==
    ASSUME CvTypes, NoRestart, AskedFor, PowerKnown, [Next]_vars
    PROVE  PowerKnown'
<1>1. cause \subseteq cause'
  BY CausesGrow DEF CvTypes
<1>2. CASE TeluxNext /\ UNCHANGED <<mainVars, powerVars>>
  <2>1. UNCHANGED runs
    BY <1>2, TeluxRuns DEF processVars
  <2> QED
    BY <1>1, <1>2, <2>1, OffStays, PowerStays, PowerServed
<1>3. CASE UNCHANGED vars
  <2>1. UNCHANGED <<runs, mainVars, powerVars, radio, cause>>
    BY <1>3 DEF vars, teluxVars, processVars, radioVars, historyVars
  <2> QED
    BY <1>1, <2>1, PowerStays DEF OffOrBlamed
<1> QED
  BY <1>1, <1>2, <1>3, PowerGone, PowerMain, PowerHandled, PowerAcknowledged, PowerNoted, PowerChanges
     DEF Next, MainThread

\* Every step keeps who waits for a start.
LEMMA AskedKept ==
    ASSUME CvTypes, AskedFor, [Next]_vars
    PROVE  AskedFor'
<1>1. cause \subseteq cause' /\ request \in [Asker -> Request]
  BY CausesGrow DEF CvTypes, TypeOK
<1>2. CASE TeluxNext /\ UNCHANGED <<mainVars, powerVars>>
  <2>1. UNCHANGED main
    BY <1>2 DEF mainVars
  <2>2. CASE \E t \in Asker : ServeStart(t)
    <3>1. \E t \in Asker, answer \in {"started", "refused"} : request' = [request EXCEPT ![t] = answer]
      BY <2>2, RadioServed DEF CvTypes
    <3> QED
      BY <1>1, <2>1, <3>1 DEF AskedFor, Asker
  <2>3. CASE OnServiceAvailable
    <3>1. \E answer \in Request : request' = [request EXCEPT !["radio"] = answer]
      BY <2>3 DEF OnServiceAvailable, StartV2xRadio, Answered, Request
    <3> QED
      BY <1>1, <2>1, <3>1 DEF AskedFor, Asker
  <2>4. CASE UNCHANGED request
    BY <1>1, <2>1, <2>4 DEF AskedFor
  <2>5. \/ UNCHANGED request
        \/ OnServiceAvailable
        \/ \E t \in Asker : ServeStart(t)
    <3>1. CASE \/ \E t \in Starter : FindProfilesFails(t) \/ FindProfiles(t) \/ Join(t)
                                     \/ SetInitializationDone(t)
               \/ \E t \in Starter, k \in Kind : Leg(t, k)
      BY <3>1 DEF FindProfilesFails, FindProfiles, Join, SetInitializationDone, Leg, StartDataCall,
         WaitDataCallConnect, modemVars
    <3>2. CASE RadioListener \/ InitDataLibrary \/ DataServiceAvailable \/ RadioBack
      BY <3>2 DEF RadioListener, OnStatusChanged, OnServiceUnavailable, InitDataLibrary,
         DataServiceAvailable, RadioBack, modemVars
    <3>3. CASE (\E k \in Kind : OnDataCallInfoChanged(k) \/ Connect(k))
               \/ ModemFails \/ RadioRecovers \/ DataRecovers
      BY <3>3 DEF OnDataCallInfoChanged, Connect, ModemFails, RadioRecovers, DataRecovers, modemVars
    <3> QED
      BY <1>2, <3>1, <3>2, <3>3 DEF TeluxNext
  <2> QED
    BY <2>2, <2>3, <2>4, <2>5
<1>3. CASE BootFails \/ TerminationHandler \/ OnForeignInfo
  <2>1. /\ UNCHANGED request
        /\ \/ Troubles(0, Late)
           \/ Troubles(1, {"radioFailed"} \cup Late)
    BY <1>3 DEF BootFails, TerminationHandler, OnForeignInfo, Exits, DeInit, Gone, Trouble
  <2>2. request["main"] = "asked" => "late" \in cause'
    BY <2>1 DEF Troubles, Late, Asker
  <2> QED
    BY <2>1, <2>2 DEF AskedFor
<1>4. CASE StartV2xMode
  BY <1>4 DEF StartV2xMode, AskedFor
<1>5. CASE V2xModeStarted \/ Resumed
  <2>1. CASE \E answer \in {"started", "refused"} : Answered("main", answer)
    BY <1>1, <2>1 DEF Answered, AskedFor, Asker
  <2>2. CASE main = "resume" /\ UNCHANGED request
    BY <1>1, <2>2 DEF AskedFor
  <2> QED
    BY <1>5, <2>1, <2>2 DEF V2xModeStarted, Resumed, modemVars
<1>6. CASE \/ MainThread /\ ~BootFails /\ ~StartV2xMode /\ ~V2xModeStarted /\ ~Resumed
           \/ Wait \/ OnTcuActivityStateUpdate \/ Suspend \/ Resume \/ Shutdown \/ PowerDown
           \/ UNCHANGED vars
  <2>1. UNCHANGED request
    BY <1>6 DEF MainThread, RegisterListeners, DataReady, DataCallsStarted, EnableSysPowerNotification,
       HandleSystemStateChange, SendActivityStateAck, Wait, OnTcuActivityStateUpdate, Suspend, Resume,
       Shutdown, PowerDown, PowerChange, vars, teluxVars, modemVars
  <2>2. main' = main \/ main \notin {"modeStart", "resumeStart"}
    BY <1>6 DEF MainThread, RegisterListeners, DataReady, DataCallsStarted, EnableSysPowerNotification,
       HandleSystemStateChange, SendActivityStateAck, Wait, OnTcuActivityStateUpdate, Suspend, Resume,
       Shutdown, PowerDown, PowerChange, vars, mainVars
  <2> QED
    BY <1>1, <2>1, <2>2 DEF AskedFor
<1> QED
  BY <1>2, <1>3, <1>4, <1>5, <1>6 DEF Next, MainThread

-----------------------------------------------------------------------------
(* The daemon.                                                             *)

CvIInv == CvTypes /\ InformedLegs /\ NoRestart /\ AskedFor /\ PowerKnown

\* The invariant holds at first ...
LEMMA CvInitially == Init => CvIInv
<1> SUFFICES ASSUME Init PROVE CvIInv
  OBVIOUS
<1> USE DEF Init, TeluxInit
<1>1. CvTypes
  <2>1. \A S : <<>> \in Seq(S)
    OBVIOUS
  <2>2. notices \in Seq(Notice)
    BY <2>1
  <2>3. info \in [Kind -> Seq(News)]
    BY <2>1
  <2>4. troubles \in 0 .. MaxTrouble
    BY TroubleAssumption
  <2>5. RadioTypes
    BY <2>2, <2>3, <2>4 DEF RadioTypes
  <2>6. FlagTypes /\ ListenTypes /\ ModemTypes
    BY DEF FlagTypes, ListenTypes, ModemTypes, Status, Request
  <2>7. StartTypes
    BY DEF StartTypes, Step, LegStep, NoLegs
  <2>8. MainTypes
    BY DEF MainTypes, MainStep
  <2> QED
    BY <2>5, <2>6, <2>7, <2>8, TypesByPart
<1>2. InformedLegs
  BY DEF InformedLegs, NoLegs
<1>3. NoRestart
  <2>1. notices \in Seq(Quieter)
    OBVIOUS
  <2> QED
    BY <2>1 DEF NoRestart, ServicesUp, StartersInTurn, MainCalls, Starter, Asker
<1>4. PowerKnown
  BY DEF PowerKnown, Notified, Acknowledging, Acknowledged, InHand, Exited
<1>5. AskedFor
  BY DEF AskedFor, Asker
<1> QED
  BY <1>1, <1>2, <1>3, <1>4, <1>5 DEF CvIInv

\* ... and always.
LEMMA CvInductive == Spec => []CvIInv
<1>1. CvIInv /\ [Next]_vars => CvIInv'
  BY CvTypesKept, InformedKept, NoRestartKept, AskedKept, PowerKept DEF CvIInv
<1> QED
  BY <1>1, CvInitially, PTL DEF Spec

\* The data calls are started by one thread at a time until the modem restarts, and whoever
\* waits for a call has news to come, unless the news came before the wait.
THEOREM CvStartsSound == Spec => []StartsSound
<1> SUFFICES ASSUME CvIInv PROVE StartsSound
  BY CvInductive, PTL
<1>1. TypeOK
  BY DEF CvIInv, CvTypes
<1>2. OneStarter
  <2> SUFFICES ASSUME "ssr" \notin cause PROVE Cardinality(Starting) <= 1
    BY DEF OneStarter
  <2>1. StartersInTurn /\ MainCalls
    BY DEF CvIInv, NoRestart
  <2>2. \A t, u \in Starting : t = u
    BY <2>1 DEF StartersInTurn, MainCalls, Starting, Starter
  <2>3. Starting = {} \/ \E t \in Starting : Starting = {t}
    BY <2>2
  <2>4. Cardinality(Starting) = 0 \/ Cardinality(Starting) = 1
    BY <2>3, FS_EmptySet, FS_Singleton
  <2> QED
    BY <2>4
<1>3. NewsToCome
  BY DEF CvIInv, InformedLegs, NewsToCome
<1> QED
  BY <1>1, <1>2, <1>3 DEF StartsSound

\* A suspend that was notified is in the main thread's hands until it is acknowledged, and the
\* system sleeps on an acknowledgement, or is left by the daemon, with the radio off, unless
\* one of the causes the history names went before.
THEOREM CvSuspendHandled == Spec => []SuspendHandled
<1> SUFFICES ASSUME CvIInv PROVE SuspendHandled
  BY CvInductive, PTL
<1>1. SuspendInHand
  BY DEF CvIInv, PowerKnown, InHand, SuspendInHand
<1>2. SleepsQuiet
  BY DEF CvIInv, PowerKnown, Acknowledged, Exited, OffOrBlamed, SleepsQuiet
<1> QED
  BY <1>1, <1>2 DEF SuspendHandled

=============================================================================
