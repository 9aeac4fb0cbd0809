---------------------------- MODULE ECall_proofs ----------------------------
(***************************************************************************)
(* Proofs about the eCall application.                                     *)
(*                                                                         *)
(* VoiceSession, for any number of calls and of unanswered requests: the   *)
(* session follows the call unless a request was refused or sent too soon, *)
(* and a running session is known unless its stream was overwritten.      *)
(*                                                                         *)
(* ECallApp with ThermShutdown, for any number of calls, of requests of    *)
(* the user and of events of the thermal service: what the application has *)
(* switched follows its calls, unless one of the causes that the history   *)
(* names went before.                                                      *)
(***************************************************************************)
EXTENDS ECallApp, VoiceSession, SequenceTheorems, FiniteSetTheorems, TLAPS

-----------------------------------------------------------------------------
(* The voice session.                                                      *)

\* A session that was not disturbed goes through these phases; at most one
\* request is unanswered.
Held == audioVoiceStream_ # NoStream
Down(reqs) == audioReq = reqs /\ voiceOn = {} /\ ~voiceEnabled_
Phase ==
    \/ Down(<<>>) /\ ~inCall /\ ~Held
    \/ Down(Request("create")) /\ inCall /\ ~Held
    \/ Down(Request("start")) /\ inCall /\ Held
    \/ audioReq = <<>> /\ inCall /\ Held /\ voiceOn # {} /\ voiceEnabled_
    \/ audioReq = Request("stop") /\ ~inCall /\ Held /\ voiceOn # {} /\ voiceEnabled_
    \/ Down(Request("delete")) /\ ~inCall /\ Held

\* Disturbed or not, a stream is created for nobody but the call that asked for it,
\* unless the session is both stopped and started too soon.
NoCreate(q) == \A i \in 1 .. Len(q) : q[i].op # "create"
CreateAlone == NoCreate(audioReq) \/ (audioReq = Request("create") /\ ~Held)
AfterCall ==
    ~inCall /\ audioReq # <<>> => Held /\ audioReq \in {Request("stop"), Request("delete")}

VoiceIInv ==
    /\ VoiceTypeOK /\ RunningKnown
    /\ voiceCause = {} => Phase
    /\ "stopTooSoon" \notin voiceCause => AfterCall
    /\ "stopTooSoon" \notin voiceCause \/ "startTooSoon" \notin voiceCause
         => CreateAlone /\ "overwritten" \notin voiceCause

LEMMA OneRequest ==
  ASSUME NEW r
  PROVE  /\ <<r>> # <<>> /\ Head(<<r>>) = r /\ Tail(<<r>>) = <<>>
         /\ <<>> \o <<r>> = <<r>> /\ Append(<<>>, r) = <<r>>
         /\ r \in AudioRequest => <<r>> \in Seq(AudioRequest)
         /\ <<>> \in Seq(AudioRequest)
  OBVIOUS

\* What is asked for the stream that is held.
LEMMA Requested ==
  ASSUME VoiceTypeOK, NEW op \in AudioOp
  PROVE  /\ Request(op) # <<>> /\ Head(Request(op)).op = op
         /\ Head(Request(op)).on = audioVoiceStream_
         /\ Tail(Request(op)) = <<>> /\ <<>> \o Request(op) = Request(op)
         /\ Request(op) \in Seq(AudioRequest)
         /\ NoCreate(Request(op)) <=> op # "create"
<1> DEFINE r == [op |-> op, on |-> audioVoiceStream_]
<1>1. r \in AudioRequest
  BY DEF VoiceTypeOK, AudioRequest
<1>2. Request(op) = <<r>>
  BY DEF Request
<1>3. Len(<<r>>) = 1 /\ <<r>>[1] = r
  OBVIOUS
<1>4. NoCreate(<<r>>) <=> op # "create"
  BY <1>3 DEF NoCreate
<1> QED
  BY <1>1, <1>2, <1>4, OneRequest

\* What an answer leaves of the requests.
LEMMA RequestsLeft ==
  ASSUME VoiceTypeOK, audioReq # <<>>
  PROVE  /\ Tail(audioReq) \in Seq(AudioRequest) /\ Head(audioReq) \in AudioRequest
         /\ NoCreate(audioReq) => NoCreate(Tail(audioReq)) /\ Head(audioReq).op # "create"
<1>1. audioReq \in Seq(AudioRequest)
  BY DEF VoiceTypeOK
<1>2. /\ Tail(audioReq) \in Seq(AudioRequest) /\ Head(audioReq) \in AudioRequest
      /\ Head(audioReq) = audioReq[1] /\ Len(audioReq) \in Nat \ {0}
      /\ Len(Tail(audioReq)) = Len(audioReq) - 1
      /\ \A i \in 1 .. Len(audioReq) - 1 : Tail(audioReq)[i] = audioReq[i + 1]
  BY <1>1
<1> QED
  BY <1>2 DEF NoCreate

\* What is appended to them.
LEMMA Appended ==
  ASSUME NEW q \in Seq(AudioRequest), NEW r \in AudioRequest
  PROVE  /\ q \o <<r>> \in Seq(AudioRequest) /\ Append(q, r) = q \o <<r>> /\ q \o <<>> = q
         /\ NoCreate(q) /\ r.op # "create" => NoCreate(q \o <<r>>)
<1>1. /\ q \o <<r>> \in Seq(AudioRequest) /\ Append(q, r) = q \o <<r>> /\ q \o <<>> = q
      /\ Len(q) \in Nat /\ Len(q \o <<r>>) = Len(q) + 1
      /\ \A i \in 1 .. Len(q) : (q \o <<r>>)[i] = q[i]
      /\ (q \o <<r>>)[Len(q) + 1] = r
  OBVIOUS
<1> QED
  BY <1>1 DEF NoCreate

LEMMA RequestAppended ==
  ASSUME VoiceTypeOK, NEW q \in Seq(AudioRequest), NEW op \in AudioOp
  PROVE  /\ q \o Request(op) \in Seq(AudioRequest) /\ q \o <<>> = q
         /\ NoCreate(q) /\ op # "create" => NoCreate(q \o Request(op))
<1> DEFINE r == [op |-> op, on |-> audioVoiceStream_]
<1>1. r \in AudioRequest /\ r.op = op /\ Request(op) = <<r>>
  BY DEF VoiceTypeOK, AudioRequest, Request
<1> QED
  BY <1>1, Appended

LEMMA InitPhase == VoiceInit => VoiceIInv
<1> SUFFICES ASSUME VoiceInit PROVE VoiceIInv
  OBVIOUS
<1>1. VoiceTypeOK
  <2>1. audioReq \in Seq(AudioRequest) /\ count \in 0 .. MaxVoiceCall
    BY VoiceAssumption DEF VoiceInit
  <2> QED BY <2>1 DEF VoiceInit, VoiceTypeOK, NoStream
<1>2. NoCreate(audioReq)
  BY DEF NoCreate, VoiceInit
<1> QED
  BY <1>1, <1>2
  DEF VoiceInit, VoiceIInv, RunningKnown, Phase, Down, Held, AfterCall, CreateAlone

LEMMA StartKeeps == VoiceIInv /\ StartVoiceSession => VoiceIInv'
<1> SUFFICES ASSUME VoiceIInv, StartVoiceSession PROVE VoiceIInv'
  OBVIOUS
<1> USE DEF VoiceIInv
<1>1. \/ StartRequest = <<>> /\ voiceEnabled_
      \/ StartRequest = Request("create") /\ ~Held
      \/ StartRequest = Request("start") /\ Held
  BY DEF StartRequest, Held
<1>2. audioReq' \in Seq(AudioRequest)
  BY <1>1, RequestAppended DEF AudioOp, StartVoiceSession, VoiceTypeOK
<1>3. VoiceTypeOK'
  BY <1>2, VoiceAssumption DEF VoiceTypeOK, StartVoiceSession, VoiceBlame, VoiceCause
<1>4. RunningKnown'
  BY DEF RunningKnown, StartVoiceSession, VoiceBlame
<1>5. ASSUME voiceCause' = {} PROVE Phase'
  <2>1. voiceCause = {} /\ audioReq = <<>>
    BY <1>5 DEF StartVoiceSession, VoiceBlame
  <2>2. voiceOn = {} /\ ~voiceEnabled_ /\ ~Held
    BY <2>1, Requested DEF Phase, Down, StartVoiceSession, AudioOp
  <2>3. audioReq' = Request("create") /\ Request("create")' = Request("create")
        /\ inCall' /\ UNCHANGED <<voiceOn, voiceEnabled_, audioVoiceStream_>>
    BY <1>1, <2>1, <2>2, Requested DEF StartVoiceSession, AudioOp, Request
  <2> QED BY <2>2, <2>3 DEF Phase, Down, Held
<1>6. AfterCall'
  BY DEF AfterCall, StartVoiceSession
<1>7. ASSUME "stopTooSoon" \notin voiceCause' \/ "startTooSoon" \notin voiceCause'
      PROVE  CreateAlone' /\ "overwritten" \notin voiceCause'
  <2>1. /\ "stopTooSoon" \notin voiceCause \/ "startTooSoon" \notin voiceCause
        /\ "overwritten" \notin voiceCause' /\ CreateAlone
    BY <1>7 DEF StartVoiceSession, VoiceBlame
  <2>2. CASE audioReq = <<>>
    <3>1. audioReq' = StartRequest
      BY <1>1, <2>2, Requested DEF StartVoiceSession, AudioOp
    <3>2. \/ audioReq' = <<>> \/ NoCreate(audioReq')
          \/ audioReq' = Request("create") /\ ~Held
      BY <1>1, <3>1, Requested DEF AudioOp
    <3> QED
      BY <2>1, <3>2 DEF CreateAlone, NoCreate, Held, Request, StartVoiceSession
  <2>3. CASE audioReq # <<>>
    <3>1. Held /\ audioReq \in {Request("stop"), Request("delete")}
      BY <1>7, <2>3 DEF StartVoiceSession, VoiceBlame, AfterCall
    <3>2. NoCreate(audioReq) /\ audioReq \in Seq(AudioRequest)
      BY <3>1, Requested DEF AudioOp, VoiceTypeOK
    <3>3. audioReq' = audioReq \/ audioReq' = audioReq \o Request("start")
      BY <1>1, <3>1, <3>2, RequestAppended DEF StartVoiceSession, AudioOp
    <3>4. NoCreate(audioReq')
      BY <3>2, <3>3, RequestAppended DEF AudioOp
    <3> QED BY <2>1, <3>4 DEF CreateAlone, NoCreate
  <2> QED BY <2>2, <2>3
<1> QED BY <1>3, <1>4, <1>5, <1>6, <1>7

LEMMA StopKeeps == VoiceIInv /\ StopVoiceSession => VoiceIInv'
<1> SUFFICES ASSUME VoiceIInv, StopVoiceSession PROVE VoiceIInv'
  OBVIOUS
<1> USE DEF VoiceIInv
<1>1. \/ StopRequest = <<>>
      \/ StopRequest = Request("stop") /\ Held /\ voiceEnabled_
  BY DEF StopRequest, Held
<1>2. audioReq' \in Seq(AudioRequest)
  BY <1>1, RequestAppended DEF AudioOp, StopVoiceSession, VoiceTypeOK
<1>3. VoiceTypeOK'
  BY <1>2 DEF VoiceTypeOK, StopVoiceSession, VoiceBlame, VoiceCause
<1>4. RunningKnown'
  BY DEF RunningKnown, StopVoiceSession, VoiceBlame
<1>5. ASSUME voiceCause' = {} PROVE Phase'
  <2>1. voiceCause = {} /\ audioReq = <<>>
    BY <1>5 DEF StopVoiceSession, VoiceBlame
  <2>2. voiceOn # {} /\ voiceEnabled_ /\ Held
    BY <2>1, Requested DEF Phase, Down, StopVoiceSession, AudioOp
  <2>3. audioReq' = Request("stop") /\ Request("stop")' = Request("stop")
        /\ ~inCall' /\ UNCHANGED <<voiceOn, voiceEnabled_, audioVoiceStream_>>
    BY <2>1, <2>2, Requested DEF StopVoiceSession, StopRequest, AudioOp, Request, Held
  <2> QED BY <2>2, <2>3 DEF Phase, Held
<1>6. ASSUME "stopTooSoon" \notin voiceCause' PROVE AfterCall'
  <2>1. audioReq = <<>>
    BY <1>6 DEF StopVoiceSession, VoiceBlame
  <2>2. audioReq' = <<>> \/ (audioReq' = Request("stop") /\ Held)
    BY <1>1, <2>1, Requested DEF StopVoiceSession, AudioOp
  <2> QED BY <2>2 DEF AfterCall, Held, Request, StopVoiceSession
<1>7. ASSUME "stopTooSoon" \notin voiceCause' \/ "startTooSoon" \notin voiceCause'
      PROVE  CreateAlone' /\ "overwritten" \notin voiceCause'
  <2>1. "overwritten" \notin voiceCause' /\ CreateAlone
    BY <1>7 DEF StopVoiceSession, VoiceBlame
  <2>2. CASE NoCreate(audioReq)
    <3>1. NoCreate(audioReq')
      BY <1>1, <2>2, RequestAppended DEF AudioOp, StopVoiceSession, VoiceTypeOK
    <3> QED BY <2>1, <3>1 DEF CreateAlone, NoCreate
  <2>3. CASE audioReq = Request("create") /\ ~Held
    <3>1. audioReq' = audioReq
      BY <1>1, <2>3 DEF StopVoiceSession, VoiceTypeOK
    <3> QED BY <2>1, <2>3, <3>1 DEF CreateAlone, Held, Request, StopVoiceSession
  <2> QED BY <2>1, <2>2, <2>3 DEF CreateAlone
<1> QED BY <1>3, <1>4, <1>5, <1>6, <1>7

LEMMA AnswerTypes == VoiceIInv /\ AudioService => VoiceTypeOK' /\ RunningKnown'
<1> SUFFICES ASSUME VoiceIInv, AudioService PROVE VoiceTypeOK' /\ RunningKnown'
  OBVIOUS
<1> USE DEF VoiceIInv
<1>1. /\ audioReq # <<>> /\ Tail(audioReq) \in Seq(AudioRequest)
      /\ Head(audioReq) \in AudioRequest
  <2>1. audioReq # <<>>
    BY DEF AudioService, CreateAnswered, StartAnswered, StopAnswered, DeleteAnswered, Refuses, Oldest
  <2> QED BY <2>1, RequestsLeft
<1>2. CASE CreateAnswered
  <2>1. [op |-> "start", on |-> made'] \in AudioRequest
    BY <1>2 DEF CreateAnswered, VoiceTypeOK, AudioRequest, AudioOp
  <2>2. audioReq' \in Seq(AudioRequest)
    BY <1>1, <1>2, <2>1, Appended DEF CreateAnswered
  <2>3. made' \in Nat /\ made' # NoStream /\ made' = made + 1
        /\ streamUp' = streamUp \cup {made'} /\ streamUp' \in SUBSET (1 .. made')
    BY <1>2 DEF CreateAnswered, VoiceTypeOK, NoStream
  <2>4. VoiceTypeOK'
    BY <1>2, <2>2, <2>3 DEF CreateAnswered, VoiceTypeOK, VoiceBlame, VoiceCause
  <2>5. ASSUME "overwritten" \notin voiceCause'
        PROVE  streamUp' = {audioVoiceStream_'} \ {NoStream} /\ (voiceOn' # {} => voiceEnabled_')
    <3>1. "overwritten" \notin voiceCause /\ audioVoiceStream_ = NoStream
      BY <1>2, <2>5 DEF CreateAnswered, VoiceBlame
    <3>2. streamUp = {} /\ (voiceOn # {} => voiceEnabled_)
      BY <3>1 DEF RunningKnown
    <3> QED BY <1>2, <2>3, <3>2 DEF CreateAnswered
  <2> QED BY <2>4, <2>5 DEF RunningKnown
<1>3. CASE StartAnswered
  <2>1. VoiceTypeOK'
    BY <1>1, <1>3 DEF StartAnswered, VoiceTypeOK, EnabledAfterStart
  <2>2. RunningKnown'
    BY <1>3 DEF StartAnswered, RunningKnown, EnabledAfterStart
  <2> QED BY <2>1, <2>2
<1>4. CASE StopAnswered
  <2>1. audioReq' \in Seq(AudioRequest)
    BY <1>1, <1>4, RequestAppended DEF StopAnswered, AfterStop, AudioOp
  <2>2. VoiceTypeOK'
    BY <1>4, <2>1 DEF StopAnswered, VoiceTypeOK
  <2>3. RunningKnown'
    BY <1>4 DEF StopAnswered, RunningKnown, VoiceTypeOK
  <2> QED BY <2>2, <2>3
<1>5. CASE DeleteAnswered
  <2>1. VoiceTypeOK'
    BY <1>1, <1>5 DEF DeleteAnswered, VoiceTypeOK, NoStream
  <2>2. RunningKnown'
    BY <1>5 DEF DeleteAnswered, RunningKnown, VoiceTypeOK
  <2> QED BY <2>1, <2>2
<1>6. CASE Refuses
  <2>1. VoiceTypeOK'
    BY <1>1, <1>6 DEF Refuses, VoiceTypeOK, VoiceCause
  <2>2. RunningKnown'
    BY <1>6 DEF Refuses, RunningKnown
  <2> QED BY <2>1, <2>2
<1> QED BY <1>2, <1>3, <1>4, <1>5, <1>6 DEF AudioService

LEMMA AnswerPhase == VoiceIInv /\ AudioService /\ voiceCause' = {} => Phase'
<1> SUFFICES ASSUME VoiceIInv, AudioService, voiceCause' = {} PROVE Phase'
  OBVIOUS
<1> USE DEF VoiceIInv, AudioOp
<1>1. voiceCause = {} /\ Phase
  BY DEF AudioService, CreateAnswered, StartAnswered, StopAnswered, DeleteAnswered, Refuses,
         VoiceBlame
<1>2. streamUp = {audioVoiceStream_} \ {NoStream} /\ voiceOn \in SUBSET streamUp
  BY <1>1 DEF RunningKnown, VoiceTypeOK
<1>3. CASE CreateAnswered
  <2>1. audioReq = Request("create") /\ inCall /\ voiceOn = {} /\ ~voiceEnabled_
    BY <1>1, <1>3, Requested DEF Phase, Down, CreateAnswered, Oldest
  <2>2. /\ audioReq' = <<[op |-> "start", on |-> made']>> /\ audioVoiceStream_' = made'
        /\ made' = made + 1 /\ made \in Nat /\ UNCHANGED <<voiceOn, voiceEnabled_, inCall>>
    BY <1>3, <2>1, Requested, OneRequest DEF CreateAnswered, VoiceTypeOK
  <2>3. audioReq' = Request("start")' /\ Held'
    BY <2>2 DEF Request, Held, NoStream
  <2> QED BY <2>1, <2>2, <2>3 DEF Phase, Down
<1>4. CASE StartAnswered
  <2>1. audioReq = Request("start") /\ inCall /\ Held
    BY <1>1, <1>4, Requested DEF Phase, Down, StartAnswered, Oldest
  <2>2. audioReq' = <<>> /\ voiceOn' # {} /\ voiceEnabled_' /\ UNCHANGED <<audioVoiceStream_, inCall>>
    BY <1>4, <2>1, Requested DEF StartAnswered, EnabledAfterStart
  <2> QED BY <2>1, <2>2 DEF Phase, Held
<1>5. CASE StopAnswered
  <2>1. audioReq = Request("stop") /\ ~inCall /\ Held /\ Of = audioVoiceStream_
    BY <1>1, <1>5, Requested DEF Phase, Down, StopAnswered, Oldest, Of
  <2>2. audioReq' = Request("delete") /\ voiceOn' = {} /\ ~voiceEnabled_'
        /\ UNCHANGED <<audioVoiceStream_, inCall>>
    BY <1>2, <1>5, <2>1, Requested DEF StopAnswered, AfterStop
  <2>3. Request("delete")' = Request("delete")
    BY <2>2 DEF Request
  <2> QED BY <2>1, <2>2, <2>3 DEF Phase, Down, Held
<1>6. CASE DeleteAnswered
  <2>1. audioReq = Request("delete") /\ ~inCall /\ voiceOn = {} /\ ~voiceEnabled_
    BY <1>1, <1>6, Requested DEF Phase, Down, DeleteAnswered, Oldest
  <2>2. audioReq' = <<>> /\ voiceOn' = {} /\ audioVoiceStream_' = NoStream
        /\ UNCHANGED <<voiceEnabled_, inCall>>
    BY <1>6, <2>1, Requested DEF DeleteAnswered
  <2> QED BY <2>1, <2>2 DEF Phase, Down, Held
<1> QED BY <1>3, <1>4, <1>5, <1>6 DEF AudioService, Refuses

LEMMA AnswerAlone ==
  ASSUME VoiceIInv, AudioService
  PROVE  /\ "stopTooSoon" \notin voiceCause' => AfterCall'
         /\ "stopTooSoon" \notin voiceCause' \/ "startTooSoon" \notin voiceCause'
              => CreateAlone' /\ "overwritten" \notin voiceCause'
<1> USE DEF VoiceIInv, AudioOp
<1>1. audioReq # <<>>
  BY DEF AudioService, CreateAnswered, StartAnswered, StopAnswered, DeleteAnswered, Refuses, Oldest
<1>2. ASSUME "stopTooSoon" \notin voiceCause' PROVE AfterCall'
  <2>1. SUFFICES ASSUME ~inCall' PROVE audioReq' = <<>> \/ (Held' /\ audioReq' = Request("delete")')
    BY DEF AfterCall
  <2>2. "stopTooSoon" \notin voiceCause /\ ~inCall
    BY <1>2, <2>1 DEF AudioService, CreateAnswered, StartAnswered, StopAnswered, DeleteAnswered,
                      Refuses
  <2>3. Held /\ audioReq \in {Request("stop"), Request("delete")}
    BY <1>1, <2>2 DEF AfterCall
  <2>4. Tail(audioReq) = <<>> /\ Head(audioReq).op \in {"stop", "delete"}
    BY <2>3, Requested
  <2>5. CASE StopAnswered
    BY <2>3, <2>4, <2>5, Requested DEF StopAnswered, AfterStop, Held, Request
  <2> QED
    BY <2>4, <2>5 DEF AudioService, CreateAnswered, StartAnswered, DeleteAnswered, Refuses, Oldest
<1>3. ASSUME "stopTooSoon" \notin voiceCause' \/ "startTooSoon" \notin voiceCause'
      PROVE  CreateAlone' /\ "overwritten" \notin voiceCause'
  <2>1. CreateAlone /\ "overwritten" \notin voiceCause
    BY <1>3 DEF AudioService, CreateAnswered, StartAnswered, StopAnswered, DeleteAnswered, Refuses,
                VoiceBlame
  <2>2. NoCreate(audioReq)' => CreateAlone'
    BY DEF CreateAlone
  <2>3. CASE CreateAnswered
    <3>1. Head(audioReq).op = "create"
      BY <2>3 DEF CreateAnswered, Oldest
    <3>2. audioReq = Request("create") /\ ~Held
      BY <1>1, <2>1, <3>1, RequestsLeft DEF CreateAlone
    <3>3. audioReq' = <<[op |-> "start", on |-> made']>>
      BY <2>3, <3>2, Requested, OneRequest DEF CreateAnswered
    <3>4. NoCreate(<<[op |-> "start", on |-> made']>>)
      BY DEF NoCreate
    <3>5. "overwritten" \notin voiceCause'
      BY <2>1, <2>3, <3>2 DEF CreateAnswered, VoiceBlame, Held
    <3> QED BY <3>3, <3>4, <3>5 DEF CreateAlone, NoCreate
  <2>4. CASE StartAnswered \/ StopAnswered \/ DeleteAnswered
    <3>1. Head(audioReq).op # "create"
      BY <2>4 DEF StartAnswered, StopAnswered, DeleteAnswered, Oldest
    <3>2. NoCreate(audioReq)
      BY <2>1, <3>1, Requested DEF CreateAlone
    <3>3. Tail(audioReq) \in Seq(AudioRequest) /\ NoCreate(Tail(audioReq))
      BY <1>1, <3>2, RequestsLeft
    <3>4. NoCreate(audioReq')
      BY <2>4, <3>3, RequestAppended DEF StartAnswered, StopAnswered, DeleteAnswered, AfterStop
    <3> QED
      BY <2>1, <2>4, <3>4 DEF CreateAlone, NoCreate, StartAnswered, StopAnswered, DeleteAnswered
  <2>5. CASE Refuses
    <3>1. NoCreate(Tail(audioReq))
      <4>1. CASE NoCreate(audioReq)
        BY <1>1, <4>1, RequestsLeft
      <4>2. CASE audioReq = Request("create")
        <5>1. Tail(audioReq) = <<>>
          BY <4>2, Requested
        <5> QED BY <5>1 DEF NoCreate
      <4> QED BY <2>1, <4>1, <4>2 DEF CreateAlone
    <3> QED BY <2>1, <2>5, <3>1 DEF CreateAlone, NoCreate, Refuses
  <2> QED BY <2>3, <2>4, <2>5 DEF AudioService
<1> QED BY <1>2, <1>3

\* Voice, stream and voiceEnabled_ follow the call (AudioClient.cpp), and a
\* running session is known even after refusals, unless its stream was overwritten
\* after a stop and a start that were both too soon; for any number of calls and of
\* requests under way.
THEOREM SessionFollows == VoiceSpec => []SessionFollowsCall
<1>1. VoiceInit => VoiceIInv
  BY InitPhase
<1>2. VoiceIInv /\ [VoiceNext]_voiceVars => VoiceIInv'
  <2> SUFFICES ASSUME VoiceIInv, [VoiceNext]_voiceVars PROVE VoiceIInv'
    OBVIOUS
  <2>1. CASE UNCHANGED voiceVars
    BY <2>1 DEF voiceVars, VoiceIInv, VoiceTypeOK, RunningKnown, Phase, Down, Held, Request,
                AfterCall, CreateAlone, NoCreate
  <2>2. CASE AudioService
    BY <2>2, AnswerTypes, AnswerPhase, AnswerAlone DEF VoiceIInv
  <2> QED BY <2>1, <2>2, StartKeeps, StopKeeps DEF VoiceNext
<1>3. VoiceIInv => SessionFollowsCall
  <2> SUFFICES ASSUME VoiceIInv PROVE SessionFollowsCall
    OBVIOUS
  <2>1. audioReq = <<>> /\ voiceCause = {}
        => \/ ~inCall /\ ~Held /\ voiceOn = {} /\ ~voiceEnabled_
           \/ inCall /\ Held /\ voiceOn # {} /\ voiceEnabled_
    <3>1. \A op \in AudioOp : Request(op) # <<>>
      BY Requested DEF VoiceIInv
    <3> QED BY <3>1 DEF VoiceIInv, Phase, Down, AudioOp
  <2>2. VoiceFollowsCall
    <3>1. voiceEnabled_ \in BOOLEAN /\ inCall \in BOOLEAN
      BY DEF VoiceIInv, VoiceTypeOK
    <3> QED BY <2>1, <3>1 DEF VoiceFollowsCall
  <2>3. StreamReleased
    BY <2>1 DEF VoiceIInv, RunningKnown, StreamReleased, Held
  <2>4. LostByHaste
    BY DEF VoiceIInv, LostByHaste
  <2> QED BY <2>2, <2>3, <2>4 DEF VoiceIInv, SessionFollowsCall
<1> QED BY <1>1, <1>2, <1>3, PTL DEF VoiceSpec

-----------------------------------------------------------------------------
(* The thermal mode.                                                       *)

\* Until a command is refused or overtaken, a mode that is enabled although it must
\* not be will be disabled again, and none is disabled that may be enabled.
ModeKept ==
    thermCause = {} =>
      /\ ~shutdownAllowed_ => registered /\ (mode = "enabled" => notice \/ thermPc = "disable")
      /\ shutdownAllowed_ => mode = "enabled" /\ thermPc = "idle"

LEMMA ThermKeeps ==
    ASSUME ThermTypeOK, ModeKept,
           \/ DisableAutoShutdown \/ EnableAutoShutdown \/ ThermListener \/ Reenable
           \/ UNCHANGED thermVars
    PROVE  ThermTypeOK' /\ ModeKept'
<1> USE DEF ThermTypeOK, ModeKept
<1>1. CASE DisableAutoShutdown
  BY <1>1 DEF DisableAutoShutdown, ThermRefused
<1>2. CASE EnableAutoShutdown
  BY <1>2 DEF EnableAutoShutdown, ThermRefused, AllowedAfterCall
<1>3. CASE OnShutdownEnabled
  BY <1>3 DEF OnShutdownEnabled, MustDisable
<1>4. CASE SendDisable
  BY <1>4 DEF SendDisable, ThermRefused
<1>5. CASE Reenable
  BY <1>5, ThermAssumption DEF Reenable
<1>6. CASE UNCHANGED thermVars
  BY <1>6 DEF thermVars
<1> QED
  BY <1>1, <1>2, <1>3, <1>4, <1>5, <1>6 DEF ThermListener

\* What switching the mode off and on leaves at the application.
LEMMA ThermSwitched ==
    ASSUME ThermTypeOK
    PROVE  /\ DisableAutoShutdown /\ "refused" \notin thermCause' => ~shutdownAllowed_'
           /\ EnableAutoShutdown => shutdownAllowed_'
           /\ DisableAutoShutdown \/ EnableAutoShutdown \/ ThermListener \/ Reenable
                => ("refused" \in thermCause => "refused" \in thermCause')
           /\ ThermListener \/ Reenable => UNCHANGED shutdownAllowed_
<1>1. DisableAutoShutdown /\ "refused" \notin thermCause' => ~shutdownAllowed_'
  BY DEF DisableAutoShutdown, ThermRefused
<1>2. EnableAutoShutdown => shutdownAllowed_'
  BY DEF EnableAutoShutdown, AllowedAfterCall
<1>3. DisableAutoShutdown \/ EnableAutoShutdown \/ ThermListener \/ Reenable
        => thermCause \subseteq thermCause'
  BY DEF DisableAutoShutdown, EnableAutoShutdown, ThermListener, OnShutdownEnabled, SendDisable,
         Reenable, ThermRefused
<1>4. ThermListener \/ Reenable => UNCHANGED shutdownAllowed_
  BY DEF ThermListener, OnShutdownEnabled, SendDisable, Reenable
<1> QED
  BY <1>1, <1>2, <1>3, <1>4

-----------------------------------------------------------------------------
(* Types.                                                                  *)

Made(c, ok) == [kind |-> "make", call |-> c, ok |-> ok]
Answered(c, ok) == [kind |-> "answer", call |-> c, ok |-> ok]
HungUp(c) == [kind |-> "end", call |-> c, ok |-> TRUE]

\* The callbacks there are.
LEMMA CallbackKinds ==
    /\ \A c \in Call, ok \in BOOLEAN : Made(c, ok) \in Callback /\ Answered(c, ok) \in Callback
    /\ \A c \in Call : HungUp(c) \in Callback
    /\ \A b \in Callback :
         /\ b.call \in Call /\ b.ok \in BOOLEAN
         /\ \/ b.kind = "make" /\ b = Made(b.call, b.ok)
            \/ b.kind = "answer" /\ b = Answered(b.call, b.ok)
            \/ b.kind = "end" /\ b = HungUp(b.call)
<1>1. /\ \A c \in Call, ok \in BOOLEAN : Made(c, ok) \in Callback /\ Answered(c, ok) \in Callback
      /\ \A c \in Call : HungUp(c) \in Callback
  BY DEF Callback, Made, Answered, HungUp
<1>2. ASSUME NEW b \in [kind : {"make", "answer"}, call : Call, ok : BOOLEAN]
      PROVE  /\ b.call \in Call /\ b.ok \in BOOLEAN
             /\ \/ b.kind = "make" /\ b = Made(b.call, b.ok)
                \/ b.kind = "answer" /\ b = Answered(b.call, b.ok)
  BY DEF Made, Answered
<1>3. ASSUME NEW b \in [kind : {"end"}, call : Call, ok : {TRUE}]
      PROVE  b.call \in Call /\ b.ok \in BOOLEAN /\ b.kind = "end" /\ b = HungUp(b.call)
  BY DEF HungUp
<1> QED
  BY <1>1, <1>2, <1>3 DEF Callback

LEMMA CallbacksDiffer ==
    \A c, d, o, p :
       /\ Made(c, o) # Answered(d, p) /\ Made(c, o) # HungUp(d) /\ Answered(c, o) # HungUp(d)
       /\ Made(c, o) = Made(d, p) => c = d /\ o = p
       /\ Answered(c, o) = Answered(d, p) => c = d /\ o = p
       /\ HungUp(c) = HungUp(d) => c = d
  BY DEF Made, Answered, HungUp

LEMMA ECallTypes ==
    ASSUME TypeOK, [Next]_vars
    PROVE  TypeOK'
<1> USE CallAssumption DEF TypeOK
<1>1. CASE TriggerECall \/ AnswerCall
  <2>1. DisableAutoShutdown
    BY <1>1 DEF TriggerECall, AnswerCall, Prepare, Setup
  <2>2. ThermTypeOK'
    BY <2>1 DEF ThermTypeOK, DisableAutoShutdown, ThermRefused
  <2>3. locVars' \in BOOLEAN \X BOOLEAN /\ phoneId_' = 1
    BY <1>1 DEF TriggerECall, AnswerCall, Prepare, Setup, Locate, locVars
  <2>4. user' \in {"calling", "answering"} /\ tries' \in 0 .. MaxTry
    BY <1>1 DEF TriggerECall, AnswerCall, Prepare
  <2>5. UNCHANGED <<eCallInprogress_, eCall_, callListener_, tel, nulls, calls, pending, mine, over,
                    cause>>
    BY <1>1 DEF TriggerECall, AnswerCall, Prepare, modemVars
  <2> QED
    BY <2>2, <2>3, <2>4, <2>5
<1>2. CASE RequestFails
  <2>1. EnableAutoShutdown
    BY <1>2 DEF RequestFails, Cleanup
  <2>2. ThermTypeOK'
    BY <2>1 DEF ThermTypeOK, EnableAutoShutdown, ThermRefused, AllowedAfterCall
  <2> QED
    BY <1>2, <2>2 DEF RequestFails, Cleanup, LocationAfterCall, Locate, locVars, modemVars
<1>3. CASE \E c \in Call : StartECall(c)
  <2>1. UNCHANGED thermVars
    BY <1>3 DEF StartECall
  <2>2. ThermTypeOK'
    BY <2>1 DEF ThermTypeOK, thermVars
  <2> QED
    BY <1>3, <2>2 DEF StartECall, locVars, CallState
<1>4. CASE \E c \in Call : Answer(c)
  <2>1. UNCHANGED thermVars
    BY <1>4 DEF Answer
  <2>2. ThermTypeOK'
    BY <2>1 DEF ThermTypeOK, thermVars
  <2> QED
    BY <1>4, <2>2 DEF Answer, locVars, CallState, Cause
<1>5. CASE AssignListener \/ ClearProgress \/ ClearCall \/ UNCHANGED vars
  <2>1. UNCHANGED thermVars
    BY <1>5 DEF AssignListener, ClearProgress, ClearCall, vars
  <2>2. ThermTypeOK'
    BY <2>1 DEF ThermTypeOK, thermVars
  <2> QED
    BY <1>5, <2>2 DEF AssignListener, ClearProgress, ClearCall, vars, telVars, locVars, modemVars,
                      ProgressAfterCall
<1>6. CASE \E b \in pending : RunClearDown(b)
  <2>1. PICK b \in pending : RunClearDown(b)
    BY <1>6
  <2>2. b \in Callback /\ b.call \in Call
    BY CallbackKinds
  <2>3. EnableAutoShutdown \/ UNCHANGED thermVars
    BY <2>1 DEF RunClearDown, ClearDown, Cleanup
  <2>4. ThermTypeOK'
    BY <2>3 DEF ThermTypeOK, EnableAutoShutdown, ThermRefused, AllowedAfterCall, thermVars
  <2>5. cause' \in SUBSET Cause
    BY <2>1 DEF RunClearDown, Noted, Blame, Cause
  <2>6. phoneId_' \in {-1, 1} /\ locVars' \in BOOLEAN \X BOOLEAN /\ callListener_' \in BOOLEAN
    BY <2>1 DEF RunClearDown, ClearDown, Cleanup, LocationAfterCall, Locate, locVars
  <2>7. /\ tel' \in {"idle", "clearing", "nulling"} /\ nulls' \in BOOLEAN
        /\ pending' \in SUBSET Callback /\ over' \in SUBSET Call
    BY <2>1, <2>2 DEF RunClearDown
  <2> QED
    BY <2>1, <2>4, <2>5, <2>6, <2>7 DEF RunClearDown
<1>7. CASE \E b \in pending : RunPlain(b)
  <2>1. PICK b \in pending : RunPlain(b)
    BY <1>7
  <2>2. b \in Callback /\ b.call \in Call
    BY CallbackKinds
  <2>3. ThermTypeOK'
    BY <2>1 DEF RunPlain, ThermTypeOK, thermVars
  <2>4. cause' \in SUBSET Cause
    BY <2>1 DEF RunPlain, Blame, Cause
  <2> QED
    BY <2>1, <2>2, <2>3, <2>4 DEF RunPlain, FollowedCall, locVars
<1>8. CASE ModemStep
  <2>1. PICK c \in Call, state \in CallState, news \in SUBSET Callback : Modem(c, state, news)
    <3>1. \A c \in Call : {} \in SUBSET Callback
      OBVIOUS
    <3>2. PICK c \in Call : Rings(c) \/ Ends(c) \/ \E ok \in BOOLEAN : Responds(c, ok)
      BY <1>8 DEF ModemStep
    <3>3. CASE Rings(c)
      BY <3>3 DEF Rings, CallState
    <3>4. CASE Ends(c)
      <4>1. {HungUp(c)} \cup (IF calls[c] = "answering" THEN {Answered(c, FALSE)} ELSE {})
              \in SUBSET Callback
        BY CallbackKinds
      <4>2. "ended" \in CallState
        BY DEF CallState
      <4> QED
        BY <3>4, <4>1, <4>2 DEF Ends, HungUp, Answered
    <3>5. CASE \E ok \in BOOLEAN : Responds(c, ok)
      <4>1. PICK ok \in BOOLEAN : Responds(c, ok)
        BY <3>5
      <4>2. {Made(c, ok)} \in SUBSET Callback /\ {Answered(c, ok)} \in SUBSET Callback
        BY CallbackKinds
      <4>3. (IF ok THEN "alive" ELSE "ended") \in CallState
            /\ (IF ok THEN "alive" ELSE "incoming") \in CallState
        BY DEF CallState
      <4> QED
        BY <4>1, <4>2, <4>3 DEF Responds, Made, Answered
    <3> QED
      BY <3>2, <3>3, <3>4, <3>5
  <2>2. ThermTypeOK'
    BY <2>1 DEF Modem, ThermTypeOK, thermVars
  <2> QED
    BY <2>1, <2>2 DEF Modem, telVars, locVars
<1>9. CASE ThermStep \/ ThermService
  <2>1. ThermTypeOK'
    <3>1. CASE OnShutdownEnabled
      BY <3>1 DEF OnShutdownEnabled, MustDisable, ThermTypeOK
    <3>2. CASE SendDisable
      BY <3>2 DEF SendDisable, ThermRefused, ThermTypeOK
    <3>3. CASE Reenable
      BY <3>3, ThermAssumption DEF Reenable, ThermTypeOK
    <3> QED
      BY <1>9, <3>1, <3>2, <3>3 DEF ThermStep, ThermService, ThermListener
  <2> QED
    BY <1>9, <2>1 DEF ThermStep, ThermService, telVars, locVars, modemVars
<1> QED
  BY <1>1, <1>2, <1>3, <1>4, <1>5, <1>6, <1>7, <1>8, <1>9 DEF Next, UserStep, TelStep

-----------------------------------------------------------------------------
(* Where the application's calls are.                                      *)

\* eCall_ is this call, and no clear-down is on its way to forget it.
Follows(c) == eCall_ = c /\ tel = "idle"

\* A call of the application that has not been cleared down.
Engaged(c) ==
    /\ c \in mine
    /\ \/ calls[c] \in {"dialing", "answering", "alive"}
       \/ \E ok \in BOOLEAN : Made(c, ok) \in pending
       \/ Follows(c)
AnyEngaged == \E c \in Call : Engaged(c)
OneEngaged == \A c, d \in Call : Engaged(c) /\ Engaged(d) => c = d

\* What a state of a call at the modem, and a callback that is still to be run, say.
Free(c) == calls[c] = "free" => c \notin mine /\ eCall_ # c /\ \A b \in pending : b.call # c
Dialing(c) == calls[c] = "dialing" => /\ c \in mine /\ eCall_ # c
                                      /\ \A ok \in BOOLEAN : Made(c, ok) \notin pending
Answering(c) == calls[c] = "answering" => c \in mine /\ Follows(c)
Alive(c) == calls[c] = "alive" /\ c \in mine => Follows(c) \/ Made(c, TRUE) \in pending
Ended(c) == c \in over \/ HungUp(c) \in pending => calls[c] = "ended"
MadeCall(c) == Made(c, TRUE) \in pending =>
    /\ c \in mine /\ eCall_ # c
    /\ calls[c] = "alive" \/ (calls[c] = "ended" /\ HungUp(c) \in pending)
MadeNone(c) == Made(c, FALSE) \in pending =>
    c \in mine /\ eCall_ # c /\ calls[c] = "ended" /\ Made(c, TRUE) \notin pending
AnsweredNone(c) == Answered(c, FALSE) \in pending =>
    calls[c] \in {"incoming", "ended"} /\ (c \in over \/ Follows(c))
Followed(c) == Follows(c) =>
    /\ c \in mine
    /\ \/ calls[c] \in {"answering", "alive"}
       \/ calls[c] = "incoming" /\ Answered(c, FALSE) \in pending
       \/ calls[c] = "ended" /\ HungUp(c) \in pending

CallKnown(c) ==
    /\ Free(c) /\ Dialing(c) /\ Answering(c) /\ Alive(c) /\ Ended(c)
    /\ MadeCall(c) /\ MadeNone(c) /\ AnsweredNone(c) /\ Followed(c)
CallsKnown == OneEngaged /\ \A c \in Call : CallKnown(c)

\* eCallInprogress_ is set while a call is engaged and while it is cleared down, which
\* happens only when the user's thread has nothing to do; the manager is known
\* once that thread is done.
InProgress == eCallInprogress_ <=> tel = "clearing" \/ AnyEngaged
Clearing == tel = "clearing" => user = "idle" /\ ~AnyEngaged /\ (~nulls => eCall_ = NoCall)
Asking == user \in {"calling", "answering"} => ~AnyEngaged
Listening == /\ user = "listening" => AnyEngaged
             /\ callListener_ <=> user = "idle" /\ AnyEngaged

\* From the set-up to the clear-down everything is switched for a call.
Up == user # "idle" \/ AnyEngaged
Switched ==
    /\ Up => /\ phoneId_ = 1 /\ (locListener_ \/ locRefused)
             /\ "refused" \notin thermCause => ~shutdownAllowed_
    /\ ~Up => phoneId_ = -1 /\ (~locListener_ \/ locRefused) /\ shutdownAllowed_

AppKnows == InProgress /\ Clearing /\ Asking /\ Listening /\ Switched

ECallIInv == TypeOK /\ ModeKept /\ (cause = {} => CallsKnown /\ AppKnows)

\* Nobody is engaged before a request is made.
LEMMA NoneEngaged ==
    ASSUME CallsKnown, ~AnyEngaged, NEW c \in Call
    PROVE  /\ ~Follows(c) /\ ~Engaged(c)
           /\ calls[c] \notin {"dialing", "answering"}
           /\ calls[c] = "alive" => c \notin mine
           /\ \A ok \in BOOLEAN : Made(c, ok) \notin pending
           /\ Answered(c, FALSE) \in pending => c \in over
<1>1. ~Engaged(c) /\ CallKnown(c)
  BY DEF AnyEngaged, CallsKnown
<1>2. ~Follows(c)
  BY <1>1 DEF Engaged, CallKnown, Followed
<1>3. \A ok \in BOOLEAN : Made(c, ok) \notin pending
  BY <1>1 DEF Engaged, CallKnown, MadeCall, MadeNone
<1> QED
  BY <1>1, <1>2, <1>3 DEF Engaged, CallKnown, Dialing, Answering, AnsweredNone

\* A step that leaves the calls alone.
LEMMA CallsStay ==
    ASSUME CallsKnown, UNCHANGED <<calls, pending, mine, over, eCall_, tel>>
    PROVE  CallsKnown' /\ AnyEngaged' = AnyEngaged /\ \A c \in Call : Engaged(c)' = Engaged(c)
<1>1. \A c \in Call : Engaged(c)' = Engaged(c)
  BY DEF Engaged, Follows
<1>2. \A c \in Call : CallKnown(c)'
  BY DEF CallsKnown, CallKnown, Free, Dialing, Answering, Alive, Ended, MadeCall, MadeNone,
         AnsweredNone, Followed, Follows
<1> QED
  BY <1>1, <1>2 DEF CallsKnown, OneEngaged, AnyEngaged

\* A step that engages and releases nobody, and leaves the application alone.
LEMMA AppStays ==
    ASSUME AppKnows, UNCHANGED <<telVars, user, thermVars>>, AnyEngaged' = AnyEngaged
    PROVE  AppKnows'
  BY DEF AppKnows, InProgress, Clearing, Asking, Listening, Switched, Up, telVars, locVars, thermVars

-----------------------------------------------------------------------------
(* The user's thread.                                                      *)

LEMMA PrepareKnows ==
    ASSUME TypeOK, CallsKnown, AppKnows, TriggerECall \/ AnswerCall
    PROVE  CallsKnown' /\ AppKnows'
<1>1. /\ UNCHANGED <<calls, pending, mine, over, eCall_, tel, nulls, eCallInprogress_, callListener_>>
      /\ user' \in {"calling", "answering"} /\ ~eCallInprogress_ /\ phoneId_' = 1
      /\ locListener_' \/ locRefused'
      /\ DisableAutoShutdown
  BY DEF TriggerECall, AnswerCall, Prepare, MayCall, Setup, Locate, modemVars
<1>2. ~AnyEngaged /\ tel # "clearing" /\ ~callListener_
  BY <1>1 DEF AppKnows, InProgress, Listening
<1>3. CallsKnown' /\ ~AnyEngaged'
  BY <1>1, <1>2, CallsStay
<1>4. Switched'
  <2>1. "refused" \notin thermCause' => ~shutdownAllowed_'
    BY <1>1, ThermSwitched DEF TypeOK
  <2> QED
    BY <1>1, <2>1 DEF Switched, Up
<1> QED
  BY <1>1, <1>2, <1>3, <1>4 DEF AppKnows, InProgress, Clearing, Asking, Listening

LEMMA RequestFailsKnows ==
    ASSUME TypeOK, CallsKnown, AppKnows, RequestFails
    PROVE  CallsKnown' /\ AppKnows'
<1>1. /\ UNCHANGED <<calls, pending, mine, over, tel, nulls, callListener_>>
      /\ user \in {"calling", "answering"} /\ user' = "idle" /\ ~eCallInprogress_' /\ phoneId_' = -1
      /\ ~locListener_' \/ locRefused'
      /\ EnableAutoShutdown
      /\ eCall_' = NoCall \/ eCall_' = eCall_
  BY DEF RequestFails, Cleanup, Locate, LocationAfterCall, modemVars
<1>2. ~AnyEngaged /\ tel # "clearing" /\ ~callListener_
  BY <1>1 DEF AppKnows, Asking, Clearing, Listening
<1>3. \A c \in Call : c # NoCall
  BY DEF Call, NoCall
<1>4. \A c \in Call : ~Follows(c) /\ ~Follows(c)'
  BY <1>1, <1>2, <1>3, NoneEngaged DEF Follows
<1>5. \A c \in Call : Engaged(c)' = Engaged(c)
  BY <1>1, <1>4 DEF Engaged
<1>6. \A c \in Call : CallKnown(c)'
  <2> SUFFICES ASSUME NEW c \in Call PROVE CallKnown(c)'
    OBVIOUS
  <2>1. CallKnown(c)
    BY DEF CallsKnown
  <2> QED
    BY <1>1, <1>3, <1>4, <2>1 DEF CallKnown, Free, Dialing, Answering, Alive, Ended, MadeCall, MadeNone,
       AnsweredNone, Followed
<1>7. CallsKnown' /\ ~AnyEngaged'
  BY <1>2, <1>5, <1>6 DEF CallsKnown, OneEngaged, AnyEngaged
<1>8. Switched'
  <2>1. shutdownAllowed_'
    BY <1>1, ThermSwitched DEF TypeOK
  <2> QED
    BY <1>1, <1>7, <2>1 DEF Switched, Up
<1> QED
  BY <1>1, <1>2, <1>7, <1>8 DEF AppKnows, InProgress, Clearing, Asking, Listening

LEMMA RequestKnows ==
    ASSUME TypeOK, CallsKnown, AppKnows, NEW c \in Call, cause' = {}, StartECall(c) \/ Answer(c)
    PROVE  CallsKnown' /\ AppKnows'
<1>1. /\ UNCHANGED <<pending, over, tel, nulls, callListener_, phoneId_, locListener_, locRefused,
                     thermVars>>
      /\ user \in {"calling", "answering"} /\ user' = "listening" /\ eCallInprogress_'
      /\ mine' = mine \cup {c}
      /\ \/ calls[c] = "free" /\ calls' = [calls EXCEPT ![c] = "dialing"] /\ eCall_' = eCall_
         \/ /\ calls[c] = "incoming" /\ calls' = [calls EXCEPT ![c] = "answering"]
            /\ eCall_' = c /\ tel = "idle"
  BY DEF StartECall, Answer, Unused, Incoming, locVars
<1>2. ~AnyEngaged /\ tel # "clearing" /\ ~callListener_
  BY <1>1 DEF AppKnows, Asking, Clearing, Listening
<1>3. /\ calls' \in [Call -> CallState] /\ \A d \in Call : d # c => calls'[d] = calls[d]
      /\ calls'[c] \in {"dialing", "answering"}
  BY <1>1 DEF TypeOK, CallState
<1>4. \A d \in Call : d # c => ~Engaged(d) /\ ~Engaged(d)' /\ ~Follows(d) /\ ~Follows(d)'
  <2> SUFFICES ASSUME NEW d \in Call, d # c
               PROVE  ~Engaged(d) /\ ~Engaged(d)' /\ ~Follows(d) /\ ~Follows(d)'
    OBVIOUS
  <2>1. ~Engaged(d) /\ ~Follows(d)
    BY <1>2, NoneEngaged
  <2>2. ~Follows(d)'
    BY <1>1, <2>1 DEF Follows
  <2> QED
    BY <1>1, <1>3, <2>1, <2>2 DEF Engaged
<1>5. Engaged(c)'
  BY <1>1, <1>3 DEF Engaged
<1>6. \A d \in Call : CallKnown(d)'
  <2> SUFFICES ASSUME NEW d \in Call PROVE CallKnown(d)'
    OBVIOUS
  <2>1. CallKnown(d)
    BY DEF CallsKnown
  <2>2. CASE d = c
    <3>1. /\ ~Follows(c) /\ (Answered(c, FALSE) \in pending => c \in over)
          /\ \A ok \in BOOLEAN : Made(c, ok) \notin pending
      BY <1>2, NoneEngaged
    <3>2. c \notin over /\ HungUp(c) \notin pending
      BY <1>1, <2>1, <2>2 DEF CallKnown, Ended
    <3>3. CASE calls[c] = "free"
      <4>1. calls'[c] = "dialing" /\ eCall_' = eCall_ /\ eCall_ # c /\ ~Follows(c)'
        BY <1>1, <2>1, <2>2, <3>1, <3>3 DEF TypeOK, CallKnown, Free, Follows
      <4>2. Answered(c, FALSE) \notin pending
        BY <3>1, <3>2
      <4> QED
        BY <1>1, <2>2, <3>1, <3>2, <4>1, <4>2 DEF CallKnown, Free, Dialing, Answering,
           Alive, Ended, MadeCall, MadeNone, AnsweredNone, Followed
    <3>4. CASE calls[c] = "incoming"
      <4>1. calls'[c] = "answering" /\ Follows(c)' /\ c \in mine'
        BY <1>1, <3>4 DEF TypeOK, Follows
      <4>2. Answered(c, FALSE) \notin pending
        BY <3>1, <3>2
      <4> QED
        BY <1>1, <2>2, <3>1, <3>2, <4>1, <4>2 DEF CallKnown, Free, Dialing, Answering,
           Alive, Ended, MadeCall, MadeNone, AnsweredNone, Followed
    <3> QED
      BY <1>1, <3>3, <3>4
  <2>3. CASE d # c
    <3>1. /\ calls[d] \notin {"dialing", "answering"} /\ (calls[d] = "alive" => d \notin mine)
          /\ \A ok \in BOOLEAN : Made(d, ok) \notin pending
          /\ Answered(d, FALSE) \in pending => d \in over
      BY <1>2, NoneEngaged
    <3>2. /\ calls'[d] = calls[d] /\ (d \in mine' <=> d \in mine) /\ ~Follows(d)'
          /\ eCall_ # d => eCall_' # d
      BY <1>1, <1>3, <1>4, <2>3
    <3> QED
      BY <1>1, <2>1, <3>1, <3>2 DEF CallKnown, Free, Dialing, Answering, Alive, Ended,
         MadeCall, MadeNone, AnsweredNone, Followed
  <2> QED
    BY <2>2, <2>3
<1>7. CallsKnown' /\ AnyEngaged'
  BY <1>4, <1>5, <1>6 DEF CallsKnown, OneEngaged, AnyEngaged
<1>8. Switched'
  BY <1>1, <1>7 DEF AppKnows, Switched, Up, thermVars
<1> QED
  BY <1>1, <1>2, <1>7, <1>8 DEF AppKnows, InProgress, Clearing, Asking, Listening

LEMMA AssignListenerKnows ==
    ASSUME TypeOK, CallsKnown, AppKnows, AssignListener
    PROVE  CallsKnown' /\ AppKnows'
<1>1. /\ UNCHANGED <<calls, pending, mine, over, eCall_, tel, nulls, eCallInprogress_, phoneId_,
                     locListener_, locRefused, thermVars>>
      /\ user = "listening" /\ user' = "idle" /\ callListener_'
  BY DEF AssignListener, locVars, modemVars
<1>2. AnyEngaged /\ tel # "clearing"
  BY <1>1 DEF AppKnows, Listening, Clearing
<1>3. CallsKnown' /\ AnyEngaged'
  BY <1>1, <1>2, CallsStay
<1>4. Switched'
  BY <1>1, <1>3 DEF AppKnows, Switched, Up, thermVars
<1> QED
  BY <1>1, <1>2, <1>3, <1>4 DEF AppKnows, InProgress, Clearing, Asking, Listening

-----------------------------------------------------------------------------
(* The telephony thread.                                                   *)

\* What clears down is about the call that is engaged, and the manager is known.
LEMMA ClearsEngaged ==
    ASSUME TypeOK, CallsKnown, AppKnows, NEW b \in pending, RunClearDown(b), cause' = {}
    PROVE  /\ b.call \in Call /\ Engaged(b.call)
           /\ calls[b.call] \notin {"dialing", "answering", "alive"}
           /\ \/ b = HungUp(b.call) /\ b.kind = "end" /\ Follows(b.call)
              \/ b = Answered(b.call, FALSE) /\ b.kind = "answer" /\ Follows(b.call)
              \/ b = Made(b.call, FALSE) /\ b.kind = "make"
           /\ \A ok \in BOOLEAN : Made(b.call, ok) \in pending => Made(b.call, ok) = b
           /\ user = "idle" /\ callListener_ /\ eCallInprogress_
<1> DEFINE c == b.call
<1>1. b \in Callback
  BY DEF TypeOK
<1>2. c \in Call /\ CallKnown(c)
  BY <1>1, CallbackKinds DEF CallsKnown
<1>3. /\ tel = "idle" /\ ClearsDown(b)
      /\ ~(~callListener_ /\ user = "listening") /\ ~(b.kind = "answer" /\ c \in over)
  BY DEF RunClearDown, Noted, Blame
<1> HIDE DEF c
<1>4. /\ \/ b = HungUp(c) /\ b.kind = "end" /\ eCall_ = c
         \/ b = Answered(c, FALSE) /\ b.kind = "answer"
         \/ b = Made(c, FALSE) /\ b.kind = "make"
  BY <1>1, <1>3, CallbackKinds DEF ClearsDown, c
<1>5. /\ Engaged(c) /\ calls[c] \notin {"dialing", "answering", "alive"}
      /\ \/ b = HungUp(c) /\ b.kind = "end" /\ Follows(c)
         \/ b = Answered(c, FALSE) /\ b.kind = "answer" /\ Follows(c)
         \/ b = Made(c, FALSE) /\ b.kind = "make"
      /\ \A ok \in BOOLEAN : Made(c, ok) \in pending => Made(c, ok) = b
  <2>1. CASE b = HungUp(c) /\ b.kind = "end" /\ eCall_ = c
    <3>1. Follows(c) /\ calls[c] = "ended"
      BY <1>2, <1>3, <2>1 DEF Follows, CallKnown, Ended
    <3>2. Engaged(c) /\ \A ok \in BOOLEAN : Made(c, ok) \notin pending
      BY <1>2, <2>1, <3>1 DEF CallKnown, Followed, Engaged, MadeCall, MadeNone
    <3> QED
      BY <2>1, <3>1, <3>2
  <2>2. CASE b = Answered(c, FALSE) /\ b.kind = "answer"
    <3>1. Follows(c) /\ calls[c] \in {"incoming", "ended"}
      BY <1>2, <1>3, <2>2 DEF CallKnown, AnsweredNone, c
    <3>2. Engaged(c) /\ \A ok \in BOOLEAN : Made(c, ok) \notin pending
      BY <1>2, <2>2, <3>1 DEF CallKnown, Followed, Engaged, MadeCall, MadeNone, Follows
    <3> QED
      BY <2>2, <3>1, <3>2
  <2>3. CASE b = Made(c, FALSE) /\ b.kind = "make"
    <3>1. Engaged(c) /\ calls[c] = "ended" /\ Made(c, TRUE) \notin pending
      BY <1>2, <2>3 DEF CallKnown, MadeNone, Engaged
    <3> QED
      BY <2>3, <3>1
  <2> QED
    BY <1>4, <2>1, <2>2, <2>3
<1>6. AnyEngaged /\ eCallInprogress_
  BY <1>2, <1>5 DEF AnyEngaged, AppKnows, InProgress
<1>7. user = "idle" /\ callListener_
  BY <1>3, <1>6 DEF AppKnows, Asking, Listening, TypeOK
<1> QED
  BY <1>2, <1>5, <1>6, <1>7 DEF c

LEMMA ClearDownKnows ==
    ASSUME TypeOK, CallsKnown, AppKnows, NEW b \in pending, RunClearDown(b), cause' = {}
    PROVE  CallsKnown' /\ AppKnows'
<1> DEFINE c == b.call
<1>1. /\ c \in Call /\ Engaged(c) /\ calls[c] \notin {"dialing", "answering", "alive"}
      /\ \/ b = HungUp(c) /\ b.kind = "end" /\ Follows(c)
         \/ b = Answered(c, FALSE) /\ b.kind = "answer" /\ Follows(c)
         \/ b = Made(c, FALSE) /\ b.kind = "make"
      /\ \A ok \in BOOLEAN : Made(c, ok) \in pending => Made(c, ok) = b
      /\ user = "idle" /\ callListener_ /\ eCallInprogress_
  BY ClearsEngaged
<1>2. /\ UNCHANGED <<calls, mine, eCall_, user, eCallInprogress_>>
      /\ tel = "idle" /\ tel' = "clearing" /\ nulls' = (b.kind # "make")
      /\ pending' = pending \ {b} /\ over' = (IF b.kind = "end" THEN over \cup {c} ELSE over)
      /\ ~callListener_' /\ phoneId_' = -1 /\ (~locListener_' \/ locRefused')
      /\ EnableAutoShutdown
  BY <1>1 DEF RunClearDown, ClearDown, Cleanup, Locate, LocationAfterCall
<1> HIDE DEF c
<1>3. \A d \in Call : Engaged(d) => d = c
  BY <1>1 DEF CallsKnown, OneEngaged
<1>4. \A d \in Call : ~Follows(d)' /\ ~Engaged(d)'
  <2> SUFFICES ASSUME NEW d \in Call PROVE ~Follows(d)' /\ ~Engaged(d)'
    OBVIOUS
  <2>1. ~Follows(d)'
    BY <1>2 DEF Follows
  <2>2. CASE d = c
    BY <1>1, <1>2, <2>1, <2>2 DEF Engaged
  <2>3. CASE d # c
    BY <1>2, <1>3, <2>1, <2>3 DEF Engaged
  <2> QED
    BY <2>1, <2>2, <2>3
<1>5. \A d \in Call : CallKnown(d)'
  <2> SUFFICES ASSUME NEW d \in Call PROVE CallKnown(d)'
    OBVIOUS
  <2>1. CallKnown(d) /\ ~Follows(d)'
    BY <1>4 DEF CallsKnown
  <2>2. Free(d)' /\ Dialing(d)' /\ Followed(d)'
    BY <1>2, <2>1 DEF CallKnown, Free, Dialing, Followed
  <2>3. Answering(d)'
    <3>1. calls[d] = "answering" => Engaged(d)
      BY <2>1 DEF CallKnown, Answering, Engaged
    <3> QED
      BY <1>1, <1>2, <1>3, <3>1 DEF Answering
  <2>4. Alive(d)'
    <3>1. calls[d] = "alive" /\ d \in mine => Engaged(d)
      BY DEF Engaged
    <3> QED
      BY <1>1, <1>2, <1>3, <3>1 DEF Alive
  <2>5. Ended(d)'
    <3>1. b.kind = "end" => calls[c] = "ended"
      <4>1. CallKnown(c)
        BY <1>1 DEF CallsKnown
      <4> QED
        BY <1>1, <4>1, CallbacksDiffer DEF CallKnown, Ended
    <3> QED
      BY <1>2, <2>1, <3>1 DEF CallKnown, Ended
  <2>6. MadeCall(d)' /\ MadeNone(d)'
    <3>1. \A ok \in BOOLEAN : Made(d, ok) \notin pending'
      <4> SUFFICES ASSUME NEW ok \in BOOLEAN, Made(d, ok) \in pending' PROVE FALSE
        OBVIOUS
      <4>1. Made(d, ok) \in pending /\ Made(d, ok) # b
        BY <1>2
      <4>2. d \in mine
        BY <2>1, <4>1 DEF CallKnown, MadeCall, MadeNone
      <4>3. Engaged(d)
        BY <4>1, <4>2 DEF Engaged
      <4> QED
        BY <1>1, <1>3, <4>1, <4>3
    <3> QED
      BY <3>1 DEF MadeCall, MadeNone
  <2>7. AnsweredNone(d)'
    <3> SUFFICES ASSUME Answered(d, FALSE) \in pending'
                 PROVE  calls'[d] \in {"incoming", "ended"} /\ d \in over'
      BY DEF AnsweredNone
    <3>1. Answered(d, FALSE) \in pending /\ Answered(d, FALSE) # b
      BY <1>2
    <3>2. calls[d] \in {"incoming", "ended"} /\ (d \in over \/ Follows(d))
      BY <2>1, <3>1 DEF CallKnown, AnsweredNone
    <3>3. ASSUME Follows(d) PROVE d \in over'
      <4>1. Engaged(d)
        BY <2>1, <3>3 DEF CallKnown, Followed, Engaged
      <4>2. d = c /\ eCall_ = c
        BY <1>3, <3>3, <4>1 DEF Follows
      <4>3. CallKnown(c)
        BY <1>1 DEF CallsKnown
      <4>4. ~(b = Made(c, FALSE))
        BY <4>2, <4>3 DEF CallKnown, MadeNone
      <4>5. b.kind = "end"
        BY <1>1, <3>1, <4>2, <4>4
      <4> QED
        BY <1>2, <4>2, <4>5
    <3> QED
      BY <1>2, <3>2, <3>3
  <2> QED
    BY <2>2, <2>3, <2>4, <2>5, <2>6, <2>7 DEF CallKnown
<1>6. CallsKnown' /\ ~AnyEngaged'
  BY <1>4, <1>5 DEF CallsKnown, OneEngaged, AnyEngaged
<1>7. ~nulls' => eCall_' = NoCall
  <2> SUFFICES ASSUME b.kind = "make" PROVE eCall_ = NoCall
    BY <1>2
  <2>1. b = Made(c, FALSE) /\ CallKnown(c)
    BY <1>1, CallbacksDiffer DEF CallsKnown
  <2>2. eCall_ # c
    BY <2>1 DEF CallKnown, MadeNone
  <2>3. ASSUME eCall_ \in Call PROVE FALSE
    <3>1. Follows(eCall_) /\ CallKnown(eCall_)
      BY <1>2, <2>3 DEF Follows, CallsKnown
    <3>2. Engaged(eCall_)
      BY <3>1 DEF CallKnown, Followed, Engaged
    <3> QED
      BY <1>3, <2>2, <2>3, <3>2
  <2> QED
    BY <2>3 DEF TypeOK
<1>8. Switched'
  <2>1. shutdownAllowed_'
    BY <1>2, ThermSwitched DEF TypeOK
  <2> QED
    BY <1>1, <1>2, <1>6, <2>1 DEF Switched, Up
<1> QED
  BY <1>1, <1>2, <1>6, <1>7, <1>8 DEF AppKnows, InProgress, Clearing, Asking, Listening

LEMMA ClearingKnows ==
    ASSUME TypeOK, CallsKnown, AppKnows, ClearProgress \/ ClearCall
    PROVE  CallsKnown' /\ AppKnows'
<1>1. /\ UNCHANGED <<calls, pending, mine, over, user, callListener_, phoneId_, locListener_,
                     locRefused, thermVars>>
      /\ \/ /\ tel = "clearing" /\ ~eCallInprogress_' /\ eCall_' = eCall_
            /\ tel' = (IF nulls THEN "nulling" ELSE "idle")
         \/ /\ tel = "nulling" /\ tel' = "idle" /\ eCall_' = NoCall
            /\ eCallInprogress_' = eCallInprogress_
  BY DEF ClearProgress, ClearCall, ProgressAfterCall, locVars, modemVars
<1>2. \A c \in Call : c # NoCall
  BY DEF Call, NoCall
<1>3. \A c \in Call : ~Follows(c) /\ ~Follows(c)' /\ (eCall_ # c => eCall_' # c)
  BY <1>1, <1>2 DEF Follows, AppKnows, Clearing
<1>4. \A c \in Call : Engaged(c)' = Engaged(c)
  BY <1>1, <1>3 DEF Engaged
<1>5. \A c \in Call : CallKnown(c)'
  <2> SUFFICES ASSUME NEW c \in Call PROVE CallKnown(c)'
    OBVIOUS
  <2>1. CallKnown(c)
    BY DEF CallsKnown
  <2> QED
    BY <1>1, <1>3, <2>1 DEF CallKnown, Free, Dialing, Answering, Alive, Ended, MadeCall, MadeNone,
       AnsweredNone, Followed
<1>6. CallsKnown' /\ AnyEngaged' = AnyEngaged
  BY <1>4, <1>5 DEF CallsKnown, OneEngaged, AnyEngaged
<1>7. Switched'
  BY <1>1, <1>6 DEF AppKnows, Switched, Up, thermVars
<1> QED
  BY <1>1, <1>6, <1>7 DEF AppKnows, InProgress, Clearing, Asking, Listening

\* A callback that clears nothing down tells of the call that was made, of an answer
\* that succeeded or of the end of a call that is not the application's.
LEMMA PlainKnows ==
    ASSUME TypeOK, CallsKnown, AppKnows, NEW b \in pending, RunPlain(b), cause' = {}
    PROVE  CallsKnown' /\ AppKnows'
<1> DEFINE c == b.call
<1>1. b \in Callback /\ c \in Call /\ CallKnown(c)
  BY CallbackKinds DEF TypeOK, CallsKnown
<1>2. /\ UNCHANGED <<calls, mine, tel, nulls, eCallInprogress_, callListener_, phoneId_, locListener_,
                     locRefused, thermVars, user>>
      /\ tel = "idle" /\ pending' = pending \ {b} /\ ~ClearsDown(b)
      /\ eCall_' = (IF b.kind = "make" THEN c ELSE eCall_)
      /\ over' = (IF b.kind = "end" THEN over \cup {c} ELSE over)
      /\ ~(b.kind = "end" /\ c \in mine \ {eCall_})
  BY DEF RunPlain, FollowedCall, Blame, locVars
<1>3. \/ b = Made(c, TRUE) /\ b.kind = "make"
      \/ b = Answered(c, TRUE) /\ b.kind = "answer"
      \/ b = HungUp(c) /\ b.kind = "end" /\ c \notin mine
  BY <1>1, <1>2, CallbackKinds DEF ClearsDown
<1> HIDE DEF c
<1>4. (\A d \in Call : Engaged(d)' = Engaged(d)) /\ \A d \in Call : CallKnown(d)'
  <2>1. CASE b = Made(c, TRUE) /\ b.kind = "make"
    <3>1. /\ c \in mine /\ eCall_ # c /\ Made(c, FALSE) \notin pending /\ Engaged(c)
          /\ calls[c] = "alive" \/ (calls[c] = "ended" /\ HungUp(c) \in pending)
      BY <1>1, <2>1 DEF CallKnown, MadeCall, MadeNone, Engaged
    <3>2. /\ eCall_' = c /\ over' = over /\ Follows(c)'
          /\ \A d \in Call : (HungUp(d) \in pending') = (HungUp(d) \in pending)
          /\ \A d \in Call, ok \in BOOLEAN :
                /\ (Answered(d, ok) \in pending') = (Answered(d, ok) \in pending)
                /\ d # c => (Made(d, ok) \in pending') = (Made(d, ok) \in pending)
          /\ \A ok \in BOOLEAN : Made(c, ok) \notin pending'
      <4>1. eCall_' = c /\ over' = over /\ Follows(c)'
        BY <1>2, <2>1 DEF Follows
      <4>2. \A ok \in BOOLEAN : Made(c, ok) \notin pending'
        BY <1>2, <2>1, <3>1
      <4>3. \A d \in Call : HungUp(d) # b
        <5>1. \A d \in Call : HungUp(d).kind = "end"
          BY DEF HungUp
        <5> QED
          BY <2>1, <5>1
      <4>4. \A d \in Call, ok \in BOOLEAN : Answered(d, ok) # b /\ (d # c => Made(d, ok) # b)
        <5>1. \A d \in Call, ok \in BOOLEAN : Answered(d, ok).kind = "answer" /\ Made(d, ok).call = d
          BY DEF Answered, Made
        <5> QED
          BY <2>1, <5>1 DEF c
      <4>5. \A d \in Call : (HungUp(d) \in pending') = (HungUp(d) \in pending)
        BY <1>2, <4>3
      <4>6. \A d \in Call, ok \in BOOLEAN :
                /\ (Answered(d, ok) \in pending') = (Answered(d, ok) \in pending)
                /\ d # c => (Made(d, ok) \in pending') = (Made(d, ok) \in pending)
        BY <1>2, <4>4
      <4> QED
        BY <4>1, <4>2, <4>5, <4>6
    <3>3. Engaged(c)' /\ CallKnown(c)'
      <4>1. Engaged(c)'
        BY <1>2, <3>1, <3>2 DEF Engaged
      <4>2. Free(c)' /\ Dialing(c)' /\ Answering(c)' /\ Alive(c)' /\ MadeCall(c)' /\ MadeNone(c)'
        BY <1>2, <3>1, <3>2 DEF Free, Dialing, Answering, Alive, MadeCall, MadeNone
      <4>3. Ended(c)' /\ AnsweredNone(c)' /\ Followed(c)'
        BY <1>1, <1>2, <3>1, <3>2 DEF CallKnown, Ended, AnsweredNone, Followed
      <4> QED
        BY <4>1, <4>2, <4>3 DEF CallKnown
    <3>4. ASSUME NEW d \in Call, d # c PROVE ~Engaged(d) /\ ~Engaged(d)' /\ CallKnown(d)'
      <4>1. ~Engaged(d) /\ CallKnown(d)
        BY <1>1, <3>1, <3>4 DEF CallsKnown, OneEngaged
      <4>2. ~Follows(d) /\ ~Follows(d)' /\ eCall_' # d
        BY <3>2, <3>4, <4>1 DEF Engaged, CallKnown, Followed, Follows
      <4>3. ~Engaged(d)'
        BY <1>2, <3>2, <3>4, <4>1, <4>2 DEF Engaged
      <4>4. CallKnown(d)'
        BY <1>2, <3>2, <3>4, <4>1, <4>2 DEF CallKnown, Free, Dialing, Answering, Alive, Ended, MadeCall,
           MadeNone, AnsweredNone, Followed
      <4> QED
        BY <4>1, <4>3, <4>4
    <3>5. ASSUME NEW d \in Call PROVE Engaged(d)' = Engaged(d) /\ CallKnown(d)'
      <4>1. CASE d = c
        BY <3>1, <3>3, <4>1 DEF Engaged
      <4>2. CASE d # c
        BY <3>4, <4>2 DEF Engaged
      <4> QED
        BY <4>1, <4>2
    <3> QED
      BY <3>5
  <2>2. CASE b = Answered(c, TRUE) \/ (b = HungUp(c) /\ b.kind = "end" /\ c \notin mine)
    <3>1. eCall_' = eCall_ /\ \A d \in Call : Follows(d)' = Follows(d)
      <4>1. b.kind # "make"
        BY <2>2 DEF Answered
      <4> QED
        BY <1>2, <4>1 DEF Follows
    <3>2. /\ \A d \in Call, ok \in BOOLEAN : (Made(d, ok) \in pending') = (Made(d, ok) \in pending)
          /\ \A d \in Call : (Answered(d, FALSE) \in pending') = (Answered(d, FALSE) \in pending)
          /\ \A d \in mine : (HungUp(d) \in pending') = (HungUp(d) \in pending)
      <4>1. \A d \in Call, ok \in BOOLEAN : (Made(d, ok) \in pending') = (Made(d, ok) \in pending)
        <5>1. \A d \in Call, ok \in BOOLEAN : Made(d, ok) # b
          BY <2>2 DEF Made, Answered, HungUp
        <5> QED
          BY <1>2, <5>1
      <4>2. \A d \in Call : (Answered(d, FALSE) \in pending') = (Answered(d, FALSE) \in pending)
        <5> SUFFICES ASSUME NEW d \in Call
                     PROVE  (Answered(d, FALSE) \in pending') = (Answered(d, FALSE) \in pending)
          OBVIOUS
        <5> DEFINE a == Answered(d, FALSE)
        <5>1. b.ok /\ ~a.ok
          BY <2>2 DEF Answered, HungUp
        <5> HIDE DEF a
        <5>2. (a \in pending') = (a \in pending)
          BY <1>2, <5>1
        <5> QED
          BY <5>2 DEF a
      <4>3. \A d \in mine : (HungUp(d) \in pending') = (HungUp(d) \in pending)
        <5>1. \A d \in mine : HungUp(d) # b
          BY <2>2 DEF Answered, HungUp
        <5> QED
          BY <1>2, <5>1
      <4> QED
        BY <4>1, <4>2, <4>3
    <3>3. /\ over \subseteq over'
          /\ \A d \in Call : d \in over' \/ HungUp(d) \in pending' => d \in over \/ HungUp(d) \in pending
      <4>1. CASE b = Answered(c, TRUE)
        <5>1. b.kind # "end"
          BY <4>1 DEF Answered
        <5> QED
          BY <1>2, <5>1
      <4>2. CASE b = HungUp(c) /\ b.kind = "end"
        BY <1>2, <4>2
      <4> QED
        BY <2>2, <4>1, <4>2
    <3>4. \A d \in Call : Engaged(d)' = Engaged(d)
      BY <1>2, <3>1, <3>2 DEF Engaged
    <3>5. ASSUME NEW d \in Call PROVE CallKnown(d)'
      <4>1. CallKnown(d)
        BY DEF CallsKnown
      <4>2. Free(d)' /\ Dialing(d)' /\ Answering(d)' /\ Alive(d)'
        BY <1>2, <3>1, <3>2, <4>1 DEF CallKnown, Free, Dialing, Answering, Alive
      <4>3. Ended(d)' /\ MadeCall(d)' /\ MadeNone(d)'
        BY <1>2, <3>1, <3>2, <3>3, <4>1 DEF CallKnown, Ended, MadeCall, MadeNone
      <4>4. AnsweredNone(d)' /\ Followed(d)'
        BY <1>2, <3>1, <3>2, <3>3, <4>1 DEF CallKnown, AnsweredNone, Followed
      <4> QED
        BY <4>2, <4>3, <4>4 DEF CallKnown
    <3> QED
      BY <3>4, <3>5
  <2> QED
    BY <1>3, <2>1, <2>2
<1>5. CallsKnown' /\ AnyEngaged' = AnyEngaged
  BY <1>4 DEF CallsKnown, OneEngaged, AnyEngaged
<1>6. Switched'
  BY <1>2, <1>5 DEF AppKnows, Switched, Up, thermVars
<1> QED
  BY <1>2, <1>5, <1>6 DEF AppKnows, InProgress, Clearing, Asking, Listening

-----------------------------------------------------------------------------
(* The modem.                                                              *)

\* A step of the modem about call c leaves the other calls where they are.
LEMMA OthersKnown ==
    ASSUME TypeOK, CallsKnown, AppKnows, NEW c \in Call, NEW state, NEW news, Modem(c, state, news),
           \A b \in news : b.call = c,
           CallKnown(c)', Engaged(c)' = Engaged(c)
    PROVE  CallsKnown' /\ AppKnows'
<1>1. /\ UNCHANGED <<telVars, user, mine, over, thermVars, eCall_, tel>>
      /\ \A d \in Call : d # c => calls'[d] = calls[d]
      /\ pending' = pending \cup news
  BY DEF Modem, telVars, TypeOK
<1>2. ASSUME NEW d \in Call, d # c PROVE Engaged(d)' = Engaged(d) /\ CallKnown(d)'
  <2>1. /\ \A ok \in BOOLEAN : Made(d, ok).call = d
        /\ Answered(d, FALSE).call = d /\ HungUp(d).call = d
    BY DEF Made, Answered, HungUp
  <2>2. /\ \A ok \in BOOLEAN : (Made(d, ok) \in pending') = (Made(d, ok) \in pending)
        /\ (Answered(d, FALSE) \in pending') = (Answered(d, FALSE) \in pending)
        /\ (HungUp(d) \in pending') = (HungUp(d) \in pending)
        /\ \A b \in pending' : b \in pending \/ b.call # d
    <3>1. \A b \in news : b.call # d
      BY <1>2
    <3>2. \A b : b.call = d => (b \in pending') = (b \in pending)
      BY <1>1, <3>1
    <3>3. \A b \in pending' : b \in pending \/ b.call # d
      BY <1>1, <3>1
    <3>4. \A ok \in BOOLEAN : (Made(d, ok) \in pending') = (Made(d, ok) \in pending)
      BY <2>1, <3>2
    <3>5. (Answered(d, FALSE) \in pending') = (Answered(d, FALSE) \in pending)
      BY <2>1, <3>2
    <3>6. (HungUp(d) \in pending') = (HungUp(d) \in pending)
      BY <2>1, <3>2
    <3> QED
      BY <3>3, <3>4, <3>5, <3>6
  <2>3. Engaged(d)' = Engaged(d)
    BY <1>1, <1>2, <2>2 DEF Engaged, Follows
  <2>4. CallKnown(d)
    BY DEF CallsKnown
  <2>5. Free(d)' /\ Dialing(d)' /\ Answering(d)' /\ Alive(d)' /\ Ended(d)'
    BY <1>1, <1>2, <2>2, <2>4 DEF CallKnown, Free, Dialing, Answering, Alive, Ended, Follows
  <2>6. MadeCall(d)' /\ MadeNone(d)' /\ AnsweredNone(d)' /\ Followed(d)'
    BY <1>1, <1>2, <2>2, <2>4 DEF CallKnown, MadeCall, MadeNone, AnsweredNone, Followed, Follows
  <2> QED
    BY <2>3, <2>5, <2>6 DEF CallKnown
<1>3. \A d \in Call : Engaged(d)' = Engaged(d) /\ CallKnown(d)'
  BY <1>2
<1>4. CallsKnown' /\ AnyEngaged' = AnyEngaged
  BY <1>3 DEF CallsKnown, OneEngaged, AnyEngaged
<1> QED
  BY <1>1, <1>4, AppStays

LEMMA RingsKnows ==
    ASSUME TypeOK, CallsKnown, AppKnows, NEW c \in Call, Rings(c)
    PROVE  CallsKnown' /\ AppKnows'
<1>1. /\ Modem(c, "incoming", {}) /\ calls[c] = "free"
      /\ calls'[c] = "incoming" /\ UNCHANGED <<pending, mine, over, eCall_, tel>>
  BY DEF Rings, Unused, Modem, telVars, TypeOK
<1>2. c \notin mine /\ eCall_ # c /\ c \notin over /\ \A b \in pending : b.call # c
  BY <1>1 DEF CallsKnown, CallKnown, Free, Ended
<1>3. /\ \A ok \in BOOLEAN : Made(c, ok) \notin pending
      /\ Answered(c, FALSE) \notin pending /\ HungUp(c) \notin pending
  BY <1>2 DEF Made, Answered, HungUp
<1>4. CallKnown(c)'
  BY <1>1, <1>2, <1>3 DEF CallKnown, Free, Dialing, Answering, Alive, Ended, MadeCall, MadeNone,
     AnsweredNone, Followed, Follows
<1>5. Engaged(c)' = Engaged(c)
  BY <1>1, <1>2 DEF Engaged
<1> QED
  BY <1>1, <1>4, <1>5, OthersKnown

LEMMA MakeRespondsKnows ==
    ASSUME TypeOK, CallsKnown, AppKnows, NEW c \in Call, NEW ok \in BOOLEAN,
           calls[c] = "dialing", Modem(c, IF ok THEN "alive" ELSE "ended", {Made(c, ok)})
    PROVE  CallsKnown' /\ AppKnows'
<1>1. /\ calls'[c] = (IF ok THEN "alive" ELSE "ended") /\ UNCHANGED <<mine, over, eCall_, tel>>
      /\ pending' = pending \cup {Made(c, ok)}
  BY DEF Modem, telVars, TypeOK
<1>2. /\ c \in mine /\ eCall_ # c /\ \A o \in BOOLEAN : Made(c, o) \notin pending
      /\ c \notin over /\ HungUp(c) \notin pending /\ Answered(c, FALSE) \notin pending
  BY DEF CallsKnown, CallKnown, Dialing, Ended, AnsweredNone
<1>3. /\ HungUp(c) \notin pending' /\ Answered(c, FALSE) \notin pending'
      /\ Made(c, ok) \in pending' /\ \A o \in BOOLEAN : Made(c, o) \in pending' => o = ok
      /\ Made(c, ok).call = c
  BY <1>1, <1>2 DEF Made, HungUp, Answered
<1>4. Free(c)' /\ Dialing(c)' /\ Answering(c)' /\ Alive(c)' /\ Ended(c)' /\ AnsweredNone(c)' /\ Followed(c)'
  BY <1>1, <1>2, <1>3 DEF Free, Dialing, Answering, Alive, Ended, AnsweredNone, Followed, Follows
<1>5. MadeCall(c)' /\ MadeNone(c)'
  BY <1>1, <1>2, <1>3 DEF MadeCall, MadeNone
<1>6. Engaged(c) /\ Engaged(c)'
  BY <1>1, <1>2, <1>3 DEF Engaged
<1>7. Engaged(c)' = Engaged(c)
  BY <1>6 DEF Engaged
<1> QED
  BY <1>3, <1>4, <1>5, <1>7, OthersKnown DEF CallKnown

LEMMA AnswerRespondsKnows ==
    ASSUME TypeOK, CallsKnown, AppKnows, NEW c \in Call, NEW ok \in BOOLEAN,
           calls[c] = "answering", Modem(c, IF ok THEN "alive" ELSE "incoming", {Answered(c, ok)})
    PROVE  CallsKnown' /\ AppKnows'
<1>1. /\ calls'[c] = (IF ok THEN "alive" ELSE "incoming") /\ UNCHANGED <<mine, over, eCall_, tel>>
      /\ pending' = pending \cup {Answered(c, ok)}
  BY DEF Modem, telVars, TypeOK
<1>2. CallKnown(c)
  BY DEF CallsKnown
<1>3. /\ c \in mine /\ Follows(c) /\ \A o \in BOOLEAN : Made(c, o) \notin pending
      /\ c \notin over /\ HungUp(c) \notin pending
  BY <1>2 DEF CallKnown, Answering, Ended, MadeCall, MadeNone
<1>4. /\ HungUp(c) \notin pending' /\ \A o \in BOOLEAN : Made(c, o) \notin pending'
      /\ Follows(c)' /\ (~ok => Answered(c, FALSE) \in pending') /\ Answered(c, ok).call = c
  BY <1>1, <1>3 DEF Made, HungUp, Answered, Follows
<1>5. CallKnown(c)'
  <2>1. Free(c)' /\ Dialing(c)' /\ Answering(c)' /\ Alive(c)' /\ Ended(c)'
    BY <1>1, <1>3, <1>4 DEF Free, Dialing, Answering, Alive, Ended
  <2>2. MadeCall(c)' /\ MadeNone(c)' /\ Followed(c)'
    BY <1>1, <1>3, <1>4 DEF MadeCall, MadeNone, Followed
  <2>3. AnsweredNone(c)'
    <3>1. CASE ok
      <4>1. Answered(c, FALSE) \notin pending
        BY <1>2 DEF CallKnown, AnsweredNone
      <4> QED
        BY <1>1, <3>1, <4>1 DEF AnsweredNone, Answered
    <3>2. CASE ~ok
      BY <1>1, <1>4, <3>2 DEF AnsweredNone
    <3> QED
      BY <3>1, <3>2
  <2> QED
    BY <2>1, <2>2, <2>3 DEF CallKnown
<1>6. Engaged(c)' = Engaged(c)
  BY <1>1, <1>3, <1>4 DEF Engaged
<1> QED
  BY <1>4, <1>5, <1>6, OthersKnown

LEMMA EndsKnows ==
    ASSUME TypeOK, CallsKnown, AppKnows, NEW c \in Call, Ends(c)
    PROVE  CallsKnown' /\ AppKnows'
<1> DEFINE news == {HungUp(c)} \cup (IF calls[c] = "answering" THEN {Answered(c, FALSE)} ELSE {})
<1>1. Modem(c, "ended", news) /\ calls[c] \in {"incoming", "answering", "alive"}
  BY DEF Ends, HungUp, Answered
<1>2. /\ calls'[c] = "ended" /\ UNCHANGED <<mine, over, eCall_, tel>> /\ pending' = pending \cup news
  BY <1>1 DEF Modem, telVars, TypeOK
<1>3. CallKnown(c)
  BY DEF CallsKnown
<1>4. /\ HungUp(c) \in pending' /\ Follows(c)' = Follows(c)
      /\ \A o \in BOOLEAN : (Made(c, o) \in pending') = (Made(c, o) \in pending)
      /\ Answered(c, FALSE) \in pending' => Answered(c, FALSE) \in pending \/ calls[c] = "answering"
      /\ \A b \in news : b.call = c
  BY <1>2 DEF Made, HungUp, Answered, Follows
<1> HIDE DEF news
<1>5. c \notin over /\ Made(c, FALSE) \notin pending
  BY <1>1, <1>3 DEF CallKnown, Ended, MadeNone
<1>6. CallKnown(c)'
  <2>1. Free(c)' /\ Dialing(c)' /\ Answering(c)' /\ Alive(c)' /\ Ended(c)'
    BY <1>2 DEF Free, Dialing, Answering, Alive, Ended
  <2>2. MadeCall(c)' /\ MadeNone(c)'
    BY <1>2, <1>3, <1>4, <1>5 DEF CallKnown, MadeCall, MadeNone
  <2>3. AnsweredNone(c)' /\ Followed(c)'
    BY <1>2, <1>3, <1>4, <1>5 DEF CallKnown, AnsweredNone, Answering, Followed
  <2> QED
    BY <2>1, <2>2, <2>3 DEF CallKnown
<1>7. Engaged(c)' = Engaged(c)
  <2>1. calls[c] \in {"answering", "alive"} /\ c \in mine
          => Follows(c) \/ \E o \in BOOLEAN : Made(c, o) \in pending
    BY <1>3 DEF CallKnown, Answering, Alive
  <2> QED
    BY <1>1, <1>2, <1>4, <2>1 DEF Engaged
<1> QED
  BY <1>1, <1>4, <1>6, <1>7, OthersKnown

LEMMA ModemKnows ==
    ASSUME TypeOK, CallsKnown, AppKnows, ModemStep
    PROVE  CallsKnown' /\ AppKnows'
<1>1. PICK c \in Call : Rings(c) \/ Ends(c) \/ \E ok \in BOOLEAN : Responds(c, ok)
  BY DEF ModemStep
<1>2. ASSUME NEW ok \in BOOLEAN, Responds(c, ok) PROVE CallsKnown' /\ AppKnows'
  BY <1>2, MakeRespondsKnows, AnswerRespondsKnows DEF Responds, Made, Answered
<1> QED
  BY <1>1, <1>2, RingsKnows, EndsKnows

-----------------------------------------------------------------------------
(* The thermal client, and the whole application.                          *)

LEMMA ThermKnows ==
    ASSUME TypeOK, CallsKnown, AppKnows, ThermStep \/ ThermService \/ UNCHANGED vars
    PROVE  CallsKnown' /\ AppKnows'
<1>1. UNCHANGED <<telVars, user, modemVars, mine, over>>
  BY DEF ThermStep, ThermService, vars
<1>2. CallsKnown' /\ AnyEngaged' = AnyEngaged
  BY <1>1, CallsStay DEF telVars, modemVars
<1>3. UNCHANGED shutdownAllowed_ /\ ("refused" \in thermCause => "refused" \in thermCause')
  <2>1. CASE UNCHANGED vars
    BY <2>1 DEF vars, thermVars
  <2>2. CASE ThermListener \/ Reenable
    BY <2>2, ThermSwitched DEF TypeOK
  <2> QED
    BY <2>1, <2>2 DEF ThermStep, ThermService
<1>4. Switched'
  BY <1>1, <1>2, <1>3 DEF AppKnows, Switched, Up, telVars, locVars
<1> QED
  BY <1>1, <1>2, <1>4 DEF AppKnows, InProgress, Clearing, Asking, Listening, telVars

\* Every step leaves the thermal mode alone or is one of its operations.
LEMMA ThermOperations ==
    ASSUME [Next]_vars
    PROVE  \/ DisableAutoShutdown \/ EnableAutoShutdown \/ ThermListener \/ Reenable
           \/ UNCHANGED thermVars
<1>1. CASE TriggerECall \/ AnswerCall
  BY <1>1 DEF TriggerECall, AnswerCall, Prepare, Setup
<1>2. CASE UserStep
  BY <1>2 DEF UserStep, RequestFails, AssignListener, StartECall, Answer, Cleanup
<1>3. CASE TelStep
  BY <1>3 DEF TelStep, ClearProgress, ClearCall, RunClearDown, RunPlain, ClearDown, Cleanup
<1>4. CASE ModemStep
  BY <1>4 DEF ModemStep, Rings, Ends, Responds, Modem
<1>5. CASE ThermStep \/ ThermService \/ UNCHANGED vars
  BY <1>5 DEF ThermStep, ThermService, vars
<1> QED
  BY <1>1, <1>2, <1>3, <1>4, <1>5 DEF Next

\* What has gone wrong stays in the history.
LEMMA CauseStays ==
    ASSUME [Next]_vars
    PROVE  cause \subseteq cause'
<1>1. CASE TriggerECall \/ AnswerCall
  BY <1>1 DEF TriggerECall, AnswerCall, Prepare
<1>2. CASE UserStep
  BY <1>2 DEF UserStep, RequestFails, AssignListener, StartECall, Answer
<1>3. CASE TelStep
  BY <1>3 DEF TelStep, ClearProgress, ClearCall, RunClearDown, RunPlain
<1>4. CASE ModemStep
  BY <1>4 DEF ModemStep, Rings, Ends, Responds, Modem
<1>5. CASE ThermStep \/ ThermService \/ UNCHANGED vars
  BY <1>5 DEF ThermStep, ThermService, vars
<1> QED
  BY <1>1, <1>2, <1>3, <1>4, <1>5 DEF Next

LEMMA ECallInitially == Init => ECallIInv
<1> SUFFICES ASSUME Init PROVE ECallIInv
  OBVIOUS
<1> USE DEF Init
<1>1. ThermTypeOK /\ ModeKept
  <2>1. 0 \in 0 .. MaxReenable
    BY ThermAssumption
  <2> QED
    BY <2>1 DEF ThermInit, ThermTypeOK, ModeKept
<1>2. TypeOK
  <2>1. calls \in [Call -> CallState]
    BY DEF CallState
  <2>2. 0 \in 0 .. MaxTry
    BY CallAssumption
  <2> QED
    BY <1>1, <2>1, <2>2 DEF TypeOK, locVars
<1>3. \A c \in Call : ~Engaged(c) /\ ~Follows(c)
  BY DEF Engaged, Follows, Call, NoCall
<1>4. \A c \in Call : CallKnown(c)
  BY <1>3 DEF CallKnown, Free, Dialing, Answering, Alive, Ended, MadeCall, MadeNone,
     AnsweredNone, Followed, Call, NoCall
<1>5. CallsKnown /\ ~AnyEngaged
  BY <1>3, <1>4 DEF CallsKnown, OneEngaged, AnyEngaged
<1>6. AppKnows
  BY <1>5 DEF ThermInit, AppKnows, InProgress, Clearing, Asking, Listening, Switched, Up
<1> QED
  BY <1>1, <1>2, <1>5, <1>6 DEF ECallIInv

LEMMA ECallNext == ECallIInv /\ [Next]_vars => ECallIInv'
<1> SUFFICES ASSUME ECallIInv, [Next]_vars PROVE ECallIInv'
  OBVIOUS
<1>1. TypeOK /\ TypeOK'
  BY ECallTypes DEF ECallIInv
<1>2. ModeKept'
  BY <1>1, ThermOperations, ThermKeeps DEF ECallIInv, TypeOK
<1>3. ASSUME cause' = {} PROVE CallsKnown' /\ AppKnows'
  <2>1. CallsKnown /\ AppKnows
    BY <1>3, CauseStays DEF ECallIInv
  <2>2. CASE TriggerECall \/ AnswerCall
    BY <1>1, <2>1, <2>2, PrepareKnows
  <2>3. CASE UserStep
    BY <1>1, <1>3, <2>1, <2>3, RequestFailsKnows, AssignListenerKnows, RequestKnows DEF UserStep
  <2>4. CASE TelStep
    BY <1>1, <1>3, <2>1, <2>4, ClearingKnows, ClearDownKnows, PlainKnows DEF TelStep
  <2>5. CASE ModemStep
    BY <1>1, <2>1, <2>5, ModemKnows
  <2>6. CASE ThermStep \/ ThermService \/ UNCHANGED vars
    BY <1>1, <2>1, <2>6, ThermKnows
  <2> QED
    BY <2>2, <2>3, <2>4, <2>5, <2>6 DEF Next
<1> QED
  BY <1>1, <1>2, <1>3 DEF ECallIInv

LEMMA ECallInductive == Spec => []ECallIInv
  BY ECallInitially, ECallNext, PTL DEF Spec

\* The application has one call of its own at a time; while it is up thermal shutdown is
\* not allowed, and once it is over nothing is left of it, also at the thermal service,
\* unless one of the causes the history names went before.
THEOREM ECallCallFollowed == Spec => []CallFollowed
<1> SUFFICES ASSUME ECallIInv PROVE CallFollowed
  BY ECallInductive, PTL
<1>1. \A c \in Call : Live(c) => Engaged(c)
  BY DEF Live, Engaged
<1>2. OneCall
  <2> SUFFICES ASSUME cause = {} PROVE Cardinality({c \in Call : Live(c)}) <= 1
    BY DEF OneCall
  <2> DEFINE live == {c \in Call : Live(c)}
  <2>1. \A c, d \in live : c = d
    BY <1>1 DEF ECallIInv, CallsKnown, OneEngaged
  <2>2. live = {} \/ \E c \in live : live = {c}
    BY <2>1
  <2>3. Cardinality(live) = 0 \/ Cardinality(live) = 1
    BY <2>2, FS_EmptySet, FS_Singleton
  <2> QED
    BY <2>3
<1>3. CallGuarded
  <2> SUFFICES ASSUME cause = {}, NEW c \in Call, Live(c)
               PROVE  /\ eCallInprogress_ /\ phoneId_ = 1 /\ (locListener_ \/ locRefused)
                      /\ "refused" \notin thermCause => ~shutdownAllowed_
    BY DEF CallGuarded
  <2>1. AnyEngaged
    BY <1>1 DEF AnyEngaged
  <2> QED
    BY <2>1 DEF ECallIInv, AppKnows, InProgress, Switched, Up
<1>4. ASSUME Quiet, cause = {}, ~(\E c \in Call : Live(c)) PROVE ~AnyEngaged
  <2> SUFFICES ASSUME NEW c \in Call, Engaged(c) PROVE FALSE
    BY DEF AnyEngaged
  <2>1. CallKnown(c)
    BY <1>4 DEF ECallIInv, CallsKnown
  <2>2. Follows(c)
    BY <1>4 DEF Quiet, Engaged, Live
  <2> QED
    BY <1>4, <2>1, <2>2 DEF CallKnown, Followed, Quiet, Live
<1>5. ClearedDown
  <2> SUFFICES ASSUME Quiet, cause = {}, ~(\E c \in Call : Live(c))
               PROVE  /\ ~eCallInprogress_ /\ ~callListener_ /\ eCall_ = NoCall
                      /\ (~locListener_ \/ locRefused) /\ phoneId_ = -1 /\ shutdownAllowed_
    BY DEF ClearedDown
  <2>1. ~AnyEngaged /\ CallsKnown /\ AppKnows /\ user = "idle" /\ tel = "idle" /\ TypeOK
    BY <1>4 DEF Quiet, ECallIInv
  <2>2. eCall_ = NoCall
    BY <2>1, NoneEngaged DEF Follows, TypeOK
  <2> QED
    BY <2>1, <2>2 DEF AppKnows, InProgress, Listening, Switched, Up
<1>6. ModeFollowsCall
  <2> SUFFICES ASSUME Quiet, cause = {}, thermCause = {}, ~notice, thermPc = "idle"
               PROVE  mode = "disabled" <=> \E c \in Call : Live(c)
    BY DEF ModeFollowsCall
  <2>1. /\ ~shutdownAllowed_ => mode # "enabled"
        /\ shutdownAllowed_ => mode = "enabled"
        /\ mode \in {"enabled", "disabled"}
    BY DEF ECallIInv, ModeKept, TypeOK, ThermTypeOK
  <2>2. (\E c \in Call : Live(c)) => ~shutdownAllowed_
    BY <1>3 DEF CallGuarded
  <2>3. ~(\E c \in Call : Live(c)) => shutdownAllowed_
    BY <1>5 DEF ClearedDown
  <2> QED
    BY <2>1, <2>2, <2>3
<1> QED
  BY <1>2, <1>3, <1>5, <1>6 DEF CallFollowed, ECallIInv

=============================================================================
