---------------------------- MODULE VoiceSession ----------------------------
(***************************************************************************)
(* The voice session of the eCall application (AudioClient.cpp).           *)
(*                                                                         *)
(* startVoiceSession() creates the stream or, when there is one, starts    *)
(* it; stopVoiceSession() stops it, and the answer to the stop deletes it. *)
(* Every request is asynchronous: it is answered, in the order of the      *)
(* requests, by a callback on a thread of the audio service. The streams   *)
(* are numbered as they are created.                                       *)
(***************************************************************************)
EXTENDS Integers, Sequences

CONSTANTS
    MaxVoiceCall,   \* bound: calls
    Unanswered      \* bound: requests unanswered when a call is set up or cleared

ASSUME VoiceAssumption == MaxVoiceCall \in Nat /\ Unanswered \in Nat

VARIABLES
    voiceEnabled_,      \* AudioClient
    audioVoiceStream_,  \* AudioClient: the stream it holds, or NoStream
    audioReq,           \* audio service: requests not yet answered
    made,               \* audio service: streams created so far
    streamUp,           \* audio service: the streams that exist
    voiceOn,            \* audio service: the streams that are running
    inCall,             \* ECallManager: between setup() and cleanup()
    count,              \* calls so far
    voiceCause          \* history: what may part the session from the call

voiceVars == <<voiceEnabled_, audioVoiceStream_, audioReq, made, streamUp,
              voiceOn, inCall, count, voiceCause>>

NoStream == 0
AudioOp == {"create", "start", "stop", "delete"}
AudioRequest == [op : AudioOp, on : Nat]
VoiceCause == {"refused", "stopTooSoon", "startTooSoon", "overwritten"}

VoiceInit ==
    /\ voiceEnabled_ = FALSE /\ audioVoiceStream_ = NoStream /\ audioReq = << >>
    /\ made = 0 /\ streamUp = {} /\ voiceOn = {}
    /\ inCall = FALSE /\ count = 0 /\ voiceCause = {}

VoiceBlame(c, when) == IF when THEN {c} ELSE {}

\* A request for the stream that AudioClient holds.
Request(op) == <<[op |-> op, on |-> audioVoiceStream_]>>

-----------------------------------------------------------------------------
(* The methods, called by the eCall manager.                               *)

\* startVoiceSession(): the request it sends, if any. A stream whose creation is
\* not answered yet is not held, and is asked for again.
StartRequestOnlyStart == IF audioVoiceStream_ # NoStream THEN Request("start") ELSE << >>
StartRequest == IF voiceEnabled_ THEN << >>
                ELSE Request(IF audioVoiceStream_ = NoStream THEN "create" ELSE "start")

StartVoiceSession ==
    /\ ~inCall /\ count < MaxVoiceCall /\ Len(audioReq) <= Unanswered
    /\ inCall' = TRUE /\ count' = count + 1
    /\ audioReq' = audioReq \o StartRequest
    /\ voiceCause' = voiceCause \cup VoiceBlame("startTooSoon", audioReq # << >>)
    /\ UNCHANGED <<voiceEnabled_, audioVoiceStream_, made, streamUp, voiceOn>>

\* stopVoiceSession(): nothing is asked of a session that is not enabled yet.
StopRequestNever == << >>
StopRequest == IF voiceEnabled_ /\ audioVoiceStream_ # NoStream THEN Request("stop") ELSE << >>

StopVoiceSession ==
    /\ inCall /\ Len(audioReq) <= Unanswered
    /\ inCall' = FALSE
    /\ audioReq' = audioReq \o StopRequest
    /\ voiceCause' = voiceCause \cup VoiceBlame("stopTooSoon", audioReq # << >>)
    /\ UNCHANGED <<voiceEnabled_, audioVoiceStream_, made, streamUp, voiceOn, count>>

-----------------------------------------------------------------------------
(* The audio service answers its oldest request. It refuses what is asked  *)
(* of a stream that does not exist, and may refuse anything else.          *)

Oldest(op) == audioReq # << >> /\ Head(audioReq).op = op
Of == Head(audioReq).on

Refuses ==
    /\ audioReq # << >>
    /\ audioReq' = Tail(audioReq) /\ voiceCause' = voiceCause \cup {"refused"}
    /\ UNCHANGED <<voiceEnabled_, audioVoiceStream_, made, streamUp, voiceOn, inCall, count>>

\* createStreamCallback(): the stream that was created replaces the one that is held
\* and is started at once.
CreateAnswered ==
    /\ Oldest("create")
    /\ made' = made + 1 /\ streamUp' = streamUp \cup {made'}
    /\ audioVoiceStream_' = made'
    /\ audioReq' = Append(Tail(audioReq), [op |-> "start", on |-> made'])
    /\ voiceCause' = voiceCause \cup VoiceBlame("overwritten", audioVoiceStream_ # NoStream)
    /\ UNCHANGED <<voiceEnabled_, voiceOn, inCall, count>>

\* startAudioCallback().
EnabledAfterStart == TRUE

StartAnswered ==
    /\ Oldest("start") /\ Of \in streamUp
    /\ voiceOn' = voiceOn \cup {Of} /\ voiceEnabled_' = EnabledAfterStart
    /\ audioReq' = Tail(audioReq)
    /\ UNCHANGED <<audioVoiceStream_, made, streamUp, inCall, count, voiceCause>>

\* stopAudioCallback(): the stream that is held by now is deleted.
AfterStop == Request("delete")

StopAnswered ==
    /\ Oldest("stop") /\ Of \in streamUp
    /\ voiceOn' = voiceOn \ {Of} /\ voiceEnabled_' = FALSE
    /\ audioReq' = Tail(audioReq) \o AfterStop
    /\ UNCHANGED <<audioVoiceStream_, made, streamUp, inCall, count, voiceCause>>

\* deleteStreamCallback(): whatever stream is held by now is forgotten.
DeleteAnswered ==
    /\ Oldest("delete") /\ Of \in streamUp
    /\ audioVoiceStream_' = NoStream
    /\ streamUp' = streamUp \ {Of} /\ voiceOn' = voiceOn \ {Of}
    /\ audioReq' = Tail(audioReq)
    /\ UNCHANGED <<voiceEnabled_, made, inCall, count, voiceCause>>

AudioService ==
    CreateAnswered \/ StartAnswered \/ StopAnswered \/ DeleteAnswered \/ Refuses

VoiceNext == StartVoiceSession \/ StopVoiceSession \/ AudioService

\* The audio service answers every request.
VoiceSpec == VoiceInit /\ [][VoiceNext]_voiceVars /\ WF_voiceVars(AudioService)

-----------------------------------------------------------------------------
(* Properties.                                                             *)

\* The state keeps its type: streams are numbers, and the audio queue holds requests.
VoiceTypeOK ==
    /\ voiceEnabled_ \in BOOLEAN /\ audioVoiceStream_ \in Nat
    /\ audioReq \in Seq(AudioRequest) /\ made \in Nat /\ streamUp \in SUBSET (1 .. made)
    /\ voiceOn \in SUBSET streamUp /\ inCall \in BOOLEAN /\ count \in 0 .. MaxVoiceCall
    /\ voiceCause \in SUBSET VoiceCause

\* Once the audio service has answered, there is voice exactly during a call and
\* voiceEnabled_ says so, unless a request was refused or the session was
\* started or stopped while an earlier request was unanswered.
VoiceFollowsCall ==
    audioReq = << >> /\ voiceCause = {} => /\ voiceOn # {} <=> inCall
                                          /\ voiceEnabled_ = inCall

\* A session that was not refused anything holds no stream between calls.
StreamReleased ==
    audioReq = << >> /\ voiceCause = {} /\ ~inCall
      => audioVoiceStream_ = NoStream /\ streamUp = {}

\* Whatever else happened to it, the stream that exists is the one that AudioClient
\* holds, and it never takes a running session for a stopped one: the next cleanup can
\* stop it. A creation answered while a stream is held (createStreamCallback()
\* overwrites audioVoiceStream_) loses that stream.
RunningKnown ==
    "overwritten" \notin voiceCause =>
      /\ streamUp = {audioVoiceStream_} \ {NoStream}
      /\ voiceOn # {} => voiceEnabled_

\* That takes a session that was stopped and started again before an earlier request was
\* answered.
LostByHaste == "overwritten" \in voiceCause => {"stopTooSoon", "startTooSoon"} \subseteq voiceCause

\* Voice, stream and voiceEnabled_ follow the call, and a running session is known
\* even after refusals, unless its stream was overwritten.
SessionFollowsCall ==
    VoiceTypeOK /\ VoiceFollowsCall /\ StreamReleased /\ RunningKnown /\ LostByHaste

\* A call that lasts gets its voice.
VoiceComes == <>[](inCall /\ voiceCause = {}) => <>[](voiceOn # {})

=============================================================================
