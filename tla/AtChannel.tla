----------------------------- MODULE AtChannel -----------------------------
(***************************************************************************)
(* The AT channel of the reference RIL: atchannel.c with the three threads *)
(* of reference-ril.c around it.  The event thread sends commands: those   *)
(* of initializeCallback(), which begin with the handshake, and those of   *)
(* requests.  A reader thread belongs to each opening of the channel; the  *)
(* main thread opens it again after it was closed.  The modem answers the  *)
(* commands in order, sends lines of its own, and may hang up.             *)
(*                                                                         *)
(* s_commandmutex is free whenever the event thread waits for a response;  *)
(* it is held through the handshake and the pause after it, and in no      *)
(* other state that lasts.  A wait ends only when it was signalled or its  *)
(* limit passed (spurious wakeups are left out).                           *)
(***************************************************************************)
EXTENDS AtLines

CONSTANTS
    Kinds,      \* the kinds of command the RIL sends
    Unasked,    \* texts of the lines the modem sends of its own accord
    Retry,      \* HANDSHAKE_RETRY_COUNT
    MaxSent,    \* bound: commands sent
    MaxUnasked, \* bound: lines the modem sends of its own accord
    MaxOpen     \* bound: openings of the channel

ASSUME AtAssumption ==
    /\ Kinds \subseteq Kind /\ Unasked \subseteq Text
    /\ {Retry, MaxSent, MaxUnasked, MaxOpen} \subseteq Nat

Open == 1 .. MaxOpen

VARIABLES
    s_fd,           \* the opening the descriptor belongs to; 0 for -1
    s_readerClosed,
    sp_response,    \* [pending, final, infos]; infos newest first
    s_smsPDU,       \* a PDU waits for the prompt
    signalled,      \* s_commandcond: the waiting thread was signalled
    partial,        \* s_ATBuffer holds the beginning of a line
    ev,             \* event thread: "idle", "shake", "wait", "pause", "work"
    cmd,            \* its command: [id, kind, timed]
    inInit,         \* it is in initializeCallback
    tries,          \* attempts of the handshake
    initDue,        \* initializeCallback() calls in the timer list
    answered,       \* the last command was answered
    reader,         \* the reader thread of each opening
    main,           \* main thread: "opening", "reset", "sleep", "cond"
    opened,         \* openings so far
    s_closed,
    sState,         \* radio state
    up,             \* modem: the channel is connected
    lines,          \* lines on their way to the reader, of each opening
    asked,          \* modem: commands to answer, of each opening
    sent, unasked,  \* counters of the bounds
    crashed,        \* a NULL sp_response was dereferenced
    heard,          \* history: lines read while the command waited
    last,           \* history: what a command returned in this step
    cause           \* history: what may make an answer go astray

fdVars == <<s_fd, s_readerClosed, partial>>
respVars == <<sp_response, s_smsPDU, signalled, heard>>
evVars == <<ev, cmd, inInit, tries, answered, sent>>
mainVars == <<main, opened, s_closed, sState, initDue>>
modemVars == <<up, lines, asked, unasked>>
vars == <<fdVars, respVars, evVars, mainVars, modemVars, cause, reader, crashed, last>>

Result(of, err, final, infos) == [of |-> of, err |-> err, final |-> final, infos |-> infos]
NoCommand == [id |-> 0, kind |-> "plain", timed |-> FALSE]
NoResult == Result(NoCommand, "none", NoLine, <<>>)
NoResponse == [pending |-> FALSE, final |-> NoLine, infos |-> <<>>]
NewResponse == [NoResponse EXCEPT !.pending = TRUE]
Complete == sp_response.final # NoLine

\* "unmatched": a handshake ended with answers outstanding; "carrier",
\* "prefix": a line of the modem's own was taken for one of an answer;
\* "garbled": an answer was joined to the rest of an old buffer; "pduLost": a
\* prompt found no PDU; "reopened": a command waited while at_open() ran;
\* "overtaken": the main thread opened before the old reader told the state.
Cause == {"unmatched", "carrier", "prefix", "garbled", "pduLost", "reopened", "overtaken"}
Blame(c, when) == IF when THEN {c} ELSE {}

Init ==
    /\ s_fd = 0 /\ s_readerClosed = FALSE /\ partial = FALSE
    /\ sp_response = NoResponse /\ s_smsPDU = FALSE /\ signalled = FALSE /\ heard = <<>>
    /\ ev = "idle" /\ cmd = NoCommand /\ inInit = FALSE /\ tries = 0 /\ sent = 0 /\ answered = FALSE
    /\ last = NoResult
    /\ main = "opening" /\ opened = 0 /\ s_closed = FALSE
    /\ sState = "UNAVAILABLE" /\ initDue = 0
    /\ up = [o \in Open |-> FALSE] /\ unasked = 0
    /\ lines = [o \in Open |-> <<>>] /\ asked = [o \in Open |-> <<>>]
    /\ reader = [o \in Open |-> "none"]
    /\ crashed = FALSE /\ cause = {}

MutexFree == ev \notin {"shake", "pause"}
NoSignal == UNCHANGED signalled
Signal == signalled' = (signalled \/ ev = "wait")

\* setRadioState(); its broadcast lets the main thread look at s_closed.
SetRadioState(state) ==
    /\ sState' = IF s_closed THEN "UNAVAILABLE" ELSE state
    /\ main' = IF main = "cond" /\ s_closed THEN "opening" ELSE main

-----------------------------------------------------------------------------
(* The event thread: at_send_command_full(), at_handshake().               *)

Writable == s_fd # 0 /\ ~s_readerClosed
After(timed) == IF timed THEN "shake" ELSE IF inInit THEN "work" ELSE "idle"

\* clearPendingCommand()
Clear == sp_response' = NoResponse /\ s_smsPDU' = FALSE /\ heard' = <<>>

\* Commands whose answers are still to come, or have come and were not read.
Owed == IF s_fd = 0 THEN {}
        ELSE {asked[s_fd][i].id : i \in DOMAIN asked[s_fd]}
Arrived == IF s_fd = 0 THEN {}
           ELSE {lines[s_fd][i].own : i \in {j \in DOMAIN lines[s_fd] : IsFinal(lines[s_fd][j])}} \ {0}

\* writeline() succeeds; the thread waits, which frees the mutex.
Issue(kind, timed) ==
    LET id == sent + 1
    IN  /\ Writable
        /\ asked' = IF up[s_fd]
                    THEN [asked EXCEPT ![s_fd] = Append(@, [id |-> id, kind |-> kind, at |-> "new"])]
                    ELSE asked
        /\ id <= MaxSent /\ sent' = id
        /\ sp_response' = NewResponse /\ s_smsPDU' = (kind = "sms")
        /\ signalled' = FALSE /\ heard' = <<>>
        /\ cmd' = [id |-> id, kind |-> kind, timed |-> timed]
        /\ ev' = "wait" /\ last' = NoResult
        /\ cause' = IF Owed \cup Arrived = {} THEN cause \cap {"overtaken"} ELSE cause
        /\ UNCHANGED <<answered, up, lines, unasked>>

\* writeline() fails: the channel is closed, or the modem hung up.
IssueFails(timed) ==
    /\ \/ /\ ~Writable
          /\ last' = Result(NoCommand, "closed", NoLine, <<>>)
       \/ /\ Writable /\ ~up[s_fd]
          /\ last' = Result(NoCommand, "generic", NoLine, <<>>)
    /\ Clear /\ ev' = After(timed) /\ answered' = FALSE
    /\ UNCHANGED <<signalled, cmd, sent, modemVars, cause>>

RadioUntouched == sState
RadioAtInit == "OFF"

StartInit ==
    /\ ev = "idle" /\ initDue > 0
    /\ initDue' = initDue - 1
    /\ SetRadioState(RadioAtInit)
    /\ ev' = "shake" /\ inInit' = TRUE
    /\ UNCHANGED <<fdVars, respVars, cmd, tries, answered, sent, opened, s_closed, modemVars, cause,
                   reader, crashed>>

ShakeAttempt ==
    /\ ev = "shake" /\ tries < Retry /\ tries' = tries + 1
    /\ Issue("plain", TRUE) \/ IssueFails(TRUE)
    /\ UNCHANGED <<fdVars, inInit, mainVars, reader, crashed>>

\* at_handshake() gives up, or its pause ends: the mutex is free again.
ShakeEnds ==
    /\ ev = "pause" \/ (ev = "shake" /\ tries = Retry)
    /\ ev' = "work" /\ tries' = 0
    /\ cause' = cause \cup Blame("unmatched", Owed \cup Arrived # {})
    /\ UNCHANGED <<fdVars, respVars, cmd, inInit, answered, sent, mainVars, modemVars,
                   reader, crashed>>

\* A command of initializeCallback(), or of a request: those are refused
\* while the radio is unavailable.
SendCommand ==
    /\ ev = "work" \/ (ev = "idle" /\ sState # "UNAVAILABLE")
    /\ \E kind \in Kinds : Issue(kind, FALSE) \/ IssueFails(FALSE)
    /\ UNCHANGED <<fdVars, inInit, tries, mainVars, reader, crashed>>

\* The last command is AT+CFUN?: the radio is on only if it was answered.
InitEnds ==
    /\ ev = "work" /\ ev' = "idle" /\ inInit' = FALSE
    /\ \/ answered /\ SetRadioState("ON")
       \/ UNCHANGED <<main, sState>>
    /\ UNCHANGED <<fdVars, respVars, cmd, tries, answered, sent, opened, s_closed, initDue,
                   modemVars, cause, reader, crashed>>

\* The response list is turned round, so that lines stand as they came.
AsStored(infos) == infos
Reversed(infos) == [i \in DOMAIN infos |-> infos[Len(infos) + 1 - i]]

\* The response is handed over; when the reader is closed it is an error.
Returned ==
    LET infos == Reversed(sp_response.infos)
    IN  IF s_readerClosed THEN Result(cmd, "closed", NoLine, <<>>)
        ELSE Result(cmd, Verdict(cmd.kind, sp_response.final, infos), sp_response.final, infos)

Return ==
    /\ ev = "wait" /\ signalled /\ sp_response.pending
    /\ Complete \/ s_readerClosed
    /\ last' = Returned /\ answered' = (last'.err = "none") /\ Clear
    /\ signalled' = FALSE /\ cmd' = NoCommand
    /\ ev' = IF cmd.timed /\ ~s_readerClosed THEN "pause" ELSE After(cmd.timed)
    /\ UNCHANGED <<fdVars, inInit, tries, sent, mainVars, modemVars, cause,
                   reader, crashed>>

WaitAgain ==
    /\ ev = "wait" /\ signalled /\ sp_response.pending
    /\ ~Complete /\ ~s_readerClosed
    /\ signalled' = FALSE
    /\ UNCHANGED <<fdVars, sp_response, s_smsPDU, heard, evVars, mainVars, modemVars, cause,
                   reader, crashed>>

\* sp_response->finalResponse, when at_open() made sp_response NULL.
NullResponse ==
    /\ ev = "wait" /\ signalled /\ ~sp_response.pending
    /\ crashed' = TRUE
    /\ UNCHANGED <<fdVars, respVars, evVars, mainVars, modemVars, cause, reader>>

\* timeoutMsec is 0 but for the handshake.
TimeOut ==
    /\ ev = "wait" /\ cmd.timed
    /\ last' = Result(cmd, "timeout", NoLine, <<>>) /\ answered' = FALSE
    /\ Clear /\ signalled' = FALSE /\ ev' = "shake" /\ cmd' = NoCommand
    /\ UNCHANGED <<fdVars, inInit, tries, sent, mainVars, modemVars, cause,
                   reader, crashed>>

-----------------------------------------------------------------------------
(* The reader thread of an opening.                                        *)

\* onUnsolicited(): most lines only go up to the RIL.
Unsolicited(line) ==
    /\ IF line.text = "cfun" /\ sState # "UNAVAILABLE" THEN SetRadioState("OFF")
       ELSE UNCHANGED <<main, sState>>
    /\ cause' = cause \cup Blame("pduLost", line.text = "prompt")
    /\ UNCHANGED <<sp_response, s_smsPDU, signalled, asked>>

\* writeCtrlZ(): the modem gets the PDU it waits for, if it does.
WriteCtrlZ(o) ==
    /\ s_smsPDU' = FALSE
    /\ asked' = IF asked[o] # <<>> /\ Head(asked[o]).at = "pdu"
                THEN [asked EXCEPT ![o][1].at = "data"] ELSE asked

FinalLine(line) ==
    /\ sp_response' = [sp_response EXCEPT !.final = line]
    /\ Signal
    /\ cause' = cause \cup Blame("carrier", line.own = 0)
    /\ UNCHANGED <<s_smsPDU, asked, main, sState>>

TakesLine(line) == Takes(cmd.kind, sp_response.infos, line)

AddIntermediate(line) ==
    /\ sp_response' = [sp_response EXCEPT !.infos = <<line>> \o @]
    /\ cause' = cause \cup Blame("prefix", line.own = 0 /\ line.text = cmd.kind)
    /\ UNCHANGED <<s_smsPDU, signalled, asked, main, sState>>

\* processLine()
ProcessLine(o, line) ==
    \/ ~sp_response.pending /\ Unsolicited(line)
    \/ /\ sp_response.pending
       /\ \/ IsFinal(line) /\ FinalLine(line)
          \/ /\ line.text = "prompt" /\ s_smsPDU
             /\ WriteCtrlZ(o) /\ UNCHANGED <<sp_response, signalled, cause, main, sState>>
          \/ ~IsFinal(line) /\ TakesLine(line) /\ AddIntermediate(line)
          \/ /\ ~IsFinal(line) /\ ~(line.text = "prompt" /\ s_smsPDU) /\ ~TakesLine(line)
             /\ Unsolicited(line)

\* readline() found text in s_ATBuffer that no end of line follows.
BufferFound == partial
Lost(line) == line.own # 0 /\ (IsFinal(line) \/ line.text = "prompt")
Heard(line) == heard' = IF sp_response.pending THEN Append(heard, line) ELSE heard
Consume(o) == lines' = [lines EXCEPT ![o] = Tail(@)]
ReadVars == <<s_fd, s_readerClosed, evVars, opened, s_closed, initDue, up, unasked,
              reader, crashed>>

ReadLine(o) ==
    /\ reader[o] = "loop" /\ lines[o] # <<>> /\ ~BufferFound
    /\ Head(lines[o]).text # "cmt" /\ MutexFree
    /\ Consume(o) /\ Heard(Head(lines[o])) /\ ProcessLine(o, Head(lines[o]))
    /\ UNCHANGED <<partial, ReadVars>>

\* Two lines, handed on without the mutex.
ReadSms(o) ==
    /\ reader[o] = "loop" /\ lines[o] # <<>> /\ ~BufferFound
    /\ Head(lines[o]).text = "cmt" /\ Consume(o)
    /\ UNCHANGED <<partial, respVars, asked, main, sState, cause, ReadVars>>

\* What the old reader left comes first: as a line of no meaning, or, when
\* no empty line is between, as the beginning of the next one.
ReadLeftover(o) ==
    /\ reader[o] = "loop" /\ lines[o] # <<>> /\ BufferFound
    /\ MutexFree /\ partial' = FALSE /\ Heard(NoLine)
    /\ \/ UNCHANGED <<lines, cause>>
       \/ Consume(o) /\ cause' = cause \cup Blame("garbled", Lost(Head(lines[o])))
    /\ UNCHANGED <<sp_response, s_smsPDU, signalled, asked, main, sState, ReadVars>>

Reader(o, from, to) == reader[o] = from /\ reader' = [reader EXCEPT ![o] = to]

\* The end of the stream, where the beginning of a line may stay in
\* s_ATBuffer: onReaderClosed(), whose callback begins with at_close().
FreedAtClose == sp_response' = NoResponse
KeptAtClose == UNCHANGED sp_response

OnReaderClosed(o) ==
    /\ Reader(o, "loop", "tell") /\ MutexFree
    /\ ~up[o] /\ lines[o] = <<>>
    /\ partial' \in {partial, TRUE}
    /\ s_fd' = 0 /\ s_readerClosed' = TRUE /\ Signal /\ KeptAtClose
    /\ UNCHANGED <<s_smsPDU, heard, evVars, mainVars, modemVars, cause, crashed>>

\* onATReaderClosed() goes on: s_closed, then the radio state.
TellClosed(o) ==
    /\ Reader(o, "tell", "state") /\ s_closed' = TRUE
    /\ UNCHANGED <<fdVars, respVars, evVars, main, opened, sState, initDue, modemVars,
                   cause, crashed>>

TellState(o) ==
    /\ Reader(o, "state", "dead") /\ SetRadioState("UNAVAILABLE")
    /\ UNCHANGED <<fdVars, respVars, evVars, opened, s_closed, initDue, modemVars,
                   cause, crashed>>

-----------------------------------------------------------------------------
(* The main thread: mainLoop(), at_open().                                 *)

Reopen ==
    /\ main = "opening" /\ opened < MaxOpen
    /\ opened' = opened + 1 /\ main' = "reset"
    /\ s_closed' = FALSE
    /\ s_fd' = opened' /\ s_readerClosed' = FALSE
    /\ up' = [up EXCEPT ![opened'] = TRUE]
    /\ cause' = (IF ev = "wait" THEN cause ELSE {})
                \cup Blame("overtaken", \E o \in Open : reader[o] = "state")
    /\ UNCHANGED <<partial, respVars, evVars, sState, initDue, lines, asked, unasked,
                   reader, crashed>>

\* at_open() resets the pending command, whose mutex it does not hold; the
\* reader is created and initializeCallback() put in the timer list.
ResetPending ==
    /\ main = "reset" /\ main' = "sleep"
    /\ sp_response' = NoResponse /\ s_smsPDU' = FALSE
    /\ cause' = cause \cup Blame("reopened", ev = "wait")
    /\ reader' = [reader EXCEPT ![opened] = "loop"]
    /\ initDue' = initDue + 1
    /\ UNCHANGED <<fdVars, signalled, heard, evVars, opened, s_closed, sState, modemVars,
                   crashed>>

\* sleep(1) ends, and waitForClose() looks at s_closed.
LooksAway == TRUE
MayReopen == s_closed

SleepEnds ==
    /\ main = "sleep" /\ main' = IF MayReopen THEN "opening" ELSE "cond"
    /\ UNCHANGED <<fdVars, respVars, evVars, opened, s_closed, sState, initDue, modemVars,
                   cause, reader, crashed>>

-----------------------------------------------------------------------------
(* The modem.                                                              *)

Emit(o, text, own) == lines' = [lines EXCEPT ![o] = Append(@, Line(text, own))]

\* It answers its first command by one more line: a command with intermediate
\* lines has one of them (a MULTILINE one, two), a short message first the
\* prompt; any may fail instead.
Answers(o) ==
    /\ up[o] /\ asked[o] # <<>>
    /\ LET q == Head(asked[o])
           Goes(at) == asked' = [asked EXCEPT ![o][1].at = at]
           Done == asked' = [asked EXCEPT ![o] = Tail(@)]
       IN  \/ q.at = "new" /\ q.kind = "sms" /\ Emit(o, "prompt", q.id) /\ Goes("pdu")
           \/ /\ q.at = "data" \/ (q.at = "new" /\ q.kind \notin {"plain", "sms"})
              /\ Emit(o, q.kind, q.id)
              /\ Goes(IF q.kind = "clcc" THEN "more" ELSE "end")
           \/ q.at = "more" /\ Emit(o, q.kind, q.id) /\ Goes("end")
           \/ /\ q.at = "end" \/ (q.at = "new" /\ q.kind = "plain")
              /\ Emit(o, "ok", q.id) /\ Done
           \/ q.at \in {"new", "data"} /\ Emit(o, "error", q.id) /\ Done
    /\ UNCHANGED <<fdVars, respVars, evVars, mainVars, up, unasked, cause, reader, crashed>>

SendsUnasked(o) ==
    /\ up[o] /\ unasked < MaxUnasked /\ unasked' = unasked + 1
    /\ \E text \in Unasked : Emit(o, text, 0)
    /\ UNCHANGED <<fdVars, respVars, evVars, mainVars, up, asked, cause, reader, crashed>>

HangsUp(o) ==
    /\ up[o] /\ up' = [up EXCEPT ![o] = FALSE]
    /\ asked' = [asked EXCEPT ![o] = <<>>]
    /\ UNCHANGED <<fdVars, respVars, evVars, mainVars, lines, unasked, cause, reader, crashed>>

Returning == ShakeAttempt \/ SendCommand \/ Return \/ TimeOut
EventThread == StartInit \/ ShakeEnds \/ InitEnds \/ WaitAgain \/ NullResponse
ReaderThread(o) ==
    ReadLine(o) \/ ReadSms(o) \/ ReadLeftover(o) \/ OnReaderClosed(o) \/ TellClosed(o) \/ TellState(o)
MainThread == Reopen \/ ResetPending \/ SleepEnds
Modem(o) == Answers(o) \/ SendsUnasked(o) \/ HangsUp(o)

Next ==
    /\ ~crashed
    /\ \/ Returning
       \/ /\ last' = NoResult
          /\ \/ EventThread
             \/ MainThread
             \/ \E o \in Open : ReaderThread(o) \/ Modem(o)

\* What the return of a command needs: the event thread goes on, the readers
\* read, the main thread opens, the modem answers what it was asked.  Nothing
\* makes the RIL send a command or the modem hang up.
Fairness ==
    /\ WF_vars(~crashed /\ TimeOut)
    /\ WF_vars(~crashed /\ (Return \/ (last' = NoResult /\ EventThread)))
    /\ WF_vars(~crashed /\ last' = NoResult /\ MainThread)
    /\ WF_vars(~crashed /\ last' = NoResult /\ \E o \in Open : ReaderThread(o))
    /\ WF_vars(~crashed /\ last' = NoResult /\ \E o \in Open : Answers(o))

Spec == Init /\ [][Next]_vars /\ Fairness

-----------------------------------------------------------------------------
(* Properties.                                                             *)

LineType == [text : Text, own : 0 .. MaxSent]

(* Type correctness; no reader but the newest reads, and the descriptor it *)
(* reads is of its own opening (readerLoop, at_open).                      *)
TypeOK ==
    /\ s_fd \in 0 .. opened /\ opened \in 0 .. MaxOpen
    /\ {s_readerClosed, s_smsPDU, signalled, partial, inInit, s_closed, crashed} \subseteq BOOLEAN
    /\ sp_response.pending \in BOOLEAN /\ sp_response.final \in LineType
    /\ sp_response.infos \in Seq(LineType)
    /\ ev \in {"idle", "shake", "wait", "pause", "work"}
    /\ cmd \in [id : 0 .. MaxSent, kind : Kinds \cup {"plain"}, timed : BOOLEAN]
    /\ sent \in 0 .. MaxSent /\ tries \in 0 .. Retry /\ initDue \in 0 .. MaxOpen
    /\ last.err \in {"none", "invalid", "closed", "generic", "timeout"}
    /\ main \in {"opening", "reset", "sleep", "cond"}
    /\ sState \in {"UNAVAILABLE", "OFF", "ON"}
    /\ \A o \in Open : reader[o] = "loop" => o = opened /\ s_fd = o
    /\ cause \subseteq Cause

(* A command that succeeds was answered by its own final line and given    *)
(* its own intermediate lines, unless a handshake left answers behind or a *)
(* line of the modem's own looked like one of the answer (processLine).    *)
AnswerOwn ==
    [][(last'.err = "none" /\ ~last'.of.timed /\ last'.of # NoCommand) =>
        /\ last'.final.own = last'.of.id \/ cause \cap {"unmatched", "carrier"} # {}
        /\ \A i \in DOMAIN last'.infos :
               \/ last'.infos[i].own = last'.of.id
               \/ cause \cap {"unmatched", "carrier", "prefix"} # {}]_vars

(* A NULL response is dereferenced only when at_open() ran while a command *)
(* waited (at_open, at_send_command_full_nolock).                          *)
CrashExplained == crashed => "reopened" \in cause

(* Once the channel is open and no initialisation is due, the radio is not *)
(* held for unavailable: else onUnsolicited() would drop every line.  The  *)
(* exception: the old reader told its state after the next opening         *)
(* (onATReaderClosed, mainLoop).                                           *)
OpenChannelHeard ==
    main \in {"sleep", "cond"} /\ ~s_closed /\ initDue = 0
    => sState # "UNAVAILABLE" \/ "overtaken" \in cause

(* What at_send_command() promises (AtCommand), whatever the threads do.   *)
Promise == INSTANCE AtCommand WITH call <- cmd
PromiseKept == Promise!Spec

(* A command in progress returns, unless its answer was garbled, its PDU   *)
(* was sent for nothing, or at_open() took its response away.              *)
CommandReturns ==
    ev = "wait" ~> (ev # "wait" \/ crashed \/ cause \cap {"garbled", "pduLost", "reopened"} # {})
=============================================================================
