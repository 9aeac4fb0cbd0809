-------------------------- MODULE AtChannel_proofs --------------------------
(***************************************************************************)
(* Proofs about AtChannel, for every set of commands and of lines of the   *)
(* modem's own and for all bounds: its type invariant, that a NULL         *)
(* response is only met after at_open() ran while a command waited, that   *)
(* it implements AtCommand, that an open channel is heard, and that a      *)
(* command takes its own answer.                                           *)
(***************************************************************************)
EXTENDS AtChannel, SequenceTheorems, TLAPS

-----------------------------------------------------------------------------
(* What a response holds of the lines heard.                               *)

TakesAll(kind) == TypeOf(kind) = "MULTILINE"
Fit(kind, line) == Takes(kind, <<>>, line)

\* The intermediate lines, newest first, and where they were heard.
InfosAt(kind, h, infos, at) ==
    /\ at \in [DOMAIN infos -> DOMAIN h]
    /\ \A m \in DOMAIN infos : infos[m] = h[at[m]] /\ Fit(kind, h[at[m]])
    /\ \A m, n \in DOMAIN infos : m < n => at[m] > at[n]
    /\ \A i \in DOMAIN h : Fit(kind, h[i]) =>
          \E m \in DOMAIN infos : at[m] = i \/ (~TakesAll(kind) /\ at[m] < i)
    /\ TakesAll(kind) \/ Len(infos) < 2
InfosOf(kind, h, infos) == \E at : InfosAt(kind, h, infos, at)

\* The final line, or NoLine.
FinalOf(h, final) ==
    IF final = NoLine THEN \A i \in DOMAIN h : ~IsFinal(h[i])
    ELSE \E i \in DOMAIN h : /\ h[i] = final /\ IsFinal(final)
                             /\ \A j \in DOMAIN h : j > i => ~IsFinal(h[j])

LEMMA NothingHeard ==
    ASSUME NEW kind PROVE InfosOf(kind, <<>>, <<>>) /\ FinalOf(<<>>, NoLine)
<1>1. InfosAt(kind, <<>>, <<>>, <<>>)
  BY DEF InfosAt
<1> QED
  BY <1>1 DEF InfosOf, FinalOf

\* A line more was heard.
LEMMA HeardMore ==
    ASSUME NEW S, NEW h \in Seq(S), NEW line \in S
    PROVE  /\ Append(h, line) \in Seq(S) /\ Len(h) \in Nat
           /\ DOMAIN h = 1 .. Len(h) /\ DOMAIN Append(h, line) = 1 .. Len(h) + 1
           /\ \A i \in DOMAIN h : Append(h, line)[i] = h[i]
           /\ Append(h, line)[Len(h) + 1] = line
  BY AppendProperties, LenProperties

LEMMA FinalHeard ==
    ASSUME NEW S, NEW h \in Seq(S), NEW line \in S, IsFinal(line)
    PROVE  FinalOf(Append(h, line), line)
<1>1. line # NoLine
  BY DEF IsFinal, NoLine, Line
<1>2. Len(h) + 1 \in DOMAIN Append(h, line) /\ Append(h, line)[Len(h) + 1] = line
  BY HeardMore
<1>3. \A j \in DOMAIN Append(h, line) : ~(j > Len(h) + 1)
  BY HeardMore
<1> QED
  BY <1>1, <1>2, <1>3 DEF FinalOf

LEMMA OtherHeard ==
    ASSUME NEW S, NEW h \in Seq(S), NEW line \in S, ~IsFinal(line),
           NEW final, FinalOf(h, final)
    PROVE  FinalOf(Append(h, line), final)
<1> DEFINE g == Append(h, line)
<1>1. /\ Len(h) \in Nat /\ DOMAIN h = 1 .. Len(h) /\ DOMAIN g = 1 .. Len(h) + 1
      /\ \A i \in DOMAIN h : g[i] = h[i]
      /\ g[Len(h) + 1] = line
  BY HeardMore
<1> HIDE DEF g
<1>2. \A i \in DOMAIN g : i \in DOMAIN h \/ i = Len(h) + 1
  BY <1>1
<1> QED
  BY <1>1, <1>2 DEF FinalOf

\* A line is put before the others.
LEMMA Prepended ==
    ASSUME NEW S, NEW infos \in Seq(S), NEW line \in S
    PROVE  /\ <<line>> \o infos \in Seq(S)
           /\ Len(infos) \in Nat /\ DOMAIN infos = 1 .. Len(infos)
           /\ Len(<<line>> \o infos) = Len(infos) + 1
           /\ DOMAIN (<<line>> \o infos) = 1 .. Len(infos) + 1
           /\ (<<line>> \o infos)[1] = line
           /\ \A m \in DOMAIN infos : (<<line>> \o infos)[m + 1] = infos[m]
<1>1. <<line>> \in Seq(S) /\ Len(<<line>>) = 1 /\ <<line>>[1] = line
  OBVIOUS
<1>2. Len(infos) \in Nat /\ DOMAIN infos = 1 .. Len(infos)
  BY LenProperties
<1>3. /\ <<line>> \o infos \in Seq(S) /\ Len(<<line>> \o infos) = 1 + Len(infos)
      /\ \A i \in 1 .. 1 + Len(infos) :
            (<<line>> \o infos)[i] = IF i <= 1 THEN <<line>>[i] ELSE infos[i - 1]
  BY <1>1, ConcatProperties
<1>4. DOMAIN (<<line>> \o infos) = 1 .. Len(infos) + 1
  BY <1>2, <1>3, LenProperties
<1>5. (<<line>> \o infos)[1] = line
  BY <1>1, <1>2, <1>3
<1>6. \A m \in DOMAIN infos : (<<line>> \o infos)[m + 1] = infos[m]
  BY <1>2, <1>3
<1>7. Len(<<line>> \o infos) = Len(infos) + 1
  BY <1>2, <1>3
<1> QED
  BY <1>2, <1>3, <1>4, <1>5, <1>6, <1>7

\* The response takes the line.
LEMMA LineTaken ==
    ASSUME NEW S, NEW h \in Seq(S), NEW line \in S, NEW kind,
           NEW infos \in Seq(S), InfosOf(kind, h, infos), Takes(kind, infos, line)
    PROVE  InfosOf(kind, Append(h, line), <<line>> \o infos)
<1>1. PICK g \in Seq(S) :
        /\ g = Append(h, line)
        /\ Len(h) \in Nat /\ DOMAIN h = 1 .. Len(h) /\ DOMAIN g = 1 .. Len(h) + 1
        /\ \A i \in DOMAIN h : g[i] = h[i]
        /\ g[Len(h) + 1] = line
  <2> DEFINE longer == Append(h, line)
  <2>1. /\ longer \in Seq(S) /\ Len(h) \in Nat
        /\ DOMAIN h = 1 .. Len(h) /\ DOMAIN longer = 1 .. Len(h) + 1
        /\ \A i \in DOMAIN h : longer[i] = h[i]
        /\ longer[Len(h) + 1] = line
    BY HeardMore
  <2>2. longer = Append(h, line)
    OBVIOUS
  <2> HIDE DEF longer
  <2> QED
    BY <2>1, <2>2
<1> DEFINE more == <<line>> \o infos
<1>2. /\ Len(infos) \in Nat /\ DOMAIN infos = 1 .. Len(infos)
      /\ Len(more) = Len(infos) + 1 /\ DOMAIN more = 1 .. Len(infos) + 1
      /\ more[1] = line /\ \A m \in DOMAIN infos : more[m + 1] = infos[m]
  BY Prepended
<1> HIDE DEF more
<1>3. PICK at : InfosAt(kind, h, infos, at)
  BY DEF InfosOf
<1> DEFINE to == [m \in 1 .. Len(infos) + 1 |-> IF m = 1 THEN Len(h) + 1 ELSE at[m - 1]]
<1>4. \A m \in DOMAIN infos : at[m] \in 1 .. Len(h)
  BY <1>1, <1>3 DEF InfosAt
<1>5. /\ to \in [DOMAIN more -> DOMAIN g] /\ to[1] = Len(h) + 1 /\ 1 \in DOMAIN more
      /\ \A m \in DOMAIN infos : to[m + 1] = at[m] /\ to[m + 1] \in DOMAIN h
  <2>1. \A m \in 1 .. Len(infos) + 1 :
           to[m] = IF m = 1 THEN Len(h) + 1 ELSE at[m - 1]
    OBVIOUS
  <2>2. \A m \in 1 .. Len(infos) + 1 : m = 1 \/ m - 1 \in DOMAIN infos
    BY <1>2
  <2>3. \A m \in 1 .. Len(infos) + 1 : to[m] \in 1 .. Len(h) + 1
    BY <1>1, <1>4, <2>1, <2>2
  <2>4. 1 \in 1 .. Len(infos) + 1 /\ to[1] = Len(h) + 1
    BY <1>2, <2>1
  <2>5. \A m \in DOMAIN infos :
           m + 1 \in 1 .. Len(infos) + 1 /\ m + 1 # 1 /\ (m + 1) - 1 = m
    BY <1>2
  <2>6. \A m \in DOMAIN infos : to[m + 1] = at[m]
    BY <2>1, <2>5
  <2>7. to \in [1 .. Len(infos) + 1 -> 1 .. Len(h) + 1]
    BY <2>3
  <2> HIDE DEF to
  <2> QED
    BY <1>1, <1>2, <1>4, <2>4, <2>6, <2>7
<1>6. \A m \in DOMAIN more : m = 1 \/ (m - 1 \in DOMAIN infos /\ (m - 1) + 1 = m)
  BY <1>2
<1> HIDE DEF to
<1>7. Fit(kind, line) /\ (TakesAll(kind) \/ infos = <<>>)
  BY DEF Takes, Fit, TakesAll
<1>8. \A m \in DOMAIN more : more[m] = g[to[m]] /\ Fit(kind, g[to[m]])
  <2> TAKE m \in DOMAIN more
  <2>1. CASE m = 1
    BY <1>1, <1>2, <1>5, <1>7, <2>1
  <2>2. CASE m # 1
    <3> DEFINE n == m - 1
    <3>1. n \in DOMAIN infos /\ n + 1 = m
      BY <1>6, <2>2
    <3> HIDE DEF n
    <3>2. more[m] = infos[n] /\ to[m] = at[n] /\ g[to[m]] = h[at[n]]
      BY <1>1, <1>2, <1>5, <3>1
    <3> QED
      BY <1>3, <3>1, <3>2 DEF InfosAt
  <2> QED
    BY <2>1, <2>2
<1>9. \A m, n \in DOMAIN more : m < n => to[m] > to[n]
  <2> SUFFICES ASSUME NEW m \in DOMAIN more, NEW n \in DOMAIN more, m < n PROVE to[m] > to[n]
    OBVIOUS
  <2>1. n # 1 /\ n - 1 \in DOMAIN infos /\ to[n] = at[n - 1]
    BY <1>2, <1>5, <1>6
  <2>2. CASE m = 1
    BY <1>1, <1>4, <1>5, <2>1, <2>2
  <2>3. CASE m # 1
    <3>1. m - 1 \in DOMAIN infos /\ to[m] = at[m - 1] /\ m - 1 < n - 1
      BY <1>2, <1>5, <1>6, <2>3
    <3> QED
      BY <1>3, <2>1, <3>1 DEF InfosAt
  <2> QED
    BY <2>2, <2>3
<1>10. \A i \in DOMAIN g : Fit(kind, g[i]) =>
          \E m \in DOMAIN more : to[m] = i \/ (~TakesAll(kind) /\ to[m] < i)
  <2> SUFFICES ASSUME NEW i \in DOMAIN g, Fit(kind, g[i])
               PROVE  \E m \in DOMAIN more : to[m] = i \/ (~TakesAll(kind) /\ to[m] < i)
    OBVIOUS
  <2>1. CASE i = Len(h) + 1
    BY <1>5, <2>1
  <2>2. CASE i # Len(h) + 1
    <3>1. i \in DOMAIN h /\ Fit(kind, h[i])
      BY <1>1, <2>2
    <3>2. PICK m \in DOMAIN infos : at[m] = i \/ (~TakesAll(kind) /\ at[m] < i)
      BY <1>3, <3>1 DEF InfosAt
    <3>3. m + 1 \in DOMAIN more /\ to[m + 1] = at[m]
      BY <1>2, <1>5
    <3> QED
      BY <3>2, <3>3
  <2> QED
    BY <2>1, <2>2
<1>11. TakesAll(kind) \/ Len(more) < 2
  BY <1>2, <1>7
<1>12. InfosAt(kind, g, more, to)
  BY <1>5, <1>8, <1>9, <1>10, <1>11 DEF InfosAt
<1> QED
  BY <1>1, <1>12 DEF InfosOf, more

\* The response does not take the line.
LEMMA LineLeft ==
    ASSUME NEW S, NEW h \in Seq(S), NEW line \in S, NEW kind,
           NEW infos \in Seq(S), InfosOf(kind, h, infos), ~Takes(kind, infos, line)
    PROVE  InfosOf(kind, Append(h, line), infos)
<1>1. PICK g \in Seq(S) :
        /\ g = Append(h, line)
        /\ Len(h) \in Nat /\ DOMAIN h = 1 .. Len(h) /\ DOMAIN g = 1 .. Len(h) + 1
        /\ \A i \in DOMAIN h : g[i] = h[i]
        /\ g[Len(h) + 1] = line
  <2> DEFINE longer == Append(h, line)
  <2>1. /\ longer \in Seq(S) /\ Len(h) \in Nat
        /\ DOMAIN h = 1 .. Len(h) /\ DOMAIN longer = 1 .. Len(h) + 1
        /\ \A i \in DOMAIN h : longer[i] = h[i]
        /\ longer[Len(h) + 1] = line
    BY HeardMore
  <2>2. longer = Append(h, line)
    OBVIOUS
  <2> HIDE DEF longer
  <2> QED
    BY <2>1, <2>2
<1>2. PICK at : InfosAt(kind, h, infos, at)
  BY DEF InfosOf
<1>3. at \in [DOMAIN infos -> DOMAIN h] /\ at \in [DOMAIN infos -> DOMAIN g]
  BY <1>1, <1>2 DEF InfosAt
<1>4. \A m \in DOMAIN infos : at[m] \in DOMAIN h /\ at[m] < Len(h) + 1
  BY <1>1, <1>3
<1>5. \A i \in DOMAIN g : Fit(kind, g[i]) =>
         \E m \in DOMAIN infos : at[m] = i \/ (~TakesAll(kind) /\ at[m] < i)
  <2> SUFFICES ASSUME NEW i \in DOMAIN g, Fit(kind, g[i])
               PROVE  \E m \in DOMAIN infos : at[m] = i \/ (~TakesAll(kind) /\ at[m] < i)
    OBVIOUS
  <2>1. CASE i = Len(h) + 1
    <3>1. ~TakesAll(kind) /\ infos # <<>>
      BY <1>1, <2>1 DEF Takes, Fit, TakesAll
    <3>2. 1 \in DOMAIN infos
      BY <3>1, EmptySeq, LenProperties
    <3> QED
      BY <1>4, <2>1, <3>1, <3>2
  <2>2. CASE i # Len(h) + 1
    <3>1. i \in DOMAIN h /\ Fit(kind, h[i])
      BY <1>1, <2>2
    <3> QED
      BY <1>2, <3>1 DEF InfosAt
  <2> QED
    BY <2>1, <2>2
<1>6. InfosAt(kind, g, infos, at)
  BY <1>1, <1>2, <1>3, <1>4, <1>5 DEF InfosAt
<1> QED
  BY <1>1, <1>6 DEF InfosOf

-----------------------------------------------------------------------------
(* The inductive invariant.                                                *)

Alive(o) == reader[o] \in {"loop", "tell"}

\* The channel, its readers and the main thread.
Link ==
    /\ opened \in 0 .. MaxOpen /\ s_fd \in 0 .. opened
    /\ main \in {"opening", "reset", "sleep", "cond"}
    /\ sState \in {"UNAVAILABLE", "OFF", "ON"}
    /\ s_readerClosed \in BOOLEAN /\ partial \in BOOLEAN /\ s_closed \in BOOLEAN
    /\ initDue \in Nat /\ initDue + (IF main = "reset" THEN 1 ELSE 0) <= opened
    /\ reader \in [Open -> {"none", "loop", "tell", "state", "dead"}]

\* Only the newest reader has not told yet that the channel was closed; the
\* main thread opens when none is left, and starts the next one then.
Owner ==
    /\ \A o \in Open : Alive(o) => o = opened
    /\ \A o \in Open : reader[o] = "loop" => s_fd = o
    /\ (main \in {"opening", "reset"} \/ s_closed) => \A o \in Open : ~Alive(o)
    /\ main = "reset" => s_fd = opened /\ ~s_closed

\* The lines on their way, and the commands the modem has.
AskedType == [id : 1 .. MaxSent, kind : Kind, at : {"new", "pdu", "data", "more", "end"}]
Wire ==
    /\ lines \in [Open -> Seq(LineType)]
    /\ asked \in [Open -> Seq(AskedType)]

\* The command and its response.
Talk ==
    /\ sent \in 0 .. MaxSent /\ tries \in 0 .. Retry
    /\ s_smsPDU \in BOOLEAN /\ signalled \in BOOLEAN /\ inInit \in BOOLEAN
    /\ ev \in {"idle", "shake", "wait", "pause", "work"}
    /\ cmd \in [id : 0 .. MaxSent, kind : Kinds \cup {"plain"}, timed : BOOLEAN]
    /\ sp_response \in [pending : BOOLEAN, final : LineType, infos : Seq(LineType)]
    /\ heard \in Seq(LineType)
    /\ last.err \in {"none", "invalid", "closed", "generic", "timeout"}
    /\ ev = "wait" <=> cmd # NoCommand
    /\ sp_response.pending => ev = "wait"

\* A response holds what was heard since its command was sent.
Held ==
    sp_response.pending =>
        /\ InfosOf(cmd.kind, heard, sp_response.infos)
        /\ FinalOf(heard, sp_response.final)

\* A command waits without a response only after at_open() ran.
Causes ==
    /\ cause \subseteq Cause /\ crashed \in BOOLEAN
    /\ ev = "wait" /\ ~sp_response.pending => "reopened" \in cause
    /\ crashed => "reopened" \in cause

IInv == Link /\ Owner /\ Wire /\ Talk /\ Held /\ Causes

LEMMA Bounds == {Retry, MaxSent, MaxOpen} \subseteq Nat /\ Kinds \subseteq Kind /\ Unasked \subseteq Text
  BY AtAssumption DEF AtAssumption

LEMMA NoLineTyped == NoLine \in LineType /\ ~IsFinal(NoLine)
  BY AtAssumption DEF NoLine, Line, LineType, Text, IsFinal

\* setRadioState() and the main thread.
LEMMA RadioSet ==
    ASSUME Link, NEW state \in {"UNAVAILABLE", "OFF", "ON"}, SetRadioState(state)
    PROVE  /\ main' \in {"opening", "reset", "sleep", "cond"}
           /\ sState' \in {"UNAVAILABLE", "OFF", "ON"}
           /\ main' = main \/ (main = "cond" /\ main' = "opening" /\ s_closed)
  BY DEF Link, SetRadioState

LEMMA NoMore ==
    ASSUME NEW a \in Nat, NEW b \in Nat, NEW c \in Nat, a <= b, b + 1 <= c PROVE a + 1 <= c
  OBVIOUS

\* The state of the link, when only the main thread or the radio moved.
LEMMA LinkMoved ==
    ASSUME Link, Owner,
           UNCHANGED <<s_fd, s_readerClosed, partial, opened, s_closed, reader>>,
           initDue' \in Nat, initDue' <= initDue,
           main' \in {"opening", "reset", "sleep", "cond"},
           sState' \in {"UNAVAILABLE", "OFF", "ON"},
           \/ main' = main
           \/ main = "cond" /\ main' = "opening" /\ s_closed
    PROVE  Link' /\ Owner'
<1>1. main' = "reset" => main = "reset"
  OBVIOUS
<1>2. initDue' + (IF main' = "reset" THEN 1 ELSE 0) <= opened
  <2>1. initDue + (IF main = "reset" THEN 1 ELSE 0) <= opened /\ initDue \in Nat /\ opened \in Nat
    BY Bounds DEF Link
  <2>2. CASE main' = "reset"
    <3>1. main = "reset"
      BY <1>1, <2>2
    <3>2. initDue + 1 <= opened
      BY <2>1, <3>1
    <3>3. initDue' + 1 <= opened
      <4>1. initDue' \in Nat /\ initDue \in Nat /\ opened \in Nat /\ initDue' <= initDue
        BY <2>1
      <4> QED
        BY <3>2, <4>1, NoMore
    <3> QED
      BY <2>2, <3>3
  <2>3. CASE main' # "reset"
    <3>1. initDue <= opened /\ initDue' <= opened
      BY <2>1
    <3> QED
      BY <2>3, <3>1
  <2> QED
    BY <2>2, <2>3
<1>3. Link'
  BY <1>2 DEF Link
<1>4. Owner'
  BY <1>1 DEF Owner, Alive
<1> QED
  BY <1>3, <1>4

\* The same when the buffer of the line changed.
LEMMA LinkKept ==
    ASSUME Link, Owner,
           UNCHANGED <<s_fd, s_readerClosed, main, sState, opened, s_closed, initDue, reader>>,
           partial' \in BOOLEAN
    PROVE  Link' /\ Owner'
  BY DEF Link, Owner, Alive

LEMMA LinkStep ==
    ASSUME Link, Owner, Wire, Next
    PROVE  Link' /\ Owner'
<1> USE Bounds
<1>1. ASSUME UNCHANGED <<s_fd, s_readerClosed, partial, main, sState, opened, s_closed, initDue, reader>>
      PROVE  Link' /\ Owner'
  BY <1>1 DEF Link, Owner, Alive
<1>2. CASE ShakeAttempt
  BY <1>1, <1>2 DEF ShakeAttempt, fdVars, mainVars
<1>3. CASE SendCommand
  BY <1>1, <1>3 DEF SendCommand, fdVars, mainVars
<1>4. CASE Return
  BY <1>1, <1>4 DEF Return, fdVars, mainVars
<1>5. CASE TimeOut
  BY <1>1, <1>5 DEF TimeOut, fdVars, mainVars
<1>6. CASE StartInit
  <2>1. UNCHANGED <<s_fd, s_readerClosed, partial, opened, s_closed, reader>> /\ SetRadioState("OFF")
    BY <1>6 DEF StartInit, fdVars, RadioAtInit
  <2>2. initDue' \in Nat /\ initDue' <= initDue
    BY <1>6 DEF StartInit, Link
  <2> QED
    BY <2>1, <2>2, LinkMoved, RadioSet
<1>7. CASE ShakeEnds
  BY <1>1, <1>7 DEF ShakeEnds, fdVars, mainVars
<1>8. CASE InitEnds
  <2>1. UNCHANGED <<s_fd, s_readerClosed, partial, opened, s_closed, initDue, reader>>
    BY <1>8 DEF InitEnds, fdVars
  <2>2. SetRadioState("ON") \/ UNCHANGED <<main, sState>>
    BY <1>8 DEF InitEnds
  <2>3. initDue' \in Nat /\ initDue' <= initDue
    BY <2>1 DEF Link
  <2>4. CASE SetRadioState("ON")
    BY <2>1, <2>3, <2>4, LinkMoved, RadioSet
  <2> QED
    BY <1>1, <2>1, <2>2, <2>4
<1>9. CASE WaitAgain
  BY <1>1, <1>9 DEF WaitAgain, fdVars, mainVars
<1>10. CASE NullResponse
  BY <1>1, <1>10 DEF NullResponse, fdVars, mainVars
<1>11. ASSUME NEW o \in Open, ReadLine(o) PROVE Link' /\ Owner'
  <2>1. UNCHANGED <<s_fd, s_readerClosed, partial, opened, s_closed, initDue, reader>>
    BY <1>11 DEF ReadLine, ReadVars
  <2>2. SetRadioState("OFF") \/ UNCHANGED <<main, sState>>
    BY <1>11 DEF ReadLine, ProcessLine, Unsolicited, FinalLine, AddIntermediate
  <2>3. initDue' \in Nat /\ initDue' <= initDue
    BY <2>1 DEF Link
  <2>4. CASE SetRadioState("OFF")
    BY <2>1, <2>3, <2>4, LinkMoved, RadioSet
  <2> QED
    BY <1>1, <2>1, <2>2, <2>4
<1>12. ASSUME NEW o \in Open, ReadSms(o) PROVE Link' /\ Owner'
  BY <1>1, <1>12 DEF ReadSms, ReadVars
<1>13. ASSUME NEW o \in Open, ReadLeftover(o) PROVE Link' /\ Owner'
  BY <1>13, LinkKept DEF ReadLeftover, ReadVars
<1>14. ASSUME NEW o \in Open, OnReaderClosed(o) PROVE Link' /\ Owner'
  <2>1. reader[o] = "loop" /\ reader' = [reader EXCEPT ![o] = "tell"]
    BY <1>14 DEF OnReaderClosed, Reader
  <2>2. /\ s_fd' = 0 /\ s_readerClosed' = TRUE
        /\ UNCHANGED <<main, opened, s_closed, sState, initDue>>
    BY <1>14 DEF OnReaderClosed, mainVars
  <2>3. partial' \in BOOLEAN
    BY <1>14 DEF OnReaderClosed, Link
  <2>4. Link'
    BY <2>1, <2>2, <2>3 DEF Link
  <2>5. Alive(o) /\ o = opened
    BY <2>1 DEF Alive, Owner
  <2>6. ~(main \in {"opening", "reset"} \/ s_closed)
    BY <2>5 DEF Owner
  <2>7. \A p \in Open : reader'[p] = IF p = o THEN "tell" ELSE reader[p]
    BY <2>1 DEF Link
  <2>8. \A p \in Open : reader'[p] # "loop"
    BY <2>5, <2>7 DEF Owner, Alive
  <2> QED
    BY <2>2, <2>4, <2>5, <2>6, <2>7, <2>8 DEF Owner, Alive
<1>15. ASSUME NEW o \in Open, TellClosed(o) PROVE Link' /\ Owner'
  <2>1. reader[o] = "tell" /\ reader' = [reader EXCEPT ![o] = "state"] /\ s_closed' = TRUE
    BY <1>15 DEF TellClosed, Reader
  <2>2. UNCHANGED <<s_fd, s_readerClosed, partial, main, opened, sState, initDue>>
    BY <1>15 DEF TellClosed, fdVars
  <2>3. Link'
    BY <2>1, <2>2 DEF Link
  <2>4. Alive(o) /\ o = opened
    BY <2>1 DEF Alive, Owner
  <2>5. ~(main \in {"opening", "reset"} \/ s_closed)
    BY <2>4 DEF Owner
  <2>6. \A p \in Open : reader'[p] = IF p = o THEN "state" ELSE reader[p]
    BY <2>1 DEF Link
  <2>7. \A p \in Open : reader'[p] \notin {"loop", "tell"}
    BY <2>4, <2>6 DEF Owner, Alive
  <2> QED
    BY <2>2, <2>3, <2>5, <2>7 DEF Owner, Alive
<1>16. ASSUME NEW o \in Open, TellState(o) PROVE Link' /\ Owner'
  <2>1. reader[o] = "state" /\ reader' = [reader EXCEPT ![o] = "dead"]
        /\ SetRadioState("UNAVAILABLE")
    BY <1>16 DEF TellState, Reader
  <2>2. UNCHANGED <<s_fd, s_readerClosed, partial, opened, s_closed, initDue>>
    BY <1>16 DEF TellState, fdVars
  <2>3. /\ main' \in {"opening", "reset", "sleep", "cond"}
        /\ sState' \in {"UNAVAILABLE", "OFF", "ON"}
        /\ main' = main \/ (main = "cond" /\ main' = "opening" /\ s_closed)
    BY <2>1, RadioSet
  <2>4. main' = "reset" <=> main = "reset"
    BY <2>3
  <2>5. Link'
    BY <2>1, <2>2, <2>3, <2>4 DEF Link
  <2>6. \A p \in Open : reader'[p] = IF p = o THEN "dead" ELSE reader[p]
    BY <2>1 DEF Link
  <2> QED
    BY <2>2, <2>3, <2>4, <2>5, <2>6 DEF Owner, Alive
<1>17. CASE Reopen
  <2>1. /\ main = "opening" /\ main' = "reset" /\ opened < MaxOpen /\ opened' = opened + 1
        /\ s_closed' = FALSE /\ s_fd' = opened' /\ s_readerClosed' = FALSE
        /\ UNCHANGED <<partial, sState, initDue, reader>>
    BY <1>17 DEF Reopen
  <2>2. Link'
    <3>1. opened \in Nat /\ opened + 1 \in 0 .. MaxOpen /\ initDue \in Nat /\ initDue <= opened
      BY <2>1 DEF Link
    <3>2. opened' \in 0 .. MaxOpen /\ s_fd' \in 0 .. opened'
      BY <2>1, <3>1
    <3>3. initDue' + (IF main' = "reset" THEN 1 ELSE 0) <= opened'
      BY <2>1, <3>1
    <3> QED
      BY <2>1, <3>1, <3>2, <3>3 DEF Link
  <2>3. \A p \in Open : ~Alive(p)
    BY <2>1 DEF Owner
  <2> QED
    BY <2>1, <2>2, <2>3 DEF Owner, Alive
<1>18. CASE ResetPending
  <2>1. /\ main = "reset" /\ main' = "sleep" /\ initDue' = initDue + 1
        /\ reader' = [reader EXCEPT ![opened] = "loop"]
        /\ UNCHANGED <<s_fd, s_readerClosed, partial, opened, s_closed, sState>>
    BY <1>18 DEF ResetPending, fdVars
  <2>2. Link'
    <3>1. initDue' \in Nat /\ initDue' <= opened /\ opened \in Nat
      BY <2>1 DEF Link
    <3>2. initDue' + (IF main' = "reset" THEN 1 ELSE 0) <= opened'
      BY <2>1, <3>1
    <3> QED
      BY <2>1, <3>1, <3>2 DEF Link
  <2>3. s_fd = opened /\ ~s_closed /\ \A p \in Open : ~Alive(p)
    BY <2>1 DEF Owner
  <2>4. \A p \in Open : reader'[p] = IF p = opened THEN "loop" ELSE reader[p]
    BY <2>1 DEF Link
  <2> QED
    BY <2>1, <2>2, <2>3, <2>4 DEF Owner, Alive
<1>19. CASE SleepEnds
  <2>1. /\ main = "sleep" /\ main' = IF s_closed THEN "opening" ELSE "cond"
        /\ UNCHANGED <<s_fd, s_readerClosed, partial, opened, s_closed, sState, initDue, reader>>
    BY <1>19 DEF SleepEnds, fdVars, MayReopen
  <2>2. Link'
    BY <2>1 DEF Link
  <2> QED
    BY <2>1, <2>2 DEF Owner, Alive
<1>20. ASSUME NEW o \in Open, Answers(o) PROVE Link' /\ Owner'
  BY <1>1, <1>20 DEF Answers, fdVars, mainVars
<1>21. ASSUME NEW o \in Open, SendsUnasked(o) PROVE Link' /\ Owner'
  BY <1>1, <1>21 DEF SendsUnasked, fdVars, mainVars
<1>22. ASSUME NEW o \in Open, HangsUp(o) PROVE Link' /\ Owner'
  BY <1>1, <1>22 DEF HangsUp, fdVars, mainVars
<1> QED
  BY <1>2, <1>3, <1>4, <1>5, <1>6, <1>7, <1>8, <1>9, <1>10, <1>11, <1>12, <1>13, <1>14, <1>15,
     <1>16, <1>17, <1>18, <1>19, <1>20, <1>21, <1>22
  DEF Next, Returning, EventThread, MainThread, ReaderThread, Modem

LEMMA EmptyTyped == \A S : <<>> \in Seq(S)
  OBVIOUS

LEMMA PlainKind == Kinds \cup {"plain"} \subseteq Kind
  BY Bounds DEF Kind

\* What Issue() writes, and where.
LEMMA IssueWire ==
    ASSUME Link, Wire, Talk, NEW kind \in Kinds \cup {"plain"}, NEW timed \in BOOLEAN,
           Issue(kind, timed)
    PROVE  Wire'
<1> DEFINE q == [id |-> sent + 1, kind |-> kind, at |-> "new"]
<1>1. q \in AskedType
  <2>1. sent + 1 \in 1 .. MaxSent
    BY Bounds DEF Issue, Talk
  <2> QED
    BY <2>1, PlainKind DEF AskedType
<1>2. s_fd \in Open
  BY Bounds DEF Issue, Writable, Link, Open
<1>3. asked' \in {asked, [asked EXCEPT ![s_fd] = Append(@, q)]} /\ lines' = lines
  BY DEF Issue
<1> HIDE DEF q
<1>4. Append(asked[s_fd], q) \in Seq(AskedType)
  BY <1>1, <1>2, AppendProperties DEF Wire
<1>5. [asked EXCEPT ![s_fd] = Append(@, q)] \in [Open -> Seq(AskedType)]
  BY <1>4 DEF Wire
<1> QED
  BY <1>3, <1>5 DEF Wire

LEMMA TailTyped ==
    ASSUME NEW S, NEW s \in Seq(S), s # <<>>
    PROVE  Head(s) \in S /\ Tail(s) \in Seq(S) /\ s[1] = Head(s) /\ 1 \in DOMAIN s
  BY HeadTailProperties, EmptySeq, LenProperties

LEMMA LinesTyped ==
    ASSUME Wire, NEW o \in Open, lines[o] # <<>>
    PROVE  Head(lines[o]) \in LineType /\ [lines EXCEPT ![o] = Tail(@)] \in [Open -> Seq(LineType)]
<1>1. Head(lines[o]) \in LineType /\ Tail(lines[o]) \in Seq(LineType)
  BY TailTyped DEF Wire
<1> QED
  BY <1>1 DEF Wire

LEMMA EmitTyped ==
    ASSUME Wire, NEW o \in Open, NEW text \in Text, NEW own \in 0 .. MaxSent, Emit(o, text, own)
    PROVE  lines' \in [Open -> Seq(LineType)]
<1>1. Line(text, own) \in LineType
  BY DEF Line, LineType
<1>2. Append(lines[o], Line(text, own)) \in Seq(LineType)
  BY <1>1, AppendProperties DEF Wire
<1> QED
  BY <1>2 DEF Wire, Emit

\* The modem goes on with its first command.
LEMMA AskedOn ==
    ASSUME Wire, NEW o \in Open, asked[o] # <<>>,
           NEW at \in {"new", "pdu", "data", "more", "end"}
    PROVE  [asked EXCEPT ![o][1].at = at] \in [Open -> Seq(AskedType)]
<1>1. asked[o] \in Seq(AskedType)
  BY DEF Wire
<1>2. asked[o][1] \in AskedType /\ 1 \in 1 .. Len(asked[o])
  BY <1>1, TailTyped, LenProperties
<1>3. [asked[o][1] EXCEPT !.at = at] \in AskedType
  BY <1>2 DEF AskedType
<1>4. [asked[o] EXCEPT ![1] = [asked[o][1] EXCEPT !.at = at]] \in Seq(AskedType)
  BY <1>1, <1>2, <1>3, ExceptSeq
<1>5. [asked EXCEPT ![o] = [asked[o] EXCEPT ![1] = [asked[o][1] EXCEPT !.at = at]]]
        \in [Open -> Seq(AskedType)]
  BY <1>4 DEF Wire
<1> QED
  BY <1>5

LEMMA WireStep ==
    ASSUME Link, Wire, Talk, Next
    PROVE  Wire'
<1>1. ASSUME UNCHANGED <<lines, asked>> PROVE Wire'
  BY <1>1 DEF Wire
<1>2. CASE ShakeAttempt
  <2>1. "plain" \in Kinds \cup {"plain"} /\ TRUE \in BOOLEAN
    OBVIOUS
  <2>2. CASE Issue("plain", TRUE)
    BY <2>1, <2>2, IssueWire
  <2>3. CASE IssueFails(TRUE)
    BY <1>1, <2>3 DEF IssueFails, modemVars
  <2> QED
    BY <1>2, <2>2, <2>3 DEF ShakeAttempt
<1>3. CASE SendCommand
  <2>1. PICK kind \in Kinds : Issue(kind, FALSE) \/ IssueFails(FALSE)
    BY <1>3 DEF SendCommand
  <2>2. CASE Issue(kind, FALSE)
    BY <2>2, IssueWire
  <2>3. CASE IssueFails(FALSE)
    BY <1>1, <2>3 DEF IssueFails, modemVars
  <2> QED
    BY <2>1, <2>2, <2>3
<1>4. CASE Return
  BY <1>1, <1>4 DEF Return, modemVars
<1>5. CASE TimeOut
  BY <1>1, <1>5 DEF TimeOut, modemVars
<1>6. CASE StartInit
  BY <1>1, <1>6 DEF StartInit, modemVars
<1>7. CASE ShakeEnds
  BY <1>1, <1>7 DEF ShakeEnds, modemVars
<1>8. CASE InitEnds
  BY <1>1, <1>8 DEF InitEnds, modemVars
<1>9. CASE WaitAgain
  BY <1>1, <1>9 DEF WaitAgain, modemVars
<1>10. CASE NullResponse
  BY <1>1, <1>10 DEF NullResponse, modemVars
<1>11. ASSUME NEW o \in Open, ReadLine(o) PROVE Wire'
  <2>1. lines[o] # <<>> /\ lines' = [lines EXCEPT ![o] = Tail(@)]
    BY <1>11 DEF ReadLine, Consume
  <2>2. lines' \in [Open -> Seq(LineType)]
    BY <2>1, LinesTyped
  <2>3. asked' = asked \/ WriteCtrlZ(o)
    BY <1>11 DEF ReadLine, ProcessLine, Unsolicited, FinalLine, AddIntermediate
  <2>4. asked' = asked \/ (asked[o] # <<>> /\ asked' = [asked EXCEPT ![o][1].at = "data"])
    BY <2>3 DEF WriteCtrlZ
  <2>5. asked' \in [Open -> Seq(AskedType)]
    BY <2>4, AskedOn DEF Wire
  <2> QED
    BY <2>2, <2>5 DEF Wire
<1>12. ASSUME NEW o \in Open, ReadSms(o) PROVE Wire'
  BY <1>12, LinesTyped DEF ReadSms, Consume, Wire
<1>13. ASSUME NEW o \in Open, ReadLeftover(o) PROVE Wire'
  BY <1>13, LinesTyped DEF ReadLeftover, Consume, Wire
<1>14. ASSUME NEW o \in Open, OnReaderClosed(o) \/ TellClosed(o) \/ TellState(o) PROVE Wire'
  BY <1>1, <1>14 DEF OnReaderClosed, TellClosed, TellState, modemVars
<1>15. CASE MainThread
  BY <1>1, <1>15 DEF MainThread, Reopen, ResetPending, SleepEnds, modemVars
<1>16. ASSUME NEW o \in Open, Answers(o) PROVE Wire'
  <2> DEFINE q == Head(asked[o])
  <2>1. asked[o] # <<>> /\ asked[o] \in Seq(AskedType)
    BY <1>16 DEF Answers, Wire
  <2>2. q \in AskedType /\ Tail(asked[o]) \in Seq(AskedType)
    BY <2>1, TailTyped
  <2>3. q.id \in 0 .. MaxSent /\ q.kind \in Text /\ {"prompt", "ok", "error"} \subseteq Text
    BY <2>2, Bounds DEF AskedType, Text
  <2>4. \E text \in {"prompt", "ok", "error", q.kind} : Emit(o, text, q.id)
    BY <1>16 DEF Answers
  <2>5. lines' \in [Open -> Seq(LineType)]
    BY <2>3, <2>4, EmitTyped
  <2>6. \/ asked' = [asked EXCEPT ![o] = Tail(@)]
        \/ \E at \in {"pdu", "more", "end"} : asked' = [asked EXCEPT ![o][1].at = at]
    BY <1>16 DEF Answers
  <2>7. asked' \in [Open -> Seq(AskedType)]
    <3>1. CASE asked' = [asked EXCEPT ![o] = Tail(@)]
      BY <2>2, <3>1 DEF Wire
    <3>2. CASE \E at \in {"pdu", "more", "end"} : asked' = [asked EXCEPT ![o][1].at = at]
      <4>1. PICK at \in {"pdu", "more", "end"} : asked' = [asked EXCEPT ![o][1].at = at]
        BY <3>2
      <4>2. at \in {"new", "pdu", "data", "more", "end"}
        OBVIOUS
      <4> QED
        BY <2>1, <4>1, <4>2, AskedOn
    <3> QED
      BY <2>6, <3>1, <3>2
  <2> QED
    BY <2>5, <2>7 DEF Wire
<1>17. ASSUME NEW o \in Open, SendsUnasked(o) PROVE Wire'
  <2>1. PICK text \in Unasked : Emit(o, text, 0)
    BY <1>17 DEF SendsUnasked
  <2>2. text \in Text /\ 0 \in 0 .. MaxSent
    BY Bounds
  <2> QED
    BY <1>17, <2>1, <2>2, EmitTyped DEF SendsUnasked, Wire
<1>18. ASSUME NEW o \in Open, HangsUp(o) PROVE Wire'
  <2>1. asked' = [asked EXCEPT ![o] = <<>>] /\ lines' = lines
    BY <1>18 DEF HangsUp
  <2> QED
    BY <2>1, EmptyTyped DEF Wire
<1> QED
  BY <1>2, <1>3, <1>4, <1>5, <1>6, <1>7, <1>8, <1>9, <1>10, <1>11, <1>12, <1>13, <1>14, <1>15,
     <1>16, <1>17, <1>18
  DEF Next, Returning, EventThread, ReaderThread, Modem

\* at_send_command_full_nolock() has written the line.
LEMMA IssueTalk ==
    ASSUME Talk, NEW kind \in Kinds \cup {"plain"}, NEW timed \in BOOLEAN, Issue(kind, timed),
           inInit' = inInit, tries' \in 0 .. Retry
    PROVE  Talk' /\ Held'
<1> USE Bounds
<1>1. sent' = sent + 1 /\ sent' \in 1 .. MaxSent
  BY DEF Issue, Talk
<1>2. cmd' = [id |-> sent', kind |-> kind, timed |-> timed]
  BY <1>1 DEF Issue
<1>3. cmd' \in [id : 0 .. MaxSent, kind : Kinds \cup {"plain"}, timed : BOOLEAN] /\ cmd'.id # 0
  BY <1>1, <1>2
<1>4. cmd' # NoCommand
  BY <1>3 DEF NoCommand
<1>5. /\ sp_response' = NewResponse /\ signalled' = FALSE /\ heard' = <<>>
      /\ ev' = "wait" /\ last' = NoResult
  BY DEF Issue
<1>6. s_smsPDU' \in BOOLEAN
  BY DEF Issue
<1>7. /\ sp_response' \in [pending : BOOLEAN, final : LineType, infos : Seq(LineType)]
      /\ sp_response'.final = NoLine /\ sp_response'.infos = <<>>
  BY <1>5, NoLineTyped, EmptyTyped DEF NewResponse, NoResponse
<1>8. last'.err = "none"
  BY <1>5 DEF NoResult, Result
<1>9. Talk'
  <2>1. sent' \in 0 .. MaxSent /\ heard' \in Seq(LineType)
    BY <1>1, <1>5, EmptyTyped
  <2>2. last'.err \in {"none", "invalid", "closed", "generic", "timeout"}
    BY <1>8
  <2>3. inInit' \in BOOLEAN /\ signalled' \in BOOLEAN
    BY <1>5 DEF Talk
  <2>4. ev' \in {"idle", "shake", "wait", "pause", "work"}
    BY <1>5
  <2> QED
    BY <1>3, <1>4, <1>5, <1>6, <1>7, <2>1, <2>2, <2>3, <2>4 DEF Talk
<1>10. Held'
  BY <1>5, <1>7, NothingHeard DEF Held
<1> QED
  BY <1>9, <1>10

\* A call has ended: it returned, failed or came to its limit.
LEMMA EndTalk ==
    ASSUME Talk, Clear, signalled' \in BOOLEAN, cmd' = NoCommand,
           ev' \in {"idle", "shake", "pause", "work"}, inInit' = inInit, sent' = sent,
           tries' \in 0 .. Retry,
           last'.err \in {"none", "invalid", "closed", "generic", "timeout"}
    PROVE  Talk' /\ Held'
<1>1. sp_response' = NoResponse /\ s_smsPDU' = FALSE /\ heard' = <<>>
  BY DEF Clear
<1>2. /\ sp_response' \in [pending : BOOLEAN, final : LineType, infos : Seq(LineType)]
      /\ ~sp_response'.pending
  BY <1>1, NoLineTyped, EmptyTyped DEF NoResponse
<1>3. cmd' \in [id : 0 .. MaxSent, kind : Kinds \cup {"plain"}, timed : BOOLEAN]
  BY Bounds DEF NoCommand
<1>4. heard' \in Seq(LineType)
  BY <1>1, EmptyTyped
<1>5. Talk'
  BY <1>1, <1>2, <1>3, <1>4 DEF Talk
<1> QED
  BY <1>2, <1>5 DEF Held

LEMMA FailTalk ==
    ASSUME Talk, ev # "wait", NEW timed \in BOOLEAN, IssueFails(timed),
           inInit' = inInit, tries' \in 0 .. Retry
    PROVE  Talk' /\ Held'
<1>1. cmd' = NoCommand /\ signalled' = signalled /\ sent' = sent /\ Clear
  BY DEF IssueFails, Talk
<1>2. last'.err \in {"closed", "generic"}
  BY DEF IssueFails, Result
<1>3. ev' \in {"idle", "shake", "pause", "work"}
  BY DEF IssueFails, After
<1>4. signalled' \in BOOLEAN
  BY <1>1 DEF Talk
<1> QED
  BY <1>1, <1>2, <1>3, <1>4, EndTalk

\* The state of the event thread changed, between two commands.
LEMMA BetweenTalk ==
    ASSUME Talk, Held, UNCHANGED <<sp_response, s_smsPDU, signalled, heard, cmd, sent>>,
           ev # "wait", ev' \in {"idle", "shake", "pause", "work"}, inInit' \in BOOLEAN,
           tries' \in 0 .. Retry, last' = NoResult
    PROVE  Talk' /\ Held'
  BY DEF Talk, Held, NoResult, Result

\* Another thread runs; the response may have been taken away.
LEMMA OtherTalk ==
    ASSUME Talk, Held, UNCHANGED <<heard, ev, cmd, inInit, tries, sent>>,
           sp_response' = sp_response \/ sp_response' = NoResponse,
           s_smsPDU' \in BOOLEAN, signalled' \in BOOLEAN, last' = NoResult
    PROVE  Talk' /\ Held'
<1>1. /\ sp_response' \in [pending : BOOLEAN, final : LineType, infos : Seq(LineType)]
      /\ sp_response' = sp_response \/ ~sp_response'.pending
  <2>1. /\ NoResponse \in [pending : BOOLEAN, final : LineType, infos : Seq(LineType)]
        /\ ~NoResponse.pending
    BY NoLineTyped, EmptyTyped DEF NoResponse
  <2>2. sp_response \in [pending : BOOLEAN, final : LineType, infos : Seq(LineType)]
    BY DEF Talk
  <2> QED
    BY <2>1, <2>2, Zenon
<1>2. last'.err \in {"none", "invalid", "closed", "generic", "timeout"}
  BY DEF NoResult, Result
<1>3. Talk'
  BY <1>1, <1>2 DEF Talk
<1>4. Held'
  BY <1>1 DEF Held
<1> QED
  BY <1>3, <1>4

\* processLine(): what the response has of the line.
Processed(line) ==
    \/ ~sp_response.pending /\ sp_response' = sp_response
    \/ sp_response.pending /\ IsFinal(line) /\ sp_response' = [sp_response EXCEPT !.final = line]
    \/ /\ sp_response.pending /\ ~IsFinal(line) /\ TakesLine(line)
       /\ sp_response' = [sp_response EXCEPT !.infos = <<line>> \o @]
    \/ /\ sp_response.pending /\ ~IsFinal(line) /\ ~TakesLine(line)
       /\ sp_response' = sp_response

LEMMA FinalNotTaken ==
    ASSUME NEW kind \in Kind, NEW infos, NEW line, IsFinal(line) \/ line.text = "prompt"
    PROVE  ~Takes(kind, infos, line)
  BY DEF Kind, Takes, IsFinal

LEMMA LineProcessed ==
    ASSUME Talk, Wire, NEW o \in Open, NEW line \in LineType, ProcessLine(o, line)
    PROVE  Processed(line) /\ s_smsPDU' \in BOOLEAN /\ signalled' \in BOOLEAN
<1>1. s_smsPDU \in BOOLEAN /\ signalled \in BOOLEAN /\ cmd.kind \in Kind
  BY PlainKind DEF Talk
<1>2. CASE Unsolicited(line)
  <2>1. UNCHANGED <<sp_response, s_smsPDU, signalled>>
    BY <1>2 DEF Unsolicited
  <2>2. ~sp_response.pending \/ (sp_response.pending /\ ~IsFinal(line) /\ ~TakesLine(line))
        \/ (sp_response.pending /\ IsFinal(line) /\ FinalLine(line))
        \/ (sp_response.pending /\ ~IsFinal(line) /\ TakesLine(line) /\ AddIntermediate(line))
        \/ (sp_response.pending /\ line.text = "prompt")
    BY DEF ProcessLine
  <2> QED
    BY <1>1, <2>1, <2>2, FinalNotTaken DEF Processed, FinalLine, AddIntermediate, TakesLine, IsFinal
<1>3. CASE sp_response.pending /\ IsFinal(line) /\ FinalLine(line)
  BY <1>1, <1>3 DEF Processed, FinalLine, Signal
<1>4. CASE /\ sp_response.pending /\ line.text = "prompt"
           /\ WriteCtrlZ(o) /\ UNCHANGED <<sp_response, signalled>>
  BY <1>1, <1>4, FinalNotTaken DEF Processed, WriteCtrlZ, TakesLine, IsFinal
<1>5. CASE sp_response.pending /\ ~IsFinal(line) /\ TakesLine(line) /\ AddIntermediate(line)
  BY <1>1, <1>5 DEF Processed, AddIntermediate
<1> QED
  BY <1>2, <1>3, <1>4, <1>5 DEF ProcessLine

LEMMA ReadTalk ==
    ASSUME Talk, Held, UNCHANGED <<ev, cmd, inInit, tries, sent>>, last' = NoResult,
           s_smsPDU' \in BOOLEAN, signalled' \in BOOLEAN,
           NEW line \in LineType, Heard(line), Processed(line)
    PROVE  Talk' /\ Held'
<1>1. /\ sp_response.infos \in Seq(LineType) /\ heard \in Seq(LineType)
      /\ sp_response \in [pending : BOOLEAN, final : LineType, infos : Seq(LineType)]
      /\ cmd.kind \in Kind
  BY PlainKind DEF Talk
<1>2. last'.err \in {"none", "invalid", "closed", "generic", "timeout"}
  BY DEF NoResult, Result
<1>3. CASE ~sp_response.pending
  <2>1. sp_response' = sp_response /\ heard' = heard
    BY <1>3 DEF Processed, Heard
  <2> QED
    BY <2>1, <1>2 DEF Talk, Held
<1>4. CASE sp_response.pending
  <2>1. heard' = Append(heard, line)
    BY <1>4 DEF Heard
  <2>2. heard' \in Seq(LineType)
    BY <1>1, <2>1, AppendProperties
  <2>3. /\ InfosOf(cmd.kind, heard, sp_response.infos)
        /\ FinalOf(heard, sp_response.final)
    BY <1>4 DEF Held
  <2>4. CASE IsFinal(line)
    <3>1. sp_response' = [sp_response EXCEPT !.final = line]
      BY <1>4, <2>4 DEF Processed
    <3>2. /\ sp_response' \in [pending : BOOLEAN, final : LineType, infos : Seq(LineType)]
          /\ sp_response'.final = line /\ sp_response'.infos = sp_response.infos
      BY <1>1, <3>1
    <3>3. ~Takes(cmd.kind, sp_response.infos, line)
      BY <1>1, <2>4, FinalNotTaken
    <3>4. InfosOf(cmd.kind, Append(heard, line), sp_response.infos)
      BY <1>1, <2>3, <3>3, LineLeft
    <3>5. FinalOf(Append(heard, line), line)
      BY <1>1, <2>4, FinalHeard
    <3>6. Talk'
      BY <1>2, <1>4, <2>2, <3>2 DEF Talk
    <3>7. Held'
      BY <2>1, <3>2, <3>4, <3>5 DEF Held
    <3> QED
      BY <3>6, <3>7
  <2>5. CASE ~IsFinal(line) /\ TakesLine(line)
    <3>1. sp_response' = [sp_response EXCEPT !.infos = <<line>> \o @]
      BY <1>4, <2>5 DEF Processed
    <3>2. <<line>> \o sp_response.infos \in Seq(LineType)
      BY <1>1, Prepended
    <3>3. /\ sp_response' \in [pending : BOOLEAN, final : LineType, infos : Seq(LineType)]
          /\ sp_response'.final = sp_response.final
          /\ sp_response'.infos = <<line>> \o sp_response.infos
      BY <1>1, <3>1, <3>2
    <3>4. InfosOf(cmd.kind, Append(heard, line), <<line>> \o sp_response.infos)
      BY <1>1, <2>3, <2>5, LineTaken DEF TakesLine
    <3>5. FinalOf(Append(heard, line), sp_response.final)
      BY <1>1, <2>3, <2>5, OtherHeard
    <3>6. Talk'
      BY <1>2, <1>4, <2>2, <3>3 DEF Talk
    <3>7. Held'
      BY <2>1, <3>3, <3>4, <3>5 DEF Held
    <3> QED
      BY <3>6, <3>7
  <2>6. CASE ~IsFinal(line) /\ ~TakesLine(line)
    <3>1. sp_response' = sp_response
      BY <1>4, <2>6 DEF Processed
    <3>2. InfosOf(cmd.kind, Append(heard, line), sp_response.infos)
      BY <1>1, <2>3, <2>6, LineLeft DEF TakesLine
    <3>3. FinalOf(Append(heard, line), sp_response.final)
      BY <1>1, <2>3, <2>6, OtherHeard
    <3>4. Talk'
      BY <1>2, <2>2, <3>1 DEF Talk
    <3>5. Held'
      BY <2>1, <3>1, <3>2, <3>3 DEF Held
    <3> QED
      BY <3>4, <3>5
  <2> QED
    BY <2>4, <2>5, <2>6
<1> QED
  BY <1>3, <1>4

LEMMA TalkStep ==
    ASSUME Link, Wire, Talk, Held, Next
    PROVE  Talk' /\ Held'
<1> USE Bounds
<1>1. s_smsPDU \in BOOLEAN /\ signalled \in BOOLEAN /\ inInit \in BOOLEAN /\ tries \in 0 .. Retry
  BY DEF Talk
<1>2. CASE ShakeAttempt
  <2>1. tries' \in 0 .. Retry /\ inInit' = inInit /\ ev # "wait"
    BY <1>2 DEF ShakeAttempt, Talk
  <2>2. "plain" \in Kinds \cup {"plain"} /\ TRUE \in BOOLEAN
    OBVIOUS
  <2>3. Issue("plain", TRUE) \/ IssueFails(TRUE)
    BY <1>2 DEF ShakeAttempt
  <2> QED
    BY <2>1, <2>2, <2>3, IssueTalk, FailTalk
<1>3. CASE SendCommand
  <2>1. tries' \in 0 .. Retry /\ inInit' = inInit /\ ev # "wait"
    BY <1>1, <1>3 DEF SendCommand
  <2>2. PICK kind \in Kinds : Issue(kind, FALSE) \/ IssueFails(FALSE)
    BY <1>3 DEF SendCommand
  <2>3. kind \in Kinds \cup {"plain"} /\ FALSE \in BOOLEAN
    OBVIOUS
  <2> QED
    BY <2>1, <2>2, <2>3, IssueTalk, FailTalk
<1>4. CASE Return
  <2>1. /\ Clear /\ signalled' = FALSE /\ cmd' = NoCommand
        /\ inInit' = inInit /\ sent' = sent /\ tries' = tries
    BY <1>4 DEF Return
  <2>2. ev' \in {"idle", "shake", "pause", "work"}
    BY <1>4 DEF Return, After
  <2>3. last'.err \in {"none", "invalid", "closed", "generic", "timeout"}
    BY <1>4 DEF Return, Returned, Result, Verdict
  <2> QED
    BY <1>1, <2>1, <2>2, <2>3, EndTalk
<1>5. CASE TimeOut
  <2>1. /\ Clear /\ signalled' = FALSE /\ cmd' = NoCommand /\ ev' = "shake"
        /\ inInit' = inInit /\ sent' = sent /\ tries' = tries
    BY <1>5 DEF TimeOut
  <2>2. last'.err = "timeout"
    BY <1>5 DEF TimeOut, Result
  <2> QED
    BY <1>1, <2>1, <2>2, EndTalk
<1>6. CASE last' = NoResult /\ StartInit
  BY <1>1, <1>6, BetweenTalk DEF StartInit, respVars
<1>7. CASE last' = NoResult /\ ShakeEnds
  <2>1. ev # "wait" /\ ev' = "work" /\ tries' \in 0 .. Retry
    BY <1>7 DEF ShakeEnds
  <2> QED
    BY <1>1, <1>7, <2>1, BetweenTalk DEF ShakeEnds, respVars
<1>8. CASE last' = NoResult /\ InitEnds
  BY <1>1, <1>8, BetweenTalk DEF InitEnds, respVars
<1>9. CASE last' = NoResult /\ (WaitAgain \/ NullResponse \/ Reopen \/ ResetPending \/ SleepEnds)
  BY <1>1, <1>9, OtherTalk
  DEF WaitAgain, NullResponse, Reopen, ResetPending, SleepEnds, respVars, evVars
<1>10. ASSUME NEW o \in Open, last' = NoResult, ReadLine(o) PROVE Talk' /\ Held'
  <2> DEFINE line == Head(lines[o])
  <2>1. lines[o] # <<>> /\ Heard(line) /\ ProcessLine(o, line)
    BY <1>10 DEF ReadLine
  <2>2. line \in LineType
    BY <2>1, LinesTyped
  <2>3. Processed(line) /\ s_smsPDU' \in BOOLEAN /\ signalled' \in BOOLEAN
    BY <2>1, <2>2, LineProcessed
  <2>4. UNCHANGED <<ev, cmd, inInit, tries, sent>>
    BY <1>10 DEF ReadLine, ReadVars, evVars
  <2> QED
    BY <1>10, <2>1, <2>2, <2>3, <2>4, ReadTalk
<1>11. ASSUME NEW o \in Open, last' = NoResult, ReadLeftover(o) PROVE Talk' /\ Held'
  <2>1. /\ Heard(NoLine) /\ UNCHANGED <<sp_response, s_smsPDU, signalled>>
        /\ UNCHANGED <<ev, cmd, inInit, tries, sent>>
    BY <1>11 DEF ReadLeftover, ReadVars, evVars
  <2>2. cmd.kind \in Kind
    BY PlainKind DEF Talk
  <2>3. ~TakesLine(NoLine)
    BY <2>2 DEF TakesLine, Takes, NoLine, Line, Kind
  <2>4. Processed(NoLine)
    BY <2>1, <2>3, NoLineTyped DEF Processed
  <2> QED
    BY <1>1, <1>11, <2>1, <2>4, NoLineTyped, ReadTalk
<1>12. ASSUME NEW o \in Open, last' = NoResult,
              \/ ReadSms(o) \/ OnReaderClosed(o) \/ TellClosed(o) \/ TellState(o)
              \/ Answers(o) \/ SendsUnasked(o) \/ HangsUp(o)
       PROVE  Talk' /\ Held'
  <2>1. UNCHANGED <<heard, ev, cmd, inInit, tries, sent, sp_response, s_smsPDU>>
    BY <1>12 DEF ReadSms, OnReaderClosed, TellClosed, TellState, Answers, SendsUnasked, HangsUp,
                 ReadVars, respVars, evVars, KeptAtClose
  <2>2. signalled' \in BOOLEAN
    BY <1>1, <1>12 DEF ReadSms, OnReaderClosed, TellClosed, TellState, Answers, SendsUnasked,
                       HangsUp, respVars, Signal
  <2> QED
    BY <1>1, <1>12, <2>1, <2>2, OtherTalk
<1> QED
  BY <1>2, <1>3, <1>4, <1>5, <1>6, <1>7, <1>8, <1>9, <1>10, <1>11, <1>12
  DEF Next, Returning, EventThread, MainThread, ReaderThread, Modem

LEMMA CausesKept ==
    ASSUME Causes, UNCHANGED <<ev, crashed>>, sp_response'.pending = sp_response.pending,
           cause' \subseteq Cause, cause \subseteq cause'
    PROVE  Causes'
  BY DEF Causes

LEMMA PendingKept ==
    ASSUME Talk, Wire, NEW o \in Open, ReadLine(o)
    PROVE  sp_response'.pending = sp_response.pending
<1>1. lines[o] # <<>> /\ ProcessLine(o, Head(lines[o]))
  BY DEF ReadLine
<1>2. Processed(Head(lines[o]))
  BY <1>1, LinesTyped, LineProcessed
<1>3. sp_response \in [pending : BOOLEAN, final : LineType, infos : Seq(LineType)]
  BY DEF Talk
<1> QED
  BY <1>2, <1>3 DEF Processed

LEMMA CausesStep ==
    ASSUME Talk, Wire, Causes, Next
    PROVE  Causes'
<1> USE DEF Cause, Blame
<1>1. ~crashed /\ cause \subseteq Cause
  BY DEF Next, Causes
<1>2. ASSUME NEW kind, NEW timed, Issue(kind, timed), crashed' = crashed PROVE Causes'
  BY <1>1, <1>2 DEF Issue, NewResponse, NoResponse, Causes
<1>3. ASSUME ev' # "wait", crashed' = crashed, cause' \subseteq Cause PROVE Causes'
  BY <1>1, <1>3 DEF Causes
<1>4. CASE ShakeAttempt
  <2>1. ASSUME IssueFails(TRUE) PROVE ev' # "wait" /\ cause' = cause
    BY <2>1 DEF IssueFails, After
  <2> QED
    BY <1>1, <1>2, <1>3, <1>4, <2>1 DEF ShakeAttempt
<1>5. CASE SendCommand
  <2>1. ASSUME IssueFails(FALSE) PROVE ev' # "wait" /\ cause' = cause
    BY <2>1 DEF IssueFails, After
  <2> QED
    BY <1>1, <1>2, <1>3, <1>5, <2>1 DEF SendCommand
<1>6. CASE Return \/ TimeOut
  BY <1>1, <1>3, <1>6 DEF Return, TimeOut, After
<1>7. CASE StartInit \/ ShakeEnds \/ InitEnds
  BY <1>1, <1>3, <1>7 DEF StartInit, ShakeEnds, InitEnds
<1>8. CASE WaitAgain \/ SleepEnds
  BY <1>1, <1>8, CausesKept DEF WaitAgain, SleepEnds, respVars, evVars
<1>9. CASE NullResponse
  BY <1>1, <1>9 DEF NullResponse, respVars, evVars, Causes
<1>10. CASE Reopen
  <2>1. UNCHANGED <<sp_response, ev, crashed>>
        /\ cause' = (IF ev = "wait" THEN cause ELSE {})
                    \cup Blame("overtaken", \E o \in Open : reader[o] = "state")
    BY <1>10 DEF Reopen, respVars, evVars
  <2> QED
    BY <1>1, <2>1 DEF Causes
<1>11. CASE ResetPending
  <2>1. UNCHANGED <<ev, crashed>> /\ cause' = cause \cup Blame("reopened", ev = "wait")
    BY <1>11 DEF ResetPending, evVars
  <2> QED
    BY <1>1, <2>1 DEF Causes
<1>12. ASSUME NEW o \in Open, ReadLine(o) PROVE Causes'
  <2>1. UNCHANGED <<ev, crashed>>
    BY <1>12 DEF ReadLine, ReadVars, evVars
  <2>2. cause' \subseteq Cause /\ cause \subseteq cause'
    BY <1>1, <1>12 DEF ReadLine, ProcessLine, Unsolicited, FinalLine, AddIntermediate
  <2> QED
    BY <1>12, <2>1, <2>2, PendingKept, CausesKept
<1>13. ASSUME NEW o \in Open, ReadLeftover(o) PROVE Causes'
  BY <1>1, <1>13, CausesKept DEF ReadLeftover, ReadVars, evVars
<1>14. ASSUME NEW o \in Open,
              \/ ReadSms(o) \/ OnReaderClosed(o) \/ TellClosed(o) \/ TellState(o)
              \/ Answers(o) \/ SendsUnasked(o) \/ HangsUp(o)
       PROVE  Causes'
  BY <1>1, <1>14, CausesKept
  DEF ReadSms, OnReaderClosed, TellClosed, TellState, Answers, SendsUnasked, HangsUp,
      ReadVars, respVars, evVars, KeptAtClose
<1> QED
  BY <1>4, <1>5, <1>6, <1>7, <1>8, <1>9, <1>10, <1>11, <1>12, <1>13, <1>14
  DEF Next, Returning, EventThread, MainThread, ReaderThread, Modem

-----------------------------------------------------------------------------
(* The theorems.                                                           *)

LEMMA InitInv == Init => IInv
<1> SUFFICES ASSUME Init PROVE IInv
  OBVIOUS
<1> USE Bounds DEF Init
<1>1. Link
  <2>1. 0 \in 0 .. MaxOpen /\ 0 \in 0 .. 0 /\ 0 + 0 <= 0
    OBVIOUS
  <2>2. reader \in [Open -> {"none", "loop", "tell", "state", "dead"}]
    OBVIOUS
  <2>3. s_readerClosed \in BOOLEAN /\ partial \in BOOLEAN /\ s_closed \in BOOLEAN
    BY Zenon
  <2>4. initDue + (IF main = "reset" THEN 1 ELSE 0) <= opened
    BY <2>1
  <2> QED
    BY <2>1, <2>2, <2>3, <2>4 DEF Link
<1>2. Owner
  BY DEF Owner, Alive
<1>3. Wire
  BY EmptyTyped DEF Wire
<1>4. NoResponse \in [pending : BOOLEAN, final : LineType, infos : Seq(LineType)]
  BY NoLineTyped, EmptyTyped DEF NoResponse
<1>5. NoCommand \in [id : 0 .. MaxSent, kind : Kinds \cup {"plain"}, timed : BOOLEAN]
  BY DEF NoCommand
<1>6. Talk
  <2>1. sent \in 0 .. MaxSent /\ tries \in 0 .. Retry
    OBVIOUS
  <2>2. s_smsPDU \in BOOLEAN /\ signalled \in BOOLEAN /\ inInit \in BOOLEAN
    BY Zenon
  <2>3. last.err = "none" /\ ev # "wait" /\ cmd = NoCommand /\ ~sp_response.pending
    BY DEF NoResult, Result, NoResponse
  <2> QED
    BY <1>4, <1>5, <2>1, <2>2, <2>3, EmptyTyped DEF Talk
<1>7. Held /\ Causes
  BY DEF Held, Causes, NoResponse
<1> QED
  BY <1>1, <1>2, <1>3, <1>6, <1>7 DEF IInv

LEMMA NextInv == IInv /\ [Next]_vars => IInv'
<1>1. ASSUME IInv, Next PROVE IInv'
  BY <1>1, LinkStep, WireStep, TalkStep, CausesStep DEF IInv
<1>2. ASSUME IInv, UNCHANGED vars PROVE IInv'
  <2>1. /\ UNCHANGED <<s_fd, s_readerClosed, partial, main, opened, s_closed, sState, initDue, reader>>
        /\ UNCHANGED <<lines, asked>>
        /\ UNCHANGED <<sp_response, s_smsPDU, signalled, heard, ev, cmd, inInit, tries, sent, last>>
        /\ UNCHANGED <<cause, crashed>>
    BY <1>2 DEF vars, fdVars, respVars, evVars, mainVars, modemVars
  <2>2. Link' /\ Owner'
    BY <1>2, <2>1 DEF IInv, Link, Owner, Alive
  <2>3. Wire' /\ Talk'
    BY <1>2, <2>1 DEF IInv, Wire, Talk
  <2>4. Held' /\ Causes'
    BY <1>2, <2>1 DEF IInv, Held, Causes
  <2> QED
    BY <2>2, <2>3, <2>4 DEF IInv
<1> QED
  BY <1>1, <1>2

LEMMA InvTyped == IInv => TypeOK
<1> SUFFICES ASSUME IInv PROVE TypeOK
  OBVIOUS
<1> USE Bounds DEF IInv
<1>1. {s_readerClosed, s_smsPDU, signalled, partial, inInit, s_closed, crashed} \subseteq BOOLEAN
  BY Zenon DEF Link, Talk, Causes
<1>2. /\ s_fd \in 0 .. opened /\ opened \in 0 .. MaxOpen /\ initDue \in 0 .. MaxOpen
      /\ main \in {"opening", "reset", "sleep", "cond"} /\ sState \in {"UNAVAILABLE", "OFF", "ON"}
  BY DEF Link
<1>3. /\ sp_response.pending \in BOOLEAN /\ sp_response.final \in LineType
      /\ sp_response.infos \in Seq(LineType)
  BY DEF Talk
<1>4. \A o \in Open : reader[o] = "loop" => o = opened /\ s_fd = o
  BY DEF Owner, Alive
<1> QED
  BY <1>1, <1>2, <1>3, <1>4 DEF TypeOK, Talk, Causes

(* Type correctness; no reader but the newest reads, and the descriptor it *)
(* reads is of its own opening (readerLoop, at_open).                      *)
THEOREM ChannelTypeCorrect == Spec => []TypeOK
<1>1. Init => IInv
  BY InitInv
<1>2. IInv /\ [Next]_vars => IInv'
  BY NextInv
<1>3. IInv => TypeOK
  BY InvTyped
<1> QED
  BY <1>1, <1>2, <1>3, PTL DEF Spec

(* A NULL response is dereferenced only when at_open() ran while a command *)
(* waited (at_open, at_send_command_full_nolock).                          *)
THEOREM ChannelCrashExplained == Spec => []CrashExplained
<1>1. Init => IInv
  BY InitInv
<1>2. IInv /\ [Next]_vars => IInv'
  BY NextInv
<1>3. IInv => CrashExplained
  BY DEF IInv, Causes, CrashExplained
<1> QED
  BY <1>1, <1>2, <1>3, PTL DEF Spec

\* The lines of a response, turned round, are those AtCommand tells of.
LEMMA ReversedFits ==
    ASSUME Talk, InfosOf(cmd.kind, heard, sp_response.infos)
    PROVE  Promise!Fitting(Reversed(sp_response.infos))
<1> DEFINE n == Len(sp_response.infos)
           out == Reversed(sp_response.infos)
<1>1. PICK at : InfosAt(cmd.kind, heard, sp_response.infos, at)
  BY DEF InfosOf
<1>2. sp_response.infos \in Seq(LineType) /\ n \in Nat /\ DOMAIN sp_response.infos = 1 .. n
  <2>1. sp_response.infos \in Seq(LineType)
    BY DEF Talk
  <2> QED
    BY <2>1, LenProperties
<1>3. out \in Seq(LineType) /\ DOMAIN out = 1 .. n /\ Len(out) = n
      /\ \A m \in 1 .. n : out[m] = sp_response.infos[n + 1 - m]
  <2>1. out = [m \in 1 .. n |-> sp_response.infos[n + 1 - m]]
    BY <1>2 DEF Reversed
  <2>2. \A m \in 1 .. n : n + 1 - m \in 1 .. n
    BY <1>2
  <2>3. \A m \in 1 .. n : sp_response.infos[n + 1 - m] \in LineType
    BY <1>2, <2>2, ElementOfSeq
  <2> HIDE DEF out
  <2>4. out \in Seq(LineType)
    BY <1>2, <2>1, <2>3, IsASeq
  <2>5. Len(out) = n
    BY <1>2, <2>1, <2>4, LenProperties
  <2> QED
    BY <2>1, <2>4, <2>5
<1> DEFINE where == [m \in 1 .. n |-> at[n + 1 - m]]
<1>4. \A m \in 1 .. n : n + 1 - m \in 1 .. n /\ n + 1 - (n + 1 - m) = m
  BY <1>2
<1>5. at \in [1 .. n -> DOMAIN heard]
  BY <1>1, <1>2 DEF InfosAt
<1>6. where \in [DOMAIN out -> DOMAIN heard]
  BY <1>3, <1>4, <1>5
<1>7. \A m \in 1 .. n : where[m] = at[n + 1 - m]
  OBVIOUS
<1> HIDE DEF where, out, n
<1>8. \A m \in 1 .. n : out[m] = heard[where[m]] /\ Fit(cmd.kind, heard[where[m]])
  <2> TAKE m \in 1 .. n
  <2>1. n + 1 - m \in DOMAIN sp_response.infos
    BY <1>2, <1>4
  <2>2. /\ sp_response.infos[n + 1 - m] = heard[at[n + 1 - m]]
        /\ Fit(cmd.kind, heard[at[n + 1 - m]])
    BY <1>1, <2>1 DEF InfosAt
  <2> QED
    BY <1>3, <1>7, <2>2
<1>9. \A m, k \in 1 .. n : m < k => where[m] < where[k]
  <2> SUFFICES ASSUME NEW m \in 1 .. n, NEW k \in 1 .. n, m < k PROVE where[m] < where[k]
    OBVIOUS
  <2>1. n + 1 - k < n + 1 - m
    BY <1>2
  <2>2. at[n + 1 - k] > at[n + 1 - m]
    BY <1>1, <1>2, <1>4, <2>1 DEF InfosAt
  <2>3. at[n + 1 - k] \in Nat /\ at[n + 1 - m] \in Nat
    <3>1. heard \in Seq(LineType)
      BY DEF Talk
    <3>2. DOMAIN heard \subseteq Nat
      BY <3>1, LenProperties
    <3> QED
      BY <1>4, <1>5, <3>2
  <2> QED
    BY <1>7, <2>2, <2>3
<1>10. \A i \in DOMAIN heard : Fit(cmd.kind, heard[i]) =>
          \E m \in 1 .. n : where[m] = i \/ (~TakesAll(cmd.kind) /\ where[m] < i)
  <2> SUFFICES ASSUME NEW i \in DOMAIN heard, Fit(cmd.kind, heard[i])
               PROVE  \E m \in 1 .. n : where[m] = i \/ (~TakesAll(cmd.kind) /\ where[m] < i)
    OBVIOUS
  <2>1. PICK k \in 1 .. n : at[k] = i \/ (~TakesAll(cmd.kind) /\ at[k] < i)
    BY <1>1, <1>2 DEF InfosAt
  <2>2. n + 1 - k \in 1 .. n /\ where[n + 1 - k] = at[k]
    BY <1>4, <1>7
  <2> QED
    BY <2>1, <2>2
<1>11. TakesAll(cmd.kind) \/ Len(out) < 2
  BY <1>1, <1>2, <1>3 DEF InfosAt, n
<1>12. \A i \in DOMAIN heard : Promise!Fits(i) <=> Fit(cmd.kind, heard[i])
  BY DEF Promise!Fits, Promise!Takes, Promise!TypeOf, Fit, Takes, TypeOf
<1>13. Promise!TakesAll <=> TakesAll(cmd.kind)
  BY DEF Promise!TakesAll, Promise!TypeOf, TakesAll, TypeOf
<1>14. \A m \in DOMAIN out : out[m] = heard[where[m]] /\ Promise!Fits(where[m])
  BY <1>3, <1>6, <1>8, <1>12
<1>15. \A m, k \in DOMAIN out : m < k => where[m] < where[k]
  BY <1>3, <1>9
<1>16. \A i \in DOMAIN heard : Promise!Fits(i) =>
          \E m \in DOMAIN out : where[m] = i \/ (~Promise!TakesAll /\ where[m] < i)
  BY <1>3, <1>10, <1>12, <1>13
<1>17. Promise!TakesAll \/ Len(out) < 2
  BY <1>11, <1>13
<1>18. Promise!Fitting(out)
  BY <1>6, <1>14, <1>15, <1>16, <1>17 DEF Promise!Fitting
<1> QED
  BY <1>18 DEF out

\* The names of AtCommand and those of AtChannel.
LEMMA SameNames ==
    /\ Promise!NoCall = NoCommand /\ Promise!NoLine = NoLine /\ Promise!NoResult = NoResult
    /\ \A line : Promise!IsFinal(line) <=> IsFinal(line)
    /\ \A of, err, final, infos : Promise!Result(of, err, final, infos) = Result(of, err, final, infos)
    /\ \A kind, final, infos : Promise!Verdict(kind, final, infos) = Verdict(kind, final, infos)
  BY DEF Promise!NoCall, NoCommand, Promise!NoLine, Promise!Line, NoLine, Line,
         Promise!NoResult, NoResult, Promise!Result, Result, Promise!IsFinal, IsFinal,
         Promise!Verdict, Promise!MustInform, Promise!Success, Promise!TypeOf,
         Verdict, MustInform, Success, TypeOf

LEMMA PromiseInit == Init => Promise!Init
  BY SameNames DEF Init, Promise!Init

\* A step in which no call begins or ends hears at most one line.
LEMMA PromiseHear ==
    ASSUME Talk, cmd' = cmd, last' = NoResult,
           \/ heard' = heard
           \/ sp_response.pending /\ \E line \in LineType : heard' = Append(heard, line)
    PROVE  Promise!Next
<1>1. CASE heard' = heard
  BY <1>1, SameNames DEF Promise!Next, Promise!Forget
<1>2. CASE sp_response.pending /\ \E line \in LineType : heard' = Append(heard, line)
  <2>1. PICK line \in LineType : heard' = Append(heard, line)
    BY <1>2
  <2>2. heard \in Seq(LineType) /\ cmd # NoCommand
    BY <1>2 DEF Talk
  <2>3. Len(heard') = Len(heard) + 1
    BY <2>1, <2>2, AppendProperties
  <2>4. SubSeq(heard', 1, Len(heard)) = heard
    BY <2>1, <2>2
  <2> QED
    BY <2>2, <2>3, <2>4, SameNames DEF Promise!Next, Promise!Hear, Promise!Busy
<1> QED
  BY <1>1, <1>2

LEMMA PromiseAsk ==
    ASSUME Talk, Talk', ev # "wait", NEW kind, NEW timed, Issue(kind, timed)
    PROVE  Promise!Next
<1>1. cmd = NoCommand /\ ev' = "wait" /\ heard' = <<>> /\ last' = NoResult
  BY DEF Talk, Issue
<1>2. cmd' # NoCommand
  BY <1>1 DEF Talk
<1> QED
  BY <1>1, <1>2, SameNames DEF Promise!Next, Promise!Ask, Promise!Busy

LEMMA PromiseRefuse ==
    ASSUME Talk, ev # "wait", NEW timed, IssueFails(timed)
    PROVE  Promise!Next
<1>1. cmd = NoCommand /\ cmd' = NoCommand /\ heard' = <<>>
  BY DEF Talk, IssueFails, Clear
<1>2. last'.err \in {"closed", "generic"} /\ last'.infos = <<>>
  BY DEF IssueFails, Result
<1> QED
  BY <1>1, <1>2, SameNames DEF Promise!Next, Promise!Refuse, Promise!Busy

LEMMA PromiseReturn ==
    ASSUME Talk, Held, Return
    PROVE  Promise!Next
<1>1. /\ cmd # NoCommand /\ cmd' = NoCommand /\ heard' = <<>> /\ last' = Returned
      /\ sp_response.pending
  BY DEF Talk, Return, Clear
<1>2. CASE s_readerClosed
  <2>1. last' = Result(cmd, "closed", NoLine, <<>>)
    BY <1>1, <1>2 DEF Returned
  <2>2. Promise!Return("closed", NoLine, <<>>)
    BY <1>1, <2>1, SameNames DEF Promise!Return, Promise!Busy
  <2> QED
    BY <2>2, SameNames DEF Promise!Next, Promise!Abandon
<1>3. CASE ~s_readerClosed
  <2> DEFINE final == sp_response.final
             infos == Reversed(sp_response.infos)
  <2>1. last' = Result(cmd, Verdict(cmd.kind, final, infos), final, infos)
    BY <1>1, <1>3 DEF Returned
  <2>2. final # NoLine /\ FinalOf(heard, final)
    BY <1>1, <1>3 DEF Return, Complete, Held
  <2>3. Promise!LastFinal(final)
    BY <2>2, SameNames DEF FinalOf, Promise!LastFinal
  <2>4. Promise!Fitting(infos)
    BY <1>1, ReversedFits DEF Held
  <2> HIDE DEF final, infos
  <2>5. last'.final = final /\ last'.infos = infos
    BY <2>1 DEF Result
  <2>6. Promise!Return(Verdict(cmd.kind, final, infos), final, infos)
    BY <1>1, <2>1, SameNames DEF Promise!Return, Promise!Busy
  <2>7. Promise!Answer
    BY <2>3, <2>4, <2>5, <2>6, SameNames DEF Promise!Answer
  <2> QED
    BY <2>7 DEF Promise!Next
<1> QED
  BY <1>2, <1>3

LEMMA PromiseTimeOut ==
    ASSUME Talk, TimeOut
    PROVE  Promise!Next
<1>1. /\ cmd # NoCommand /\ cmd' = NoCommand /\ heard' = <<>> /\ cmd.timed
      /\ last' = Result(cmd, "timeout", NoLine, <<>>)
  BY DEF Talk, TimeOut, Clear
<1>2. Promise!Return("timeout", NoLine, <<>>)
  BY <1>1, SameNames DEF Promise!Return, Promise!Busy
<1> QED
  BY <1>1, <1>2, SameNames DEF Promise!Next, Promise!Abandon

LEMMA PromiseStep == IInv /\ IInv' /\ [Next]_vars => [Promise!Next]_<<cmd, heard, last>>
<1> SUFFICES ASSUME IInv, IInv', Next PROVE Promise!Next
  BY DEF vars, respVars, evVars
<1> USE DEF IInv
<1>1. CASE ShakeAttempt
  BY <1>1, PromiseAsk, PromiseRefuse DEF ShakeAttempt
<1>2. CASE SendCommand
  BY <1>2, PromiseAsk, PromiseRefuse DEF SendCommand
<1>3. CASE Return
  BY <1>3, PromiseReturn
<1>4. CASE TimeOut
  BY <1>4, PromiseTimeOut
<1>5. ASSUME last' = NoResult, UNCHANGED <<cmd, heard>> PROVE Promise!Next
  BY <1>5, PromiseHear
<1>6. CASE last' = NoResult /\ (EventThread \/ MainThread)
  BY <1>5, <1>6
  DEF EventThread, MainThread, StartInit, ShakeEnds, InitEnds, WaitAgain, NullResponse,
      Reopen, ResetPending, SleepEnds, respVars, evVars
<1>7. ASSUME NEW o \in Open, last' = NoResult, ReadLine(o) \/ ReadLeftover(o) PROVE Promise!Next
  <2>1. cmd' = cmd
    BY <1>7 DEF ReadLine, ReadLeftover, ReadVars, evVars
  <2>2. \E line \in LineType : Heard(line)
    BY <1>7, LinesTyped, NoLineTyped DEF ReadLine, ReadLeftover
  <2> QED
    BY <1>7, <2>1, <2>2, PromiseHear DEF Heard
<1>8. ASSUME NEW o \in Open, last' = NoResult,
             \/ ReadSms(o) \/ OnReaderClosed(o) \/ TellClosed(o) \/ TellState(o)
             \/ Answers(o) \/ SendsUnasked(o) \/ HangsUp(o)
      PROVE  Promise!Next
  BY <1>5, <1>8
  DEF ReadSms, OnReaderClosed, TellClosed, TellState, Answers, SendsUnasked, HangsUp,
      ReadVars, respVars, evVars
<1> QED
  BY <1>1, <1>2, <1>3, <1>4, <1>6, <1>7, <1>8 DEF Next, Returning, ReaderThread, Modem

(* What at_send_command() and at_handshake() promise their caller, that a  *)
(* call returns once, with the last final line heard while it lasted and   *)
(* the intermediate lines it takes in their order, holds whatever the      *)
(* threads do (at_send_command_full_nolock, processLine, at_open).         *)
THEOREM ChannelPromiseKept == Spec => PromiseKept
<1>1. Init => IInv /\ Promise!Init
  BY InitInv, PromiseInit
<1>2. IInv /\ [Next]_vars => IInv'
  BY NextInv
<1>3. IInv /\ IInv' /\ [Next]_vars => [Promise!Next]_<<cmd, heard, last>>
  BY PromiseStep
<1> QED
  BY <1>1, <1>2, <1>3, PTL DEF Spec, PromiseKept, Promise!Spec

-----------------------------------------------------------------------------
(* The radio state: an open channel is heard.                              *)

\* A reader that has still to tell the radio state was overtaken by the next
\* opening, or the channel is closed.
Told == \A o \in Open : reader[o] = "state" => s_closed \/ "overtaken" \in cause

OvertakenKept == "overtaken" \in cause => "overtaken" \in cause'

LEMMA HeardOn ==
    ASSUME Told, OpenChannelHeard, OvertakenKept,
           UNCHANGED <<main, s_closed, sState, initDue, reader>>
    PROVE  Told' /\ OpenChannelHeard'
  BY DEF Told, OpenChannelHeard, OvertakenKept

LEMMA HeardSet ==
    ASSUME Told, OvertakenKept, UNCHANGED <<s_closed, reader>>,
           NEW state \in {"OFF", "ON"}, SetRadioState(state)
    PROVE  Told' /\ OpenChannelHeard'
  BY DEF Told, OpenChannelHeard, OvertakenKept, SetRadioState

LEMMA HeardStep ==
    ASSUME Link, Told, OpenChannelHeard, Next
    PROVE  Told' /\ OpenChannelHeard'
<1> USE DEF Blame
<1>1. CASE ShakeAttempt \/ SendCommand
  <2>1. UNCHANGED <<main, s_closed, sState, initDue, reader>>
    BY <1>1 DEF ShakeAttempt, SendCommand, mainVars
  <2>2. OvertakenKept
    BY <1>1 DEF ShakeAttempt, SendCommand, Issue, IssueFails, OvertakenKept
  <2> QED
    BY <2>1, <2>2, HeardOn
<1>2. CASE Return \/ TimeOut \/ ShakeEnds \/ WaitAgain \/ NullResponse
  BY <1>2, HeardOn
  DEF Return, TimeOut, ShakeEnds, WaitAgain, NullResponse, mainVars, OvertakenKept
<1>3. CASE StartInit
  BY <1>3, HeardSet DEF StartInit, RadioAtInit, OvertakenKept
<1>4. CASE InitEnds
  <2>1. UNCHANGED <<s_closed, initDue, reader, cause>>
    BY <1>4 DEF InitEnds
  <2> QED
    BY <1>4, <2>1, HeardSet, HeardOn DEF InitEnds, OvertakenKept
<1>5. ASSUME NEW o \in Open, ReadLine(o) PROVE Told' /\ OpenChannelHeard'
  <2>1. UNCHANGED <<s_closed, initDue, reader>>
    BY <1>5 DEF ReadLine, ReadVars
  <2>2. OvertakenKept /\ (SetRadioState("OFF") \/ UNCHANGED <<main, sState>>)
    BY <1>5 DEF ReadLine, ProcessLine, Unsolicited, FinalLine, AddIntermediate, OvertakenKept
  <2> QED
    BY <2>1, <2>2, HeardSet, HeardOn
<1>6. ASSUME NEW o \in Open,
             \/ ReadSms(o) \/ ReadLeftover(o)
             \/ Answers(o) \/ SendsUnasked(o) \/ HangsUp(o)
      PROVE  Told' /\ OpenChannelHeard'
  BY <1>6, HeardOn
  DEF ReadSms, ReadLeftover, Answers, SendsUnasked, HangsUp, ReadVars, mainVars, OvertakenKept
<1>7. ASSUME NEW o \in Open, OnReaderClosed(o) PROVE Told' /\ OpenChannelHeard'
  <2>1. UNCHANGED <<main, s_closed, sState, initDue, cause>>
        /\ reader' = [reader EXCEPT ![o] = "tell"]
    BY <1>7 DEF OnReaderClosed, Reader, mainVars
  <2> QED
    BY <2>1 DEF Told, OpenChannelHeard, Link
<1>8. ASSUME NEW o \in Open, TellClosed(o) PROVE Told' /\ OpenChannelHeard'
  BY <1>8 DEF TellClosed, Told, OpenChannelHeard
<1>9. ASSUME NEW o \in Open, TellState(o) PROVE Told' /\ OpenChannelHeard'
  <2>1. /\ reader[o] = "state" /\ reader' = [reader EXCEPT ![o] = "dead"]
        /\ UNCHANGED <<s_closed, cause>>
    BY <1>9 DEF TellState, Reader
  <2> QED
    BY <2>1 DEF Told, OpenChannelHeard, Link
<1>10. CASE Reopen
  BY <1>10 DEF Reopen, Told, OpenChannelHeard
<1>11. CASE ResetPending
  <2>1. /\ UNCHANGED <<s_closed, sState>> /\ initDue' = initDue + 1
        /\ reader' = [reader EXCEPT ![opened] = "loop"] /\ OvertakenKept
    BY <1>11 DEF ResetPending, OvertakenKept
  <2>2. initDue' # 0
    BY <2>1 DEF Link
  <2> QED
    BY <2>1, <2>2 DEF Told, OpenChannelHeard, Link, OvertakenKept
<1>12. CASE SleepEnds
  BY <1>12 DEF SleepEnds, Told, OpenChannelHeard
<1> QED
  BY <1>1, <1>2, <1>3, <1>4, <1>5, <1>6, <1>7, <1>8, <1>9, <1>10, <1>11, <1>12
  DEF Next, Returning, EventThread, MainThread, ReaderThread, Modem

(* Once the channel is open and no initialisation is due, the radio is not *)
(* held for unavailable, in which state onUnsolicited() drops every line,  *)
(* unless the old reader told its state after the next opening             *)
(* (onATReaderClosed, mainLoop).                                           *)
THEOREM ChannelHeard == Spec => []OpenChannelHeard
<1>1. Init => IInv /\ Told /\ OpenChannelHeard
  BY InitInv DEF Init, Told, OpenChannelHeard
<1>2. IInv /\ [Next]_vars => IInv'
  BY NextInv
<1>3. IInv /\ Told /\ OpenChannelHeard /\ [Next]_vars => Told' /\ OpenChannelHeard'
  BY HeardStep DEF IInv, Told, OpenChannelHeard, vars, mainVars
<1> QED
  BY <1>1, <1>2, <1>3, PTL DEF Spec

-----------------------------------------------------------------------------
(* Whose answer a command takes.                                           *)

\* The modem answers in turn, of one opening: a, the commands it has, l, the
\* lines on their way, live, whether it is connected.
NotAnswered(a, l) ==
    \A i \in DOMAIN l : IsFinal(l[i]) /\ l[i].own # 0 =>
        /\ \A k \in DOMAIN a : a[k].id # l[i].own
        /\ \A j \in DOMAIN l : IsFinal(l[j]) /\ l[j].own = l[i].own => i = j
Ending(a, l, i) ==
    \/ 1 \in DOMAIN a /\ a[1].id = l[i].own
    \/ \E j \in DOMAIN l : j > i /\ IsFinal(l[j]) /\ l[j].own = l[i].own
Turn(a, l, live) ==
    /\ \A i, j \in DOMAIN a : a[i].id = a[j].id => i = j
    /\ NotAnswered(a, l)
    /\ live => \A i \in DOMAIN l : l[i].own # 0 /\ ~IsFinal(l[i]) => Ending(a, l, i)

\* Every command and line is of one that was sent.
OfSent(a, l, n) == (\A i \in DOMAIN a : a[i].id <= n) /\ (\A i \in DOMAIN l : l[i].own <= n)

InTurn ==
    /\ up \in [Open -> BOOLEAN]
    /\ \A o \in Open :
          /\ Turn(asked[o], lines[o], up[o]) /\ OfSent(asked[o], lines[o], sent)
          /\ o > opened => asked[o] = <<>> /\ lines[o] = <<>> /\ ~up[o]

LEMMA TailAt ==
    ASSUME NEW S, NEW s \in Seq(S), s # <<>>
    PROVE  /\ 1 \in DOMAIN s
           /\ \A i \in DOMAIN Tail(s) : i \in Nat /\ i + 1 \in DOMAIN s /\ Tail(s)[i] = s[i + 1]
           /\ \A i \in DOMAIN s : i \in Nat /\ (i # 1 => i - 1 \in DOMAIN Tail(s))
<1>1. Len(s) \in Nat /\ Len(s) # 0 /\ DOMAIN s = 1 .. Len(s)
  BY EmptySeq, LenProperties
<1>2. /\ Tail(s) \in Seq(S) /\ Len(Tail(s)) = Len(s) - 1
      /\ \A i \in 1 .. Len(Tail(s)) : Tail(s)[i] = s[i + 1]
  BY HeadTailProperties
<1>3. DOMAIN Tail(s) = 1 .. Len(s) - 1
  BY <1>2, LenProperties
<1> QED
  BY <1>1, <1>2, <1>3

LEMMA AppendAt ==
    ASSUME NEW S, NEW s \in Seq(S), NEW e \in S
    PROVE  /\ Len(s) \in Nat /\ Len(s) + 1 \notin DOMAIN s
           /\ \A i \in DOMAIN s : i \in Nat /\ i < Len(s) + 1 /\ i \in DOMAIN Append(s, e) /\ Append(s, e)[i] = s[i]
           /\ Len(s) + 1 \in DOMAIN Append(s, e) /\ Append(s, e)[Len(s) + 1] = e
           /\ \A i \in DOMAIN Append(s, e) : i \in DOMAIN s \/ i = Len(s) + 1
<1>1. Len(s) \in Nat /\ DOMAIN s = 1 .. Len(s)
  BY LenProperties
<1>2. /\ Append(s, e) \in Seq(S) /\ Len(Append(s, e)) = Len(s) + 1
      /\ \A i \in 1 .. Len(s) : Append(s, e)[i] = s[i]
      /\ Append(s, e)[Len(s) + 1] = e
  BY AppendProperties
<1>3. DOMAIN Append(s, e) = 1 .. Len(s) + 1
  BY <1>2, LenProperties
<1> QED
  BY <1>1, <1>2, <1>3

\* The reader takes a line.
LEMMA TurnRead ==
    ASSUME NEW a, NEW l \in Seq(LineType), l # <<>>, NEW live, Turn(a, l, live)
    PROVE  Turn(a, Tail(l), live)
<1> DEFINE t == Tail(l)
<1>1. /\ \A i \in DOMAIN t : i \in Nat /\ i + 1 \in DOMAIN l /\ t[i] = l[i + 1]
      /\ \A i \in DOMAIN l : i \in Nat /\ (i # 1 => i - 1 \in DOMAIN t)
  BY TailAt
<1> HIDE DEF t
<1>2. NotAnswered(a, t)
  <2> SUFFICES ASSUME NEW i \in DOMAIN t, IsFinal(t[i]), t[i].own # 0
               PROVE  /\ \A k \in DOMAIN a : a[k].id # t[i].own
                      /\ \A j \in DOMAIN t : IsFinal(t[j]) /\ t[j].own = t[i].own => i = j
    BY DEF NotAnswered
  <2>1. i + 1 \in DOMAIN l /\ t[i] = l[i + 1] /\ i \in Nat
    BY <1>1
  <2>2. \A j \in DOMAIN t : IsFinal(t[j]) /\ t[j].own = t[i].own => i = j
    <3> SUFFICES ASSUME NEW j \in DOMAIN t, IsFinal(t[j]), t[j].own = t[i].own PROVE i = j
      OBVIOUS
    <3>1. j + 1 \in DOMAIN l /\ t[j] = l[j + 1] /\ j \in Nat
      BY <1>1
    <3>2. i + 1 = j + 1
      BY <2>1, <3>1 DEF Turn, NotAnswered
    <3> QED
      BY <2>1, <3>1, <3>2
  <2> QED
    BY <2>1, <2>2 DEF Turn, NotAnswered
<1>3. ASSUME live, NEW i \in DOMAIN t, t[i].own # 0, ~IsFinal(t[i]) PROVE Ending(a, t, i)
  <2>1. i + 1 \in DOMAIN l /\ t[i] = l[i + 1] /\ i \in Nat
    BY <1>1
  <2>2. Ending(a, l, i + 1)
    BY <1>3, <2>1 DEF Turn
  <2>3. CASE 1 \in DOMAIN a /\ a[1].id = l[i + 1].own
    BY <2>1, <2>3 DEF Ending
  <2>4. ASSUME NEW j \in DOMAIN l, j > i + 1, IsFinal(l[j]), l[j].own = l[i + 1].own
        PROVE  Ending(a, t, i)
    <3>1. j \in Nat /\ j # 1 /\ j - 1 > i
      BY <1>1, <2>1, <2>4
    <3>2. j - 1 \in DOMAIN t /\ t[j - 1] = l[j]
      <4>1. j - 1 \in DOMAIN t
        BY <1>1, <3>1
      <4>2. t[j - 1] = l[(j - 1) + 1] /\ (j - 1) + 1 = j
        BY <1>1, <3>1, <4>1
      <4> QED
        BY <4>1, <4>2
    <3> QED
      BY <2>1, <2>4, <3>1, <3>2 DEF Ending
  <2> QED
    BY <2>2, <2>3, <2>4 DEF Ending
<1>4. Turn(a, t, live)
  BY <1>2, <1>3 DEF Turn
<1> QED
  BY <1>4 DEF t

\* The modem goes on with its first command, or is asked nothing more.
LEMMA TurnSame ==
    ASSUME NEW a, NEW b, NEW l, NEW live, Turn(a, l, live),
           DOMAIN b = DOMAIN a, \A i \in DOMAIN a : b[i].id = a[i].id
    PROVE  Turn(b, l, live)
  BY DEF Turn, NotAnswered, Ending

LEMMA TurnDown ==
    ASSUME NEW a, NEW l, NEW live, Turn(a, l, live)
    PROVE  Turn(<<>>, l, FALSE)
<1>1. DOMAIN <<>> = {}
  OBVIOUS
<1> QED
  BY <1>1 DEF Turn, NotAnswered

\* It is asked one more.
LEMMA TurnAsked ==
    ASSUME NEW a \in Seq(AskedType), NEW q \in AskedType, NEW l, NEW live, Turn(a, l, live),
           \A i \in DOMAIN a : a[i].id # q.id, \A i \in DOMAIN l : l[i].own # q.id
    PROVE  Turn(Append(a, q), l, live)
<1> DEFINE b == Append(a, q)
           n == Len(a) + 1
<1>1. /\ n \notin DOMAIN a
      /\ \A i \in DOMAIN a : i \in DOMAIN b /\ b[i] = a[i]
      /\ n \in DOMAIN b /\ b[n] = q
      /\ \A i \in DOMAIN b : i \in DOMAIN a \/ i = n
  BY AppendAt
<1> HIDE DEF b, n
<1>2. \A i, j \in DOMAIN b : b[i].id = b[j].id => i = j
  BY <1>1 DEF Turn
<1>3. NotAnswered(b, l)
  <2>1. ASSUME NEW i \in DOMAIN l, IsFinal(l[i]), l[i].own # 0, NEW k \in DOMAIN b
        PROVE  b[k].id # l[i].own
    BY <1>1, <2>1 DEF Turn, NotAnswered
  <2> QED
    BY <2>1 DEF Turn, NotAnswered
<1>4. \A i \in DOMAIN l : Ending(a, l, i) => Ending(b, l, i)
  BY <1>1 DEF Ending
<1>5. Turn(b, l, live)
  BY <1>2, <1>3, <1>4 DEF Turn
<1> QED
  BY <1>5 DEF b

\* It sends a line: of its own, or an intermediate one of its first command.
LEMMA TurnLine ==
    ASSUME NEW a, NEW l \in Seq(LineType), NEW e \in LineType, NEW live, Turn(a, l, live),
           e.own = 0 \/ (~IsFinal(e) /\ 1 \in DOMAIN a /\ a[1].id = e.own)
    PROVE  Turn(a, Append(l, e), live)
<1> DEFINE m == Append(l, e)
           n == Len(l) + 1
<1>1. /\ n \notin DOMAIN l
      /\ \A i \in DOMAIN l : i \in DOMAIN m /\ m[i] = l[i]
      /\ n \in DOMAIN m /\ m[n] = e
      /\ \A i \in DOMAIN m : i \in DOMAIN l \/ i = n
  BY AppendAt
<1> HIDE DEF m, n
<1>2. NotAnswered(a, m)
  BY <1>1 DEF Turn, NotAnswered
<1>3. \A i \in DOMAIN l : Ending(a, l, i) => Ending(a, m, i)
  BY <1>1 DEF Ending
<1>4. e.own # 0 => Ending(a, m, n)
  BY <1>1 DEF Ending
<1>5. Turn(a, m, live)
  BY <1>1, <1>2, <1>3, <1>4 DEF Turn
<1> QED
  BY <1>5 DEF m

\* It sends the final line of its first command.
LEMMA TurnDone ==
    ASSUME NEW a \in Seq(AskedType), a # <<>>, NEW l \in Seq(LineType), NEW e \in LineType,
           NEW live, Turn(a, l, live), IsFinal(e), e.own = a[1].id
    PROVE  Turn(Tail(a), Append(l, e), live)
<1> DEFINE b == Tail(a)
           m == Append(l, e)
           n == Len(l) + 1
<1>1. /\ 1 \in DOMAIN a
      /\ \A i \in DOMAIN b : i \in Nat /\ i + 1 \in DOMAIN a /\ b[i] = a[i + 1]
  BY TailAt
<1>2. /\ n \in Nat /\ n \notin DOMAIN l
      /\ \A i \in DOMAIN l : i \in Nat /\ i < n /\ i \in DOMAIN m /\ m[i] = l[i]
      /\ n \in DOMAIN m /\ m[n] = e
      /\ \A i \in DOMAIN m : i \in DOMAIN l \/ i = n
  BY AppendAt
<1> HIDE DEF b, m, n
<1>3. \A i, j \in DOMAIN b : b[i].id = b[j].id => i = j
  <2> SUFFICES ASSUME NEW i \in DOMAIN b, NEW j \in DOMAIN b, b[i].id = b[j].id PROVE i = j
    OBVIOUS
  <2>1. i + 1 = j + 1
    BY <1>1 DEF Turn
  <2> QED
    BY <1>1, <2>1
<1>4. \A k \in DOMAIN b : b[k].id # e.own
  <2> SUFFICES ASSUME NEW k \in DOMAIN b, b[k].id = e.own PROVE FALSE
    OBVIOUS
  <2>1. k + 1 = 1 /\ k \in Nat /\ k + 1 \in DOMAIN a
    BY <1>1 DEF Turn
  <2>2. k = 0
    BY <2>1
  <2>3. 0 \notin DOMAIN b
    <3>1. b \in Seq(AskedType)
      BY HeadTailProperties DEF b
    <3> QED
      BY <3>1, LenProperties
  <2> QED
    BY <2>2, <2>3
<1>5. NotAnswered(b, m)
  <2>1. ASSUME NEW i \in DOMAIN m, IsFinal(m[i]), m[i].own # 0, NEW k \in DOMAIN b
        PROVE  b[k].id # m[i].own
    BY <1>1, <1>2, <1>4, <2>1 DEF Turn, NotAnswered
  <2>2. ASSUME NEW i \in DOMAIN m, IsFinal(m[i]), m[i].own # 0,
               NEW j \in DOMAIN m, IsFinal(m[j]), m[j].own = m[i].own
        PROVE  i = j
    <3>1. \A p \in DOMAIN l : IsFinal(l[p]) /\ l[p].own # 0 => l[p].own # e.own
      BY <1>1 DEF Turn, NotAnswered
    <3> QED
      BY <1>2, <2>2, <3>1 DEF Turn, NotAnswered
  <2> QED
    BY <2>1, <2>2 DEF NotAnswered
<1>6. ASSUME NEW i \in DOMAIN m, live, m[i].own # 0, ~IsFinal(m[i]) PROVE Ending(b, m, i)
  <2>1. i \in DOMAIN l /\ m[i] = l[i] /\ i < n
    BY <1>2, <1>6
  <2>2. Ending(a, l, i)
    BY <1>6, <2>1 DEF Turn
  <2> QED
    BY <1>2, <2>1, <2>2 DEF Ending
<1>7. Turn(b, m, live)
  BY <1>3, <1>5, <1>6 DEF Turn
<1> QED
  BY <1>7 DEF b, m

LEMMA InTurnOn ==
    ASSUME InTurn, UNCHANGED <<up, lines, asked, opened, sent>>
    PROVE  InTurn'
  BY DEF InTurn, Turn, NotAnswered, Ending, OfSent

\* One channel moved.
LEMMA InTurnAt ==
    ASSUME Wire, Wire', Link, Talk, InTurn, NEW o \in Open, UNCHANGED <<opened, sent>>,
           o <= opened, up' \in [Open -> BOOLEAN],
           \A p \in Open : p # o => UNCHANGED <<asked[p], lines[p], up[p]>>,
           Turn(asked'[o], lines'[o], up'[o]), OfSent(asked'[o], lines'[o], sent)
    PROVE  InTurn'
<1> SUFFICES ASSUME NEW p \in Open
             PROVE  /\ Turn(asked'[p], lines'[p], up'[p]) /\ OfSent(asked'[p], lines'[p], sent)
                    /\ p > opened => asked'[p] = <<>> /\ lines'[p] = <<>> /\ ~up'[p]
  BY DEF InTurn, Turn, NotAnswered, Ending, OfSent
<1>1. CASE p = o
  <2>1. ~(o > opened)
    BY Bounds DEF Link, Open
  <2> QED
    BY <1>1, <2>1
<1>2. CASE p # o
  BY <1>2 DEF InTurn
<1> QED
  BY <1>1, <1>2

\* The reader of an opening takes a line, and may pass the PDU to the modem.
LEMMA InTurnRead ==
    ASSUME Wire, Wire', Link, Talk, InTurn, NEW o \in Open, lines[o] # <<>>, Consume(o),
           asked' = asked \/ WriteCtrlZ(o), UNCHANGED <<up, opened, sent>>
    PROVE  InTurn'
<1>1. lines[o] \in Seq(LineType) /\ asked[o] \in Seq(AskedType)
      /\ lines'[o] = Tail(lines[o]) /\ \A p \in Open : p # o => lines'[p] = lines[p]
  BY DEF Wire, Consume
<1>2. /\ DOMAIN asked'[o] = DOMAIN asked[o]
      /\ \A i \in DOMAIN asked[o] : asked'[o][i].id = asked[o][i].id
      /\ \A p \in Open : p # o => asked'[p] = asked[p]
  <2>1. CASE asked' = asked
    BY <2>1
  <2>2. CASE asked[o] # <<>> /\ asked' = [asked EXCEPT ![o][1].at = "data"]
    BY <1>1, <2>2 DEF Wire, AskedType
  <2> QED
    BY <2>1, <2>2 DEF WriteCtrlZ
<1>3. Turn(asked'[o], lines'[o], up'[o])
  <2>1. Turn(asked[o], Tail(lines[o]), up[o])
    BY <1>1, TurnRead DEF InTurn
  <2> QED
    BY <1>1, <1>2, <2>1, TurnSame
<1>4. OfSent(asked'[o], lines'[o], sent)
  BY <1>1, <1>2, TailAt DEF InTurn, OfSent
<1>5. o <= opened
  BY Bounds DEF InTurn, Link, Open
<1> QED
  BY <1>1, <1>2, <1>3, <1>4, <1>5, InTurnAt DEF InTurn

\* A line is queued for the opening's reader.
LEMMA OfSentLine ==
    ASSUME NEW a, NEW l \in Seq(LineType), NEW e \in LineType, NEW n,
           OfSent(a, l, n), e.own <= n
    PROVE  OfSent(a, Append(l, e), n)
<1> DEFINE m == Append(l, e)
<1>1. /\ \A i \in DOMAIN l : m[i] = l[i]
      /\ m[Len(l) + 1] = e
      /\ \A i \in DOMAIN m : i \in DOMAIN l \/ i = Len(l) + 1
  BY AppendAt
<1> HIDE DEF m
<1>2. OfSent(a, m, n)
  BY <1>1 DEF OfSent
<1> QED
  BY <1>2 DEF m

\* The modem answers.
LEMMA InTurnAnswer ==
    ASSUME Wire, Wire', Link, Talk, InTurn, NEW o \in Open, Answers(o)
    PROVE  InTurn'
<1> DEFINE q == Head(asked[o])
<1>1. asked[o] # <<>> /\ asked[o] \in Seq(AskedType) /\ lines[o] \in Seq(LineType) /\ up[o]
  BY DEF Answers, Wire
<1>2. q \in AskedType /\ q = asked[o][1] /\ 1 \in DOMAIN asked[o]
  BY <1>1, TailTyped
<1>3. UNCHANGED <<up, opened, sent>>
  BY DEF Answers, evVars, mainVars
<1>4. q.kind \in Text /\ {"prompt", "ok", "error"} \subseteq Text /\ q.kind \in Kind
      /\ q.id \in 0 .. MaxSent
  BY <1>2, Bounds DEF AskedType, Text
<1>5. PICK text \in {"prompt", "ok", "error", q.kind} :
          /\ Emit(o, text, q.id)
          /\ \/ text \notin {"ok", "error"}
                /\ \E at \in {"pdu", "more", "end"} : asked' = [asked EXCEPT ![o][1].at = at]
             \/ text \in {"ok", "error"} /\ asked' = [asked EXCEPT ![o] = Tail(@)]
  <2>1. q.kind \notin {"ok", "error"}
    BY <1>4 DEF Kind
  <2> QED
    BY <2>1 DEF Answers
<1> DEFINE e == Line(text, q.id)
<1>6. e \in LineType /\ e.own = asked[o][1].id /\ (IsFinal(e) <=> text \in {"ok", "error"})
  <2>1. q.kind # "carrier"
    BY <1>4 DEF Kind
  <2> QED
    BY <1>2, <1>4, <2>1 DEF Line, LineType, IsFinal
<1>7. lines'[o] = Append(lines[o], e) /\ \A p \in Open : p # o => lines'[p] = lines[p]
  BY <1>5 DEF Emit, Wire
<1>10. e.own <= sent
  BY <1>2, <1>6 DEF InTurn, OfSent
<1> HIDE DEF e, q
<1>8. CASE IsFinal(e)
  <2>1. asked' = [asked EXCEPT ![o] = Tail(@)]
    BY <1>5, <1>6, <1>8
  <2>2. asked'[o] = Tail(asked[o]) /\ \A p \in Open : p # o => asked'[p] = asked[p]
    BY <2>1 DEF Wire
  <2>3. Turn(asked'[o], lines'[o], up'[o])
    <3>1. Turn(asked[o], lines[o], up[o])
      BY DEF InTurn
    <3>2. Turn(Tail(asked[o]), Append(lines[o], e), up[o])
      BY <1>1, <1>6, <1>8, <3>1, TurnDone
    <3> QED
      BY <1>3, <1>7, <2>2, <3>2
  <2>4. OfSent(asked'[o], lines'[o], sent)
    <3>1. OfSent(Tail(asked[o]), lines[o], sent)
      BY <1>1, TailAt DEF InTurn, OfSent
    <3> QED
      BY <1>1, <1>6, <1>7, <1>10, <2>2, <3>1, OfSentLine
  <2>5. o <= opened
    BY <1>1, Bounds DEF InTurn, Link, Open
  <2> QED
    BY <1>3, <1>7, <2>2, <2>3, <2>4, <2>5, InTurnAt DEF InTurn
<1>9. CASE ~IsFinal(e)
  <2>1. PICK at \in {"pdu", "more", "end"} : asked' = [asked EXCEPT ![o][1].at = at]
    BY <1>5, <1>6, <1>9
  <2>2. /\ DOMAIN asked'[o] = DOMAIN asked[o]
        /\ \A i \in DOMAIN asked[o] : asked'[o][i].id = asked[o][i].id
        /\ \A p \in Open : p # o => asked'[p] = asked[p]
    BY <1>1, <2>1 DEF Wire, AskedType
  <2>3. Turn(asked'[o], lines'[o], up'[o])
    <3>1. Turn(asked[o], Append(lines[o], e), up[o])
      BY <1>1, <1>2, <1>6, <1>9, TurnLine DEF InTurn
    <3> QED
      BY <1>3, <1>7, <2>2, <3>1, TurnSame
  <2>4. OfSent(asked'[o], lines'[o], sent)
    <3>1. OfSent(asked'[o], lines[o], sent)
      BY <2>2 DEF InTurn, OfSent
    <3> QED
      BY <1>1, <1>6, <1>7, <1>10, <3>1, OfSentLine
  <2>5. o <= opened
    BY <1>1, Bounds DEF InTurn, Link, Open
  <2> QED
    BY <1>3, <1>7, <2>2, <2>3, <2>4, <2>5, InTurnAt DEF InTurn
<1> QED
  BY <1>8, <1>9

LEMMA InTurnUnasked ==
    ASSUME Wire, Wire', Link, Talk, InTurn, NEW o \in Open, SendsUnasked(o)
    PROVE  InTurn'
<1>1. up[o] /\ UNCHANGED <<up, asked, opened, sent>>
  BY DEF SendsUnasked, evVars, mainVars
<1>2. PICK text \in Unasked : Emit(o, text, 0)
  BY DEF SendsUnasked
<1> DEFINE e == Line(text, 0)
<1>3. e \in LineType /\ e.own = 0 /\ lines[o] \in Seq(LineType)
  <2>1. 0 \in 0 .. MaxSent /\ text \in Text
    BY Bounds
  <2> QED
    BY <2>1 DEF Line, LineType, Wire
<1>4. lines'[o] = Append(lines[o], e) /\ \A p \in Open : p # o => lines'[p] = lines[p]
  BY <1>2 DEF Emit, Wire
<1> HIDE DEF e
<1>5. Turn(asked'[o], lines'[o], up'[o])
  <2>1. Turn(asked[o], lines[o], up[o])
    BY DEF InTurn
  <2>2. Turn(asked[o], Append(lines[o], e), up[o])
    BY <1>3, <2>1, TurnLine
  <2> QED
    BY <1>1, <1>4, <2>2
<1>6. OfSent(asked'[o], lines'[o], sent)
  <2>1. sent \in Nat
    BY Bounds DEF Talk
  <2> QED
    BY <1>1, <1>3, <1>4, <2>1, AppendAt DEF InTurn, OfSent
<1>7. o <= opened
  BY <1>1, Bounds DEF InTurn, Link, Open
<1> QED
  BY <1>1, <1>4, <1>5, <1>6, <1>7, InTurnAt DEF InTurn

\* A command is written.
LEMMA InTurnIssue ==
    ASSUME Wire, Wire', Link, Talk, InTurn, UNCHANGED opened,
           NEW kind \in Kinds \cup {"plain"}, NEW timed \in BOOLEAN, Issue(kind, timed)
    PROVE  InTurn'
<1> DEFINE q == [id |-> sent + 1, kind |-> kind, at |-> "new"]
<1>1. s_fd \in Open /\ sent \in Nat /\ sent + 1 \in 1 .. MaxSent /\ sent' = sent + 1
      /\ UNCHANGED <<up, lines>>
  BY Bounds DEF Issue, Writable, Link, Open, Talk
<1>2. q \in AskedType /\ q.id = sent + 1
  BY <1>1, PlainKind DEF AskedType
<1>3. /\ lines \in [Open -> Seq(LineType)] /\ asked \in [Open -> Seq(AskedType)]
      /\ asked' = IF up[s_fd] THEN [asked EXCEPT ![s_fd] = Append(@, q)] ELSE asked
  BY DEF Wire, Issue
<1> HIDE DEF q
<1>4. \A p \in Open : /\ \A i \in DOMAIN asked[p] : asked[p][i].id \in Nat /\ asked[p][i].id <= sent
                      /\ \A i \in DOMAIN lines[p] : lines[p][i].own \in Nat /\ lines[p][i].own <= sent
  <2> TAKE p \in Open
  <2>1. asked[p] \in Seq(AskedType) /\ lines[p] \in Seq(LineType)
    BY <1>3
  <2>2. \A i \in DOMAIN asked[p] : asked[p][i] \in AskedType
    BY <2>1, ElementOfSeq, LenProperties
  <2>3. \A i \in DOMAIN lines[p] : lines[p][i] \in LineType
    BY <2>1, ElementOfSeq, LenProperties
  <2> QED
    BY <2>2, <2>3, Bounds DEF InTurn, OfSent, AskedType, LineType
<1>5. \A p \in Open : OfSent(asked[p], lines[p], sent + 1)
  BY <1>1, <1>4 DEF OfSent
<1>6. ASSUME NEW p \in Open, asked'[p] = asked[p]
      PROVE  Turn(asked'[p], lines'[p], up'[p]) /\ OfSent(asked'[p], lines'[p], sent')
  BY <1>1, <1>5, <1>6 DEF InTurn
<1>7. CASE up[s_fd]
  <2>1. asked'[s_fd] = Append(asked[s_fd], q) /\ \A p \in Open : p # s_fd => asked'[p] = asked[p]
    BY <1>1, <1>3, <1>7
  <2>2. Turn(Append(asked[s_fd], q), lines[s_fd], up[s_fd])
    <3>1. \A i \in DOMAIN asked[s_fd] : asked[s_fd][i].id # q.id
      BY <1>1, <1>2, <1>4
    <3>2. \A i \in DOMAIN lines[s_fd] : lines[s_fd][i].own # q.id
      BY <1>1, <1>2, <1>4
    <3> QED
      BY <1>1, <1>2, <1>3, <3>1, <3>2, TurnAsked DEF InTurn
  <2>3. OfSent(Append(asked[s_fd], q), lines[s_fd], sent + 1)
    BY <1>1, <1>2, <1>3, <1>5, AppendAt DEF OfSent
  <2>4. ~(s_fd > opened)
    BY Bounds DEF Link
  <2>5. \A p \in Open : Turn(asked'[p], lines'[p], up'[p]) /\ OfSent(asked'[p], lines'[p], sent')
    BY <1>1, <1>6, <2>1, <2>2, <2>3
  <2>6. \A p \in Open : p > opened => asked'[p] = <<>> /\ lines'[p] = <<>> /\ ~up'[p]
    BY <1>1, <2>1, <2>4 DEF InTurn
  <2> QED
    BY <1>1, <2>5, <2>6 DEF InTurn, Turn, NotAnswered, Ending, OfSent
<1>8. CASE ~up[s_fd]
  <2>1. asked' = asked
    BY <1>3, <1>8
  <2>2. \A p \in Open : Turn(asked'[p], lines'[p], up'[p]) /\ OfSent(asked'[p], lines'[p], sent')
    BY <1>6, <2>1
  <2> QED
    BY <1>1, <2>1, <2>2 DEF InTurn, Turn, NotAnswered, Ending, OfSent
<1> QED
  BY <1>7, <1>8

LEMMA InTurnStep ==
    ASSUME IInv, Wire', InTurn, Next
    PROVE  InTurn'
<1> USE DEF IInv
<1>1. ASSUME NEW kind \in Kinds \cup {"plain"}, NEW timed \in BOOLEAN, UNCHANGED opened,
             Issue(kind, timed) \/ IssueFails(timed)
      PROVE  InTurn'
  BY <1>1, InTurnIssue, InTurnOn DEF IssueFails, modemVars
<1>2. CASE ShakeAttempt
  BY <1>1, <1>2 DEF ShakeAttempt, mainVars
<1>3. CASE SendCommand
  BY <1>1, <1>3 DEF SendCommand, mainVars
<1>4. CASE Return \/ TimeOut \/ EventThread
  BY <1>4, InTurnOn
  DEF Return, TimeOut, EventThread, StartInit, ShakeEnds, InitEnds, WaitAgain, NullResponse,
      evVars, mainVars, modemVars
<1>5. ASSUME NEW o \in Open, ReadLine(o) PROVE InTurn'
  <2>1. asked' = asked \/ WriteCtrlZ(o)
    BY <1>5 DEF ReadLine, ProcessLine, Unsolicited, FinalLine, AddIntermediate
  <2> QED
    BY <1>5, <2>1, InTurnRead DEF ReadLine, ReadVars, evVars
<1>6. ASSUME NEW o \in Open, ReadSms(o) \/ ReadLeftover(o) PROVE InTurn'
  BY <1>6, InTurnRead, InTurnOn DEF ReadSms, ReadLeftover, ReadVars, evVars
<1>7. ASSUME NEW o \in Open, OnReaderClosed(o) \/ TellClosed(o) \/ TellState(o) PROVE InTurn'
  BY <1>7, InTurnOn DEF OnReaderClosed, TellClosed, TellState, evVars, mainVars, modemVars
<1>8. CASE Reopen
  <2>1. /\ opened \in Nat /\ opened + 1 \in Open /\ opened' = opened + 1
        /\ up' = [up EXCEPT ![opened + 1] = TRUE] /\ UNCHANGED <<lines, asked, sent>>
    BY <1>8, Bounds DEF Reopen, Link, Open, evVars
  <2>2. lines[opened + 1] = <<>> /\ asked[opened + 1] = <<>>
    BY <2>1 DEF InTurn
  <2>3. DOMAIN <<>> = {}
    OBVIOUS
  <2>4. Turn(asked[opened + 1], lines[opened + 1], TRUE)
    BY <2>2, <2>3 DEF Turn, NotAnswered
  <2>5. /\ up' \in [Open -> BOOLEAN] /\ up'[opened + 1] = TRUE
        /\ \A p \in Open : p # opened + 1 => up'[p] = up[p]
    BY <2>1 DEF InTurn
  <2>6. \A p \in Open : Turn(asked'[p], lines'[p], up'[p]) /\ OfSent(asked'[p], lines'[p], sent')
    BY <2>1, <2>4, <2>5 DEF InTurn
  <2>7. \A p \in Open : p > opened' => p > opened /\ p # opened + 1
    BY <2>1, Bounds DEF Open
  <2>8. \A p \in Open : p > opened' => asked'[p] = <<>> /\ lines'[p] = <<>> /\ ~up'[p]
    BY <2>1, <2>5, <2>7 DEF InTurn
  <2> QED
    BY <2>5, <2>6, <2>8 DEF InTurn, Turn, NotAnswered, Ending, OfSent
<1>9. CASE ResetPending \/ SleepEnds
  BY <1>9, InTurnOn DEF ResetPending, SleepEnds, evVars, modemVars
<1>10. ASSUME NEW o \in Open, Answers(o) PROVE InTurn'
  BY <1>10, InTurnAnswer
<1>11. ASSUME NEW o \in Open, SendsUnasked(o) PROVE InTurn'
  BY <1>11, InTurnUnasked
<1>12. ASSUME NEW o \in Open, HangsUp(o) PROVE InTurn'
  <2>1. /\ up[o] /\ up' = [up EXCEPT ![o] = FALSE] /\ asked' = [asked EXCEPT ![o] = <<>>]
        /\ UNCHANGED <<lines, opened, sent>>
    BY <1>12 DEF HangsUp, evVars, mainVars
  <2>2. /\ up' \in [Open -> BOOLEAN] /\ up'[o] = FALSE /\ asked'[o] = <<>>
        /\ \A p \in Open : p # o => up'[p] = up[p] /\ asked'[p] = asked[p]
    BY <2>1 DEF InTurn, Wire
  <2>3. Turn(asked'[o], lines'[o], up'[o])
    BY <2>1, <2>2, TurnDown DEF InTurn
  <2>4. OfSent(asked'[o], lines'[o], sent)
    BY <2>1, <2>2 DEF InTurn, OfSent
  <2>5. o <= opened
    BY <2>1, Bounds DEF InTurn, Link, Open
  <2> QED
    BY <2>1, <2>2, <2>3, <2>4, <2>5, InTurnAt
<1> QED
  BY <1>2, <1>3, <1>4, <1>5, <1>6, <1>7, <1>8, <1>9, <1>10, <1>11, <1>12
  DEF Next, Returning, ReaderThread, MainThread, Modem

\* What the modem still has to say on the channel that is read, with nothing
\* of an older command left.
Clean == cause \cap {"unmatched", "carrier"} = {}
Due == IF s_fd = 0 THEN <<>> ELSE asked[s_fd]
Coming == IF s_fd = 0 THEN <<>> ELSE lines[s_fd]
Quiet(a, l) == DOMAIN a = {} /\ \A i \in DOMAIN l : IsFinal(l[i]) => l[i].own = 0

\* Between two commands nothing is owed; while one waits only its own lines
\* come, or the modem hung up and never will answer.
Settled == ev \in {"idle", "work"} /\ Clean => Quiet(Due, Coming)
OwnOnly(a, l, id) ==
    /\ \A i \in DOMAIN a : a[i].id = id
    /\ \A i \in DOMAIN l : IsFinal(l[i]) => l[i].own \in {0, id}
OwnSoFar(a, l, id, resp, why) ==
    /\ OwnOnly(a, l, id)
    /\ resp.final = NoLine \/ (resp.final.own = id /\ Quiet(a, l))
    /\ \/ /\ \A i \in DOMAIN l : l[i].own \in {0, id}
          /\ \A i \in DOMAIN resp.infos : resp.infos[i].own = id \/ "prefix" \in why
       \/ resp.final = NoLine /\ Quiet(a, l)
Own ==
    sp_response.pending /\ ~cmd.timed /\ Clean =>
        OwnSoFar(Due, Coming, cmd.id, sp_response, cause)
ClosedFd == s_readerClosed => s_fd = 0

\* How a channel goes on: the modem has no new command, and a new line is of
\* its own or of a command it had.
GoesOn(a, l, b, m) ==
    /\ \A i \in DOMAIN b : \E j \in DOMAIN a : b[i].id = a[j].id
    /\ \A i \in DOMAIN m : \/ \E j \in DOMAIN l : m[i] = l[j]
                           \/ m[i].own = 0
                           \/ \E k \in DOMAIN a : m[i].own = a[k].id

LEMMA QuietOn ==
    ASSUME NEW a, NEW l, NEW b, NEW m, GoesOn(a, l, b, m), Quiet(a, l)
    PROVE  Quiet(b, m)
<1>1. DOMAIN b = {}
  BY DEF GoesOn, Quiet
<1>2. ASSUME NEW i \in DOMAIN m, IsFinal(m[i]) PROVE m[i].own = 0
  BY <1>2 DEF GoesOn, Quiet
<1> QED
  BY <1>1, <1>2 DEF Quiet

LEMMA OwnOn ==
    ASSUME NEW a, NEW l, NEW b, NEW m, NEW id, NEW resp, NEW why, NEW more,
           GoesOn(a, l, b, m), OwnSoFar(a, l, id, resp, why), why \subseteq more
    PROVE  OwnSoFar(b, m, id, resp, more)
<1>1. OwnOnly(a, l, id)
  BY DEF OwnSoFar
<1>2. OwnOnly(b, m, id)
  BY <1>1 DEF GoesOn, OwnOnly
<1>3. Quiet(a, l) => Quiet(b, m)
  BY QuietOn
<1>4. (\A i \in DOMAIN l : l[i].own \in {0, id}) => \A i \in DOMAIN m : m[i].own \in {0, id}
  BY <1>1 DEF GoesOn, OwnOnly
<1> QED
  BY <1>2, <1>3, <1>4 DEF OwnSoFar

LEMMA NothingGoesOn ==
    ASSUME NEW a, NEW l PROVE GoesOn(a, l, <<>>, <<>>)
<1>1. DOMAIN <<>> = {}
  OBVIOUS
<1> QED
  BY <1>1 DEF GoesOn

\* A step in which the channel goes on, and neither thread gets to the command.
LEMMA OwnKept ==
    ASSUME Settled, Own, UNCHANGED <<cmd, sp_response>>,
           ev' \in {"idle", "work"} => ev \in {"idle", "work"},
           cause \subseteq cause' \/ (~sp_response.pending /\ Quiet(Due', Coming')),
           GoesOn(Due, Coming, Due', Coming')
    PROVE  Settled' /\ Own'
<1>1. CASE cause \subseteq cause'
  <2>1. Clean' => Clean
    BY <1>1 DEF Clean
  <2>2. Settled'
    BY <2>1, QuietOn DEF Settled
  <2>3. OwnSoFar(Due, Coming, cmd.id, sp_response, cause)
        => OwnSoFar(Due', Coming', cmd.id, sp_response, cause')
    BY <1>1, OwnOn
  <2>4. Own'
    BY <2>1, <2>3 DEF Own
  <2> QED
    BY <2>2, <2>4
<1>2. CASE ~sp_response.pending /\ Quiet(Due', Coming')
  BY <1>2 DEF Settled, Own
<1> QED
  BY <1>1, <1>2

\* The same when no command waits, and the next one is not yet sent.
LEMMA OwnNone ==
    ASSUME ~sp_response'.pending, ev' \in {"idle", "work"} /\ Clean' => Quiet(Due', Coming')
    PROVE  Settled' /\ Own'
  BY DEF Settled, Own

LEMMA SameChannel ==
    ASSUME UNCHANGED <<s_fd, lines, asked>>
    PROVE  Due' = Due /\ Coming' = Coming /\ GoesOn(Due, Coming, Due', Coming')
  BY DEF Due, Coming, GoesOn

\* Nothing is owed when the handshake is found to have left nothing behind.
LEMMA QuietOwed ==
    ASSUME Link, Wire
    PROVE  Owed \cup Arrived = {} <=> Quiet(Due, Coming)
<1>1. CASE s_fd = 0
  <2>1. DOMAIN <<>> = {}
    OBVIOUS
  <2> QED
    BY <1>1, <2>1 DEF Owed, Arrived, Quiet, Due, Coming
<1>2. CASE s_fd # 0
  <2>1. Owed = {asked[s_fd][i].id : i \in DOMAIN asked[s_fd]}
    BY <1>2 DEF Owed
  <2>2. Owed = {} <=> DOMAIN asked[s_fd] = {}
    BY <2>1
  <2>3. Arrived = {lines[s_fd][i].own : i \in {j \in DOMAIN lines[s_fd] : IsFinal(lines[s_fd][j])}} \ {0}
    BY <1>2 DEF Arrived
  <2>4. Arrived = {} <=> \A i \in DOMAIN lines[s_fd] : IsFinal(lines[s_fd][i]) => lines[s_fd][i].own = 0
    BY <2>3
  <2> QED
    BY <1>2, <2>2, <2>4 DEF Quiet, Due, Coming
<1> QED
  BY <1>1, <1>2

\* Of the lines of a channel that is up and quiet none is of a command.
LEMMA QuietUp ==
    ASSUME NEW a, NEW l, NEW live, Turn(a, l, live), live, Quiet(a, l)
    PROVE  \A i \in DOMAIN l : l[i].own = 0
  BY DEF Turn, Quiet, Ending

\* A command is written: what was owed is settled.
LEMMA OwnIssue ==
    ASSUME Link, Wire, Talk, InTurn, Settled, UNCHANGED s_fd,
           NEW kind \in Kinds \cup {"plain"}, NEW timed \in BOOLEAN, Issue(kind, timed),
           timed \/ ev \in {"idle", "work"}
    PROVE  Settled' /\ Own'
<1> DEFINE q == [id |-> sent + 1, kind |-> kind, at |-> "new"]
<1>1. /\ ev' = "wait" /\ sp_response' = NewResponse /\ UNCHANGED <<up, lines>>
      /\ cmd' = [id |-> sent + 1, kind |-> kind, timed |-> timed]
      /\ cause' = IF Owed \cup Arrived = {} THEN cause \cap {"overtaken"} ELSE cause
      /\ asked' = IF up[s_fd] THEN [asked EXCEPT ![s_fd] = Append(@, q)] ELSE asked
  BY DEF Issue
<1>2. s_fd # 0 /\ s_fd \in Open
  BY Bounds DEF Issue, Writable, Link, Open
<1>3. q \in AskedType /\ q.id = sent + 1
  <2>1. sent + 1 \in 1 .. MaxSent
    BY Bounds DEF Issue, Talk
  <2> QED
    BY <2>1, PlainKind DEF AskedType
<1>4. asked[s_fd] \in Seq(AskedType) /\ DOMAIN asked = Open
  BY <1>2 DEF Wire
<1> HIDE DEF q
<1>5. Settled'
  BY <1>1 DEF Settled
<1> SUFFICES ASSUME ~timed, Clean' PROVE OwnSoFar(Due', Coming', sent + 1, sp_response', cause')
  BY <1>1, <1>5 DEF Own
<1>6. Quiet(asked[s_fd], lines[s_fd])
  <2>1. Owed \cup Arrived = {} => Quiet(Due, Coming)
    BY QuietOwed
  <2>2. Owed \cup Arrived # {} => Quiet(Due, Coming)
    BY <1>1 DEF Settled, Clean
  <2> QED
    BY <1>2, <2>1, <2>2 DEF Due, Coming
<1>7. Coming' = lines[s_fd] /\ Due' = asked'[s_fd]
  BY <1>1, <1>2 DEF Coming, Due
<1>8. sp_response'.final = NoLine /\ DOMAIN sp_response'.infos = {}
  <2>1. DOMAIN <<>> = {}
    OBVIOUS
  <2> QED
    BY <1>1, <2>1 DEF NewResponse, NoResponse
<1>9. CASE up[s_fd]
  <2>1. Due' = Append(asked[s_fd], q)
    BY <1>1, <1>4, <1>7, <1>9, <1>2
  <2>2. \A i \in DOMAIN Due' : Due'[i].id = sent + 1
    BY <1>3, <1>4, <1>6, <2>1, AppendAt DEF Quiet
  <2>3. \A i \in DOMAIN Coming' : Coming'[i].own = 0
    BY <1>2, <1>6, <1>7, <1>9, QuietUp DEF InTurn
  <2> QED
    BY <1>8, <2>2, <2>3 DEF OwnSoFar, OwnOnly
<1>10. CASE ~up[s_fd]
  <2>1. Due' = asked[s_fd]
    BY <1>1, <1>7, <1>10
  <2> QED
    BY <1>6, <1>7, <1>8, <2>1 DEF OwnSoFar, OwnOnly, Quiet
<1> QED
  BY <1>9, <1>10

\* A channel of which one line is read goes on.
LEMMA ConsumedGoesOn ==
    ASSUME Wire, Link, NEW o \in Open, s_fd = o, UNCHANGED s_fd, lines[o] # <<>>, Consume(o),
           asked' = asked \/ WriteCtrlZ(o)
    PROVE  /\ Due = asked[o] /\ Coming = lines[o] /\ Due' = asked'[o] /\ Coming' = Tail(lines[o])
           /\ GoesOn(Due, Coming, Due', Coming')
<1>1. lines[o] \in Seq(LineType) /\ asked[o] \in Seq(AskedType) /\ lines'[o] = Tail(lines[o])
  BY DEF Wire, Consume
<1>2. s_fd # 0
  BY Bounds DEF Open
<1>3. /\ DOMAIN asked'[o] = DOMAIN asked[o]
      /\ \A i \in DOMAIN asked[o] : asked'[o][i].id = asked[o][i].id
  <2>1. CASE asked' = asked
    BY <2>1
  <2>2. CASE asked[o] # <<>> /\ asked' = [asked EXCEPT ![o][1].at = "data"]
    BY <1>1, <2>2 DEF Wire, AskedType
  <2> QED
    BY <2>1, <2>2 DEF WriteCtrlZ
<1>4. \A i \in DOMAIN Tail(lines[o]) : \E j \in DOMAIN lines[o] : Tail(lines[o])[i] = lines[o][j]
  BY <1>1, TailAt
<1>5. GoesOn(asked[o], lines[o], asked'[o], Tail(lines[o]))
  BY <1>3, <1>4 DEF GoesOn
<1> QED
  BY <1>1, <1>2, <1>5 DEF Due, Coming

\* The final line of a command that waits: nothing more is owed.
LEMMA FinalSettles ==
    ASSUME NEW a, NEW l \in Seq(LineType), l # <<>>, NEW live, Turn(a, l, live), NEW id,
           OwnOnly(a, l, id), IsFinal(l[1]), l[1].own # 0
    PROVE  l[1].own = id /\ DOMAIN a = {}
           /\ \A i \in DOMAIN Tail(l) : IsFinal(Tail(l)[i]) => Tail(l)[i].own = 0
<1>1. 1 \in DOMAIN l
      /\ \A i \in DOMAIN Tail(l) : i \in Nat /\ i + 1 \in DOMAIN l /\ Tail(l)[i] = l[i + 1]
  BY TailAt
<1>2. l[1].own = id
  BY <1>1 DEF OwnOnly
<1>3. \A k \in DOMAIN a : a[k].id # id
  BY <1>1, <1>2 DEF Turn, NotAnswered
<1>4. DOMAIN a = {}
  BY <1>3 DEF OwnOnly
<1>5. ASSUME NEW i \in DOMAIN Tail(l), IsFinal(Tail(l)[i]) PROVE Tail(l)[i].own = 0
  <2>1. i \in Nat /\ i + 1 \in DOMAIN l /\ Tail(l)[i] = l[i + 1] /\ IsFinal(l[i + 1])
    BY <1>1, <1>5
  <2>2. l[i + 1].own \in {0, id}
    BY <2>1 DEF OwnOnly
  <2>3. l[i + 1].own = id => i + 1 = 1
    BY <1>1, <1>2, <2>1 DEF Turn, NotAnswered
  <2>4. 0 \notin DOMAIN Tail(l)
    <3>1. Tail(l) \in Seq(LineType)
      BY HeadTailProperties
    <3> QED
      BY <3>1, LenProperties
  <2> QED
    BY <2>1, <2>2, <2>3, <2>4
<1> QED
  BY <1>2, <1>4, <1>5

LEMMA OwnRead ==
    ASSUME Link, Owner, Wire, Talk, InTurn, Settled, Own, NEW o \in Open, ReadLine(o)
    PROVE  Settled' /\ Own'
<1> DEFINE line == Head(lines[o])
<1>1. /\ reader[o] = "loop" /\ lines[o] # <<>> /\ Consume(o) /\ ProcessLine(o, line)
      /\ UNCHANGED <<s_fd, ev, cmd>>
  BY DEF ReadLine, ReadVars, evVars
<1>2. s_fd = o
  BY <1>1 DEF Owner
<1>3. asked' = asked \/ WriteCtrlZ(o)
  BY <1>1 DEF ProcessLine, Unsolicited, FinalLine, AddIntermediate
<1>4. /\ Due = asked[o] /\ Coming = lines[o] /\ Due' = asked'[o] /\ Coming' = Tail(lines[o])
      /\ GoesOn(Due, Coming, Due', Coming')
  BY <1>1, <1>2, <1>3, ConsumedGoesOn
<1>5. line \in LineType /\ line = lines[o][1] /\ 1 \in DOMAIN lines[o] /\ lines[o] \in Seq(LineType)
  <2>1. lines[o] \in Seq(LineType)
    BY DEF Wire
  <2> QED
    BY <1>1, <2>1, TailTyped
<1> HIDE DEF line
<1>6. cause \subseteq cause'
  BY <1>1 DEF ProcessLine, Unsolicited, FinalLine, AddIntermediate
<1>7. CASE sp_response' = sp_response
  BY <1>1, <1>4, <1>6, <1>7, OwnKept
<1>8. ASSUME sp_response.pending, \/ IsFinal(line) /\ FinalLine(line)
                                  \/ ~IsFinal(line) /\ TakesLine(line) /\ AddIntermediate(line)
      PROVE  Settled' /\ Own'
  <2>1. ev = "wait"
    BY <1>8 DEF Talk
  <2>2. Settled'
    BY <1>1, <2>1 DEF Settled
  <2> SUFFICES ASSUME ~cmd.timed, Clean'
               PROVE  OwnSoFar(Due', Coming', cmd.id, sp_response', cause')
    BY <1>1, <2>2 DEF Own
  <2>3. OwnSoFar(Due, Coming, cmd.id, sp_response, cause)
    BY <1>6, <1>8 DEF Own, Clean
  <2>4. OwnSoFar(Due', Coming', cmd.id, sp_response, cause')
    BY <1>4, <1>6, <2>3, OwnOn
  <2>5. sp_response \in [pending : BOOLEAN, final : LineType, infos : Seq(LineType)]
    BY DEF Talk
  <2>6. CASE IsFinal(line) /\ FinalLine(line)
    <3>1. sp_response'.final = line /\ sp_response'.infos = sp_response.infos
      BY <2>5, <2>6 DEF FinalLine
    <3>2. line.own # 0
      BY <2>6 DEF FinalLine, Blame, Clean
    <3>3. OwnOnly(asked[o], lines[o], cmd.id) /\ Turn(asked[o], lines[o], up[o])
      BY <1>4, <2>3 DEF OwnSoFar, InTurn
    <3>4. /\ line.own = cmd.id /\ DOMAIN asked[o] = {}
          /\ \A i \in DOMAIN Coming' : IsFinal(Coming'[i]) => Coming'[i].own = 0
      BY <1>1, <1>4, <1>5, <2>6, <3>2, <3>3, FinalSettles
    <3>5. DOMAIN Due' = {}
      BY <1>4, <3>4 DEF GoesOn
    <3>6. Quiet(Due', Coming')
      BY <3>4, <3>5 DEF Quiet
    <3>7. ~Quiet(Due, Coming)
      BY <1>4, <1>5, <2>6, <3>2 DEF Quiet
    <3>8. /\ \A i \in DOMAIN Coming' : Coming'[i].own \in {0, cmd.id}
          /\ \A i \in DOMAIN sp_response.infos :
                sp_response.infos[i].own = cmd.id \/ "prefix" \in cause'
      <4>1. /\ \A i \in DOMAIN Coming : Coming[i].own \in {0, cmd.id}
            /\ \A i \in DOMAIN sp_response.infos :
                  sp_response.infos[i].own = cmd.id \/ "prefix" \in cause
        BY <2>3, <3>7 DEF OwnSoFar
      <4>2. \A i \in DOMAIN Coming' : \E j \in DOMAIN Coming : Coming'[i] = Coming[j]
        BY <1>1, <1>4, <1>5, TailAt
      <4> QED
        BY <1>6, <4>1, <4>2
    <3> QED
      BY <2>4, <3>1, <3>4, <3>6, <3>8 DEF OwnSoFar
  <2>7. CASE ~IsFinal(line) /\ TakesLine(line) /\ AddIntermediate(line)
    <3>1. sp_response'.final = sp_response.final /\ sp_response'.infos = <<line>> \o sp_response.infos
      BY <2>5, <2>7 DEF AddIntermediate
    <3>2. line.own = 0 => "prefix" \in cause'
      BY <2>7 DEF AddIntermediate, TakesLine, Takes, Blame
    <3>3. \A i \in DOMAIN sp_response'.infos :
             \/ sp_response'.infos[i] = line
             \/ \E j \in DOMAIN sp_response.infos : sp_response'.infos[i] = sp_response.infos[j]
      <4>1. <<line>> \in Seq(LineType) /\ sp_response.infos \in Seq(LineType)
            /\ Len(<<line>>) = 1 /\ <<line>>[1] = line
        BY <1>5, <2>5
      <4> HIDE DEF line
      <4>2. LET s == <<line>>
                t == sp_response.infos
            IN  /\ s \o t \in Seq(LineType) /\ Len(s \o t) = Len(s) + Len(t)
                /\ \A i \in 1 .. Len(s) : (s \o t)[i] = s[i]
                /\ \A i \in 1 .. Len(t) : (s \o t)[Len(s) + i] = t[i]
        BY <4>1, ConcatProperties
      <4>3. Len(sp_response.infos) \in Nat /\ DOMAIN sp_response.infos = 1 .. Len(sp_response.infos)
        BY <4>1, LenProperties
      <4>4. DOMAIN sp_response'.infos = 1 .. (Len(sp_response.infos) + 1)
        BY <3>1, <4>1, <4>2, <4>3, LenProperties
      <4>5. \A i \in DOMAIN sp_response'.infos : i = 1 \/ i - 1 \in DOMAIN sp_response.infos
        BY <4>3, <4>4
      <4>6. \A i \in DOMAIN sp_response.infos : sp_response'.infos[1 + i] = sp_response.infos[i]
        BY <3>1, <4>1, <4>2, <4>3
      <4>7. sp_response'.infos[1] = line
        BY <3>1, <4>1, <4>2
      <4>8. \A i \in DOMAIN sp_response'.infos : 1 + (i - 1) = i
        BY <4>3, <4>4
      <4> QED
        BY <4>5, <4>6, <4>7, <4>8
    <3>4. CASE sp_response.final = NoLine /\ Quiet(Due', Coming')
      BY <2>4, <3>1, <3>4 DEF OwnSoFar
    <3>5. CASE Quiet(Due, Coming) /\ sp_response.final = NoLine
      BY <1>4, <3>4, <3>5, QuietOn
    <3>6. CASE /\ \A i \in DOMAIN Coming : Coming[i].own \in {0, cmd.id}
               /\ \A i \in DOMAIN sp_response.infos :
                     sp_response.infos[i].own = cmd.id \/ "prefix" \in cause
      <4>1. line.own \in {0, cmd.id}
        BY <1>4, <1>5, <3>6
      <4>2. \A i \in DOMAIN Coming' : Coming'[i].own \in {0, cmd.id}
        <5>1. \A i \in DOMAIN Coming' : \E j \in DOMAIN Coming : Coming'[i] = Coming[j]
          BY <1>1, <1>4, <1>5, TailAt
        <5> QED
          BY <3>6, <5>1
      <4>3. \A i \in DOMAIN sp_response'.infos :
               sp_response'.infos[i].own = cmd.id \/ "prefix" \in cause'
        BY <1>6, <3>2, <3>3, <3>6, <4>1
      <4> QED
        BY <2>4, <3>1, <4>2, <4>3 DEF OwnSoFar
    <3> QED
      BY <2>3, <3>5, <3>6 DEF OwnSoFar
  <2> QED
    BY <1>8, <2>6, <2>7
<1> QED
  BY <1>1, <1>7, <1>8 DEF ProcessLine, Unsolicited

\* The modem speaks, or hangs up.
LEMMA ModemGoesOn ==
    ASSUME Wire, Link, NEW o \in Open, UNCHANGED s_fd, Answers(o) \/ SendsUnasked(o) \/ HangsUp(o)
    PROVE  GoesOn(Due, Coming, Due', Coming')
<1>1. /\ lines \in [Open -> Seq(LineType)] /\ asked \in [Open -> Seq(AskedType)]
      /\ s_fd = 0 \/ s_fd \in Open
  BY Bounds DEF Wire, Link, Open
<1>2. ASSUME s_fd \in Open, GoesOn(asked[s_fd], lines[s_fd], asked'[s_fd], lines'[s_fd])
      PROVE  GoesOn(Due, Coming, Due', Coming')
  <2>1. s_fd # 0
    BY <1>2, Bounds DEF Open
  <2> QED
    BY <1>2, <2>1 DEF Due, Coming
<1>3. CASE s_fd = 0
  BY <1>3, NothingGoesOn DEF Due, Coming
<1>4. CASE s_fd \in Open /\ s_fd # o
  <2>1. asked'[s_fd] = asked[s_fd] /\ lines'[s_fd] = lines[s_fd]
    BY <1>1, <1>4 DEF Answers, SendsUnasked, HangsUp, Emit
  <2> QED
    BY <1>2, <1>4, <2>1 DEF GoesOn
<1>5. CASE s_fd = o /\ HangsUp(o)
  <2>1. asked'[o] = <<>> /\ lines'[o] = lines[o]
    BY <1>1, <1>5 DEF HangsUp
  <2>2. DOMAIN <<>> = {}
    OBVIOUS
  <2> QED
    BY <1>2, <1>5, <2>1, <2>2 DEF GoesOn
<1>6. CASE s_fd = o /\ SendsUnasked(o)
  <2>1. PICK text \in Unasked : Emit(o, text, 0)
    BY <1>6 DEF SendsUnasked
  <2>2. Line(text, 0) \in LineType /\ Line(text, 0).own = 0
    <3>1. 0 \in 0 .. MaxSent /\ text \in Text
      BY Bounds
    <3> QED
      BY <3>1 DEF Line, LineType
  <2>3. lines'[o] = Append(lines[o], Line(text, 0)) /\ asked'[o] = asked[o]
    BY <1>1, <1>6, <2>1 DEF SendsUnasked, Emit
  <2>4. \A i \in DOMAIN lines'[o] :
           lines'[o][i].own = 0 \/ \E j \in DOMAIN lines[o] : lines'[o][i] = lines[o][j]
    BY <1>1, <2>2, <2>3, AppendAt
  <2> QED
    BY <1>2, <1>6, <2>3, <2>4 DEF GoesOn
<1>7. CASE s_fd = o /\ Answers(o)
  <2> DEFINE q == Head(asked[o])
  <2>1. asked[o] # <<>> /\ asked[o] \in Seq(AskedType)
    BY <1>1, <1>7 DEF Answers
  <2>2. q \in AskedType /\ q = asked[o][1] /\ 1 \in DOMAIN asked[o]
    BY <2>1, TailTyped
  <2>3. PICK text \in {"prompt", "ok", "error", q.kind} : Emit(o, text, q.id)
    BY <1>7 DEF Answers
  <2>4. \/ asked'[o] = Tail(asked[o])
        \/ /\ DOMAIN asked'[o] = DOMAIN asked[o]
           /\ \A i \in DOMAIN asked[o] : asked'[o][i].id = asked[o][i].id
    <3>1. CASE asked' = [asked EXCEPT ![o] = Tail(@)]
      BY <1>1, <3>1
    <3>2. ASSUME NEW at \in {"pdu", "more", "end"}, asked' = [asked EXCEPT ![o][1].at = at]
          PROVE  /\ DOMAIN asked'[o] = DOMAIN asked[o]
                 /\ \A i \in DOMAIN asked[o] : asked'[o][i].id = asked[o][i].id
      BY <1>1, <2>1, <3>2 DEF AskedType
    <3> QED
      BY <1>7, <3>1, <3>2 DEF Answers
  <2>5. \A i \in DOMAIN asked'[o] : \E j \in DOMAIN asked[o] : asked'[o][i].id = asked[o][j].id
    <3>1. CASE asked'[o] = Tail(asked[o])
      BY <2>1, <3>1, TailAt
    <3>2. CASE /\ DOMAIN asked'[o] = DOMAIN asked[o]
               /\ \A i \in DOMAIN asked[o] : asked'[o][i].id = asked[o][i].id
      BY <3>2
    <3> QED
      BY <2>4, <3>1, <3>2
  <2>6. Line(text, q.id) \in LineType /\ Line(text, q.id).own = asked[o][1].id
    <3>1. q.kind \in Text /\ {"prompt", "ok", "error"} \subseteq Text /\ q.id \in 0 .. MaxSent
      BY <2>2, Bounds DEF AskedType, Text
    <3> QED
      BY <2>2, <3>1 DEF Line, LineType
  <2>7. lines'[o] = Append(lines[o], Line(text, q.id))
    BY <1>1, <2>3 DEF Emit
  <2> HIDE DEF q
  <2>8. \A i \in DOMAIN lines'[o] :
           \/ lines'[o][i].own = asked[o][1].id
           \/ \E j \in DOMAIN lines[o] : lines'[o][i] = lines[o][j]
    BY <1>1, <2>6, <2>7, AppendAt
  <2> QED
    BY <1>2, <1>7, <2>2, <2>5, <2>8 DEF GoesOn
<1> QED
  BY <1>1, <1>3, <1>4, <1>5, <1>6, <1>7

\* What AnswerOwn says of a step; only a command that returns can break it.
OwnAnswer ==
    last'.err = "none" /\ ~last'.of.timed /\ last'.of # NoCommand =>
        /\ last'.final.own = last'.of.id \/ cause \cap {"unmatched", "carrier"} # {}
        /\ \A i \in DOMAIN last'.infos :
               \/ last'.infos[i].own = last'.of.id
               \/ cause \cap {"unmatched", "carrier", "prefix"} # {}

\* A command returns: AnswerOwn is what the invariant says of its response.
LEMMA OwnReturn ==
    ASSUME Talk, ClosedFd, Own, Return
    PROVE  Settled' /\ Own' /\ OwnAnswer
<1>1. /\ ev = "wait" /\ sp_response.pending /\ (Complete \/ s_readerClosed)
      /\ last' = Returned /\ sp_response' = NoResponse
      /\ ev' = IF cmd.timed /\ ~s_readerClosed THEN "pause" ELSE After(cmd.timed)
      /\ UNCHANGED <<s_fd, s_readerClosed, lines, asked, cause>>
  BY DEF Return, Clear, fdVars, modemVars
<1>2. Due' = Due /\ Coming' = Coming /\ Clean' = Clean
  BY <1>1 DEF Due, Coming, Clean
<1>3. s_readerClosed => Quiet(Due, Coming)
  <2>1. DOMAIN <<>> = {}
    OBVIOUS
  <2> QED
    BY <2>1 DEF ClosedFd, Due, Coming, Quiet
<1>4. ~cmd.timed /\ Clean => OwnSoFar(Due, Coming, cmd.id, sp_response, cause)
  BY <1>1 DEF Own
<1>5. ev' \in {"idle", "work"} => ~cmd.timed
  BY <1>1 DEF After
<1>6. Settled'
  BY <1>1, <1>2, <1>3, <1>4, <1>5 DEF Settled, OwnSoFar, Complete
<1>7. Own'
  BY <1>1 DEF Own, NoResponse
<1>8. ASSUME last'.err = "none", ~last'.of.timed
      PROVE  /\ last'.final.own = last'.of.id \/ cause \cap {"unmatched", "carrier"} # {}
             /\ \A i \in DOMAIN last'.infos :
                    \/ last'.infos[i].own = last'.of.id
                    \/ cause \cap {"unmatched", "carrier", "prefix"} # {}
  <2>1. ~s_readerClosed /\ Complete
    BY <1>1, <1>8 DEF Returned, Result
  <2>2. /\ last'.of = cmd /\ last'.final = sp_response.final
        /\ last'.infos = Reversed(sp_response.infos)
    BY <1>1, <2>1 DEF Returned, Result
  <2>3. CASE Clean
    <3>1. OwnSoFar(Due, Coming, cmd.id, sp_response, cause)
      BY <1>4, <1>8, <2>2, <2>3
    <3>2. /\ sp_response.final.own = cmd.id
          /\ \A i \in DOMAIN sp_response.infos : sp_response.infos[i].own = cmd.id \/ "prefix" \in cause
      BY <2>1, <3>1 DEF OwnSoFar, Complete
    <3>3. \A i \in DOMAIN last'.infos : \E j \in DOMAIN sp_response.infos :
             last'.infos[i] = sp_response.infos[j]
      <4>1. /\ DOMAIN sp_response.infos = 1 .. Len(sp_response.infos) /\ Len(sp_response.infos) \in Nat
        <5>1. sp_response.infos \in Seq(LineType)
          BY DEF Talk
        <5> QED
          BY <5>1, LenProperties
      <4>2. last'.infos = [i \in DOMAIN sp_response.infos |->
                              sp_response.infos[Len(sp_response.infos) + 1 - i]]
        BY <2>2 DEF Reversed
      <4>3. \A i \in DOMAIN sp_response.infos :
               Len(sp_response.infos) + 1 - i \in DOMAIN sp_response.infos
        BY <4>1
      <4> QED
        BY <4>2, <4>3
    <3> QED
      BY <2>2, <3>2, <3>3
  <2>4. CASE ~Clean
    BY <2>4 DEF Clean
  <2> QED
    BY <2>3, <2>4
<1> QED
  BY <1>6, <1>7, <1>8 DEF OwnAnswer

LEMMA NoAnswer ==
    ASSUME last'.err # "none" \/ last'.of = NoCommand PROVE OwnAnswer
  BY DEF OwnAnswer

LEMMA OwnStep ==
    ASSUME IInv, InTurn, Settled, Own, ClosedFd, Next
    PROVE  Settled' /\ Own' /\ ClosedFd' /\ OwnAnswer
<1> USE DEF IInv
<1>1. ASSUME NEW kind \in Kinds \cup {"plain"}, NEW timed \in BOOLEAN,
             Issue(kind, timed) \/ IssueFails(timed),
             UNCHANGED fdVars, timed \/ ev \in {"idle", "work"}
      PROVE  Settled' /\ Own' /\ ClosedFd' /\ OwnAnswer
  <2>1. ClosedFd'
    BY <1>1 DEF fdVars, ClosedFd
  <2>2. CASE Issue(kind, timed)
    <3>1. OwnAnswer
      BY <2>2, NoAnswer DEF Issue, NoResult, Result
    <3> QED
      BY <1>1, <2>1, <2>2, <3>1, OwnIssue DEF fdVars
  <2>3. CASE IssueFails(timed)
    <3>1. /\ sp_response' = NoResponse /\ ev' = After(timed)
          /\ UNCHANGED <<s_fd, lines, asked, cause>>
      BY <1>1, <2>3 DEF IssueFails, Clear, fdVars, modemVars
    <3>2. OwnAnswer
      BY <2>3, NoAnswer DEF IssueFails, Result
    <3>3. Due' = Due /\ Coming' = Coming /\ Clean' = Clean
      BY <3>1 DEF Due, Coming, Clean
    <3>4. ev' \in {"idle", "work"} => ev \in {"idle", "work"}
      BY <1>1, <3>1 DEF After
    <3>5. Settled' /\ Own'
      BY <3>1, <3>3, <3>4 DEF Settled, Own, NoResponse
    <3> QED
      BY <2>1, <3>2, <3>5
  <2> QED
    BY <1>1, <2>2, <2>3
<1>2. CASE ShakeAttempt
  BY <1>1, <1>2 DEF ShakeAttempt
<1>3. CASE SendCommand
  BY <1>1, <1>3 DEF SendCommand
<1>4. CASE Return
  <2>1. ClosedFd'
    BY <1>4 DEF Return, fdVars, ClosedFd
  <2> QED
    BY <1>4, <2>1, OwnReturn
<1>5. CASE TimeOut
  <2>1. sp_response' = NoResponse /\ ev' = "shake" /\ UNCHANGED fdVars
    BY <1>5 DEF TimeOut, Clear
  <2>2. OwnAnswer
    BY <1>5, NoAnswer DEF TimeOut, Result
  <2>3. Settled' /\ Own' /\ ClosedFd'
    BY <2>1 DEF Settled, Own, ClosedFd, NoResponse, fdVars
  <2> QED
    BY <2>2, <2>3
<1>6. ASSUME last' = NoResult PROVE OwnAnswer
  BY <1>6, NoAnswer DEF NoResult, Result
<1>7. ASSUME UNCHANGED <<s_fd, s_readerClosed, lines, asked, cmd, sp_response>>,
             ev' \in {"idle", "work"} => ev \in {"idle", "work"}, cause \subseteq cause'
      PROVE  Settled' /\ Own' /\ ClosedFd'
  BY <1>7, SameChannel, OwnKept DEF ClosedFd
<1>8. ASSUME StartInit \/ InitEnds \/ WaitAgain \/ NullResponse PROVE  Settled' /\ Own' /\ ClosedFd'
  <2>1. UNCHANGED <<s_fd, s_readerClosed, lines, asked, cmd, sp_response, cause>>
    BY <1>8 DEF StartInit, InitEnds, WaitAgain, NullResponse, fdVars, respVars, evVars, modemVars
  <2>2. ev' \in {"idle", "work"} => ev \in {"idle", "work"}
    BY <1>8 DEF StartInit, InitEnds, WaitAgain, NullResponse, evVars
  <2> QED
    BY <1>7, <2>1, <2>2
<1>9. ASSUME ShakeEnds PROVE  Settled' /\ Own' /\ ClosedFd'
  <2>1. /\ UNCHANGED <<s_fd, s_readerClosed, lines, asked, cmd, sp_response>> /\ ev' = "work"
        /\ cause' = cause \cup Blame("unmatched", Owed \cup Arrived # {})
        /\ ev \in {"pause", "shake"}
    BY <1>9 DEF ShakeEnds, fdVars, respVars, modemVars
  <2>2. ~sp_response'.pending
    BY <2>1 DEF Talk
  <2>3. Clean' => Quiet(Due, Coming)
    BY <2>1, QuietOwed DEF Clean, Blame
  <2>4. Settled' /\ Own'
    <3>1. Due' = Due /\ Coming' = Coming
      BY <2>1, SameChannel
    <3>2. Clean' => Quiet(Due', Coming')
      BY <2>3, <3>1
    <3> QED
      BY <2>2, <3>2, OwnNone
  <2> QED
    BY <2>1, <2>4 DEF ClosedFd
<1>10. ASSUME NEW o \in Open, ReadLine(o) PROVE Settled' /\ Own' /\ ClosedFd'
  BY <1>10, OwnRead DEF ReadLine, ReadVars, ClosedFd
<1>11. ASSUME NEW o \in Open, ReadSms(o) \/ ReadLeftover(o) PROVE Settled' /\ Own' /\ ClosedFd'
  <2>1. /\ reader[o] = "loop" /\ lines[o] # <<>> /\ (lines' = lines \/ Consume(o))
        /\ UNCHANGED <<s_fd, s_readerClosed, ev, cmd, sp_response, asked>> /\ cause \subseteq cause'
    BY <1>11 DEF ReadSms, ReadLeftover, ReadVars, evVars, respVars
  <2>2. CASE lines' = lines
    BY <1>7, <2>1, <2>2
  <2>3. CASE Consume(o)
    <3>1. s_fd = o
      BY <2>1 DEF Owner
    <3>2. GoesOn(Due, Coming, Due', Coming')
      BY <2>1, <2>3, <3>1, ConsumedGoesOn
    <3> QED
      BY <2>1, <3>2, OwnKept DEF ClosedFd
  <2> QED
    BY <2>1, <2>2, <2>3
<1>12. ASSUME NEW o \in Open, OnReaderClosed(o) PROVE Settled' /\ Own' /\ ClosedFd'
  <2>1. s_fd' = 0 /\ UNCHANGED <<ev, cmd, sp_response, cause>>
    BY <1>12 DEF OnReaderClosed, KeptAtClose, evVars
  <2>2. Due' = <<>> /\ Coming' = <<>>
    BY <2>1 DEF Due, Coming
  <2>3. GoesOn(Due, Coming, Due', Coming')
    BY <2>2, NothingGoesOn
  <2> QED
    BY <2>1, <2>3, OwnKept DEF ClosedFd
<1>13. ASSUME NEW o \in Open, TellClosed(o) \/ TellState(o) PROVE Settled' /\ Own' /\ ClosedFd'
  BY <1>7, <1>13 DEF TellClosed, TellState, fdVars, respVars, evVars, modemVars
<1>14. ASSUME Reopen PROVE  Settled' /\ Own' /\ ClosedFd'
  <2>1. /\ s_fd' = opened' /\ opened' = opened + 1 /\ s_readerClosed' = FALSE
        /\ opened \in Nat /\ opened + 1 \in Open
        /\ cause' = (IF ev = "wait" THEN cause ELSE {})
                    \cup Blame("overtaken", \E o \in Open : reader[o] = "state")
        /\ UNCHANGED <<ev, cmd, sp_response, lines, asked>>
    BY <1>14, Bounds DEF Reopen, Link, Open, evVars, respVars
  <2>2. asked[opened + 1] = <<>> /\ lines[opened + 1] = <<>>
    BY <2>1 DEF InTurn
  <2>3. Due' = <<>> /\ Coming' = <<>>
    BY <2>1, <2>2 DEF Due, Coming
  <2>4. GoesOn(Due, Coming, Due', Coming')
    BY <2>3, NothingGoesOn
  <2>5. DOMAIN <<>> = {}
    OBVIOUS
  <2>6. Quiet(Due', Coming')
    BY <2>3, <2>5 DEF Quiet
  <2>7. CASE ev = "wait"
    <3>1. cause \subseteq cause'
      BY <2>1, <2>7
    <3> QED
      BY <2>1, <2>4, <3>1, OwnKept DEF ClosedFd
  <2>8. CASE ev # "wait"
    <3>1. ~sp_response'.pending
      BY <2>1, <2>8 DEF Talk
    <3> QED
      BY <2>1, <2>6, <3>1, OwnNone DEF ClosedFd
  <2> QED
    BY <2>7, <2>8
<1>15. ASSUME ResetPending PROVE  Settled' /\ Own' /\ ClosedFd'
  <2>1. /\ sp_response' = NoResponse /\ cause \subseteq cause'
        /\ UNCHANGED <<s_fd, s_readerClosed, ev, lines, asked>>
    BY <1>15 DEF ResetPending, fdVars, evVars, modemVars
  <2>2. ~sp_response'.pending
    BY <2>1 DEF NoResponse
  <2>3. Due' = Due /\ Coming' = Coming
    BY <2>1, SameChannel
  <2>4. Clean' => Clean
    BY <2>1 DEF Clean
  <2>5. ev' \in {"idle", "work"} /\ Clean' => Quiet(Due', Coming')
    BY <2>1, <2>3, <2>4 DEF Settled
  <2>6. Settled' /\ Own'
    BY <2>2, <2>5, OwnNone
  <2> QED
    BY <2>1, <2>6 DEF ClosedFd
<1>16. ASSUME SleepEnds PROVE  Settled' /\ Own' /\ ClosedFd'
  BY <1>7, <1>16 DEF SleepEnds, fdVars, respVars, evVars, modemVars
<1>17. ASSUME NEW o \in Open, Answers(o) \/ SendsUnasked(o) \/ HangsUp(o)
       PROVE  Settled' /\ Own' /\ ClosedFd'
  <2>1. UNCHANGED <<s_fd, s_readerClosed, ev, cmd, sp_response, cause>>
    BY <1>17 DEF Answers, SendsUnasked, HangsUp, fdVars, respVars, evVars
  <2>2. GoesOn(Due, Coming, Due', Coming')
    BY <1>17, <2>1, ModemGoesOn
  <2> QED
    BY <2>1, <2>2, OwnKept DEF ClosedFd
<1> QED
  BY <1>2, <1>3, <1>4, <1>5, <1>6, <1>8, <1>9, <1>10, <1>11, <1>12, <1>13, <1>14, <1>15, <1>16, <1>17
  DEF Next, Returning, EventThread, ReaderThread, MainThread, Modem

(* A command that succeeds was answered by its own final line and given    *)
(* its own intermediate lines, unless a handshake left answers behind or a *)
(* line of the modem's own looked like one of the answer (processLine,     *)
(* at_handshake).                                                          *)
THEOREM ChannelAnswerOwn == Spec => AnswerOwn
<1>1. Init => IInv /\ InTurn /\ Settled /\ Own /\ ClosedFd
  <2> SUFFICES ASSUME Init PROVE InTurn /\ Settled /\ Own /\ ClosedFd
    BY InitInv
  <2>1. DOMAIN <<>> = {}
    OBVIOUS
  <2>2. Due = <<>> /\ Coming = <<>> /\ ClosedFd /\ ~sp_response.pending
    BY DEF Init, Due, Coming, ClosedFd, NoResponse
  <2>3. Settled /\ Own
    BY <2>1, <2>2 DEF Settled, Own, Quiet
  <2>4. \A o \in Open : asked[o] = <<>> /\ lines[o] = <<>> /\ up[o] = FALSE
    BY DEF Init
  <2>5. \A o \in Open : Turn(asked[o], lines[o], up[o]) /\ OfSent(asked[o], lines[o], sent)
    BY <2>1, <2>4 DEF Turn, NotAnswered, OfSent
  <2>6. InTurn
    BY <2>4, <2>5 DEF InTurn, Init
  <2> QED
    BY <2>2, <2>3, <2>6
<1>2. IInv /\ [Next]_vars => IInv'
  BY NextInv
<1>3. IInv /\ IInv' /\ InTurn /\ [Next]_vars => InTurn'
  BY InTurnStep, InTurnOn DEF IInv, vars, mainVars, evVars, modemVars
<1>4. IInv /\ InTurn /\ Settled /\ Own /\ ClosedFd /\ [Next]_vars => Settled' /\ Own' /\ ClosedFd'
  <2>1. ASSUME Settled, Own, ClosedFd, UNCHANGED vars PROVE Settled' /\ Own' /\ ClosedFd'
    BY <2>1, SameChannel, OwnKept DEF vars, fdVars, respVars, evVars, modemVars, ClosedFd
  <2> QED
    BY <2>1, OwnStep
<1>5. IInv /\ InTurn /\ Settled /\ Own /\ ClosedFd /\ [Next]_vars => [OwnAnswer]_vars
  BY OwnStep
<1>6. [OwnAnswer]_vars =>
      [(last'.err = "none" /\ ~last'.of.timed /\ last'.of # NoCommand) =>
        /\ last'.final.own = last'.of.id \/ cause \cap {"unmatched", "carrier"} # {}
        /\ \A i \in DOMAIN last'.infos :
               \/ last'.infos[i].own = last'.of.id
               \/ cause \cap {"unmatched", "carrier", "prefix"} # {}]_vars
  BY DEF OwnAnswer
<1> QED
  BY <1>1, <1>2, <1>3, <1>4, <1>5, <1>6, PTL DEF Spec, AnswerOwn

=============================================================================
