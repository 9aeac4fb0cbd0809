----------------------------- MODULE AtCommand -----------------------------
(***************************************************************************)
(* What at_send_command() and at_handshake() promise their caller: one     *)
(* call at a time; it returns once, with the last final line heard while   *)
(* it lasted and, in the order they came, the intermediate lines it takes, *)
(* or with an error of the channel.  AtChannel implements it.              *)
(***************************************************************************)
EXTENDS AtLines

VARIABLES
    call,   \* the call in progress: [id, kind, timed], or NoCall
    heard,  \* the lines read while it waited
    last    \* what the last call returned

NoCall == [id |-> 0, kind |-> "plain", timed |-> FALSE]
Busy == call # NoCall
Result(of, err, final, infos) == [of |-> of, err |-> err, final |-> final, infos |-> infos]
NoResult == Result(NoCall, "none", NoLine, <<>>)

\* The final line that was heard last.
LastFinal(line) ==
    \E i \in DOMAIN heard :
       /\ heard[i] = line /\ IsFinal(line)
       /\ \A j \in DOMAIN heard : j > i => ~IsFinal(heard[j])

\* The lines that fit, in their order: all for a MULTILINE command, the first
\* for the others.  Where the lines were heard is what "at" tells.
Fits(i) == Takes(call.kind, <<>>, heard[i])
TakesAll == TypeOf(call.kind) = "MULTILINE"
Fitting(infos) ==
    \E at \in [DOMAIN infos -> DOMAIN heard] :
       /\ \A m \in DOMAIN infos : infos[m] = heard[at[m]] /\ Fits(at[m])
       /\ \A m, n \in DOMAIN infos : m < n => at[m] < at[n]
       /\ \A i \in DOMAIN heard : Fits(i) =>
             \E m \in DOMAIN infos : at[m] = i \/ (~TakesAll /\ at[m] < i)
       /\ TakesAll \/ Len(infos) < 2

Init == call = NoCall /\ heard = <<>> /\ last = NoResult

Ask == /\ ~Busy /\ Busy'
       /\ heard' = <<>> /\ last' = NoResult

\* The channel is closed or fails: nothing was written.
Refuse == /\ ~Busy /\ ~Busy'
          /\ last'.err \in {"closed", "generic"} /\ last'.infos = <<>>
          /\ heard' = <<>>

Hear == /\ Busy
        /\ Len(heard') = Len(heard) + 1 /\ SubSeq(heard', 1, Len(heard)) = heard
        /\ UNCHANGED call /\ last' = NoResult

\* What a call returned is history: it lasts one step.
Forget == last' = NoResult /\ UNCHANGED <<call, heard>>

Return(err, final, infos) ==
    /\ Busy /\ call' = NoCall /\ heard' = <<>>
    /\ last' = Result(call, err, final, infos)

Answer == /\ LastFinal(last'.final) /\ Fitting(last'.infos)
          /\ Return(Verdict(call.kind, last'.final, last'.infos), last'.final, last'.infos)

\* Only the handshake waits with a limit.
Abandon == \/ Return("closed", NoLine, <<>>)
           \/ call.timed /\ Return("timeout", NoLine, <<>>)

Next == Ask \/ Refuse \/ Hear \/ Forget \/ Answer \/ Abandon

Spec == Init /\ [][Next]_<<call, heard, last>>
=============================================================================
