------------------------------ MODULE AtLines ------------------------------
(***************************************************************************)
(* The lines of the AT channel (reference-ril/atchannel.c): what the       *)
(* modem's text is to the command that waits.  A line keeps the classes    *)
(* the code tells apart and, as history, the command it answers.           *)
(***************************************************************************)
EXTENDS Naturals, Sequences

\* Kinds of command, named after one the RIL sends of each sort.
Kind == {"plain", "imei", "creg", "sms", "clcc"}

\* ATCommandType: what at_send_command and its siblings expect.
TypeOf(kind) == CASE kind = "plain" -> "NO_RESULT"
                  [] kind = "imei" -> "NUMERIC"
                  [] kind \in {"creg", "sms"} -> "SINGLELINE"
                  [] kind = "clcc" -> "MULTILINE"

\* A line: its text, and the command that made the modem send it (0: none).
\* The text of an intermediate line is the kind of command it fits.
Text == Kind \cup {"ok", "error", "carrier", "prompt", "cfun", "cmt", "junk"}
Line(text, own) == [text |-> text, own |-> own]
NoLine == Line("junk", 0)

\* isFinalResponse(): "NO CARRIER" counts, though it is "sometimes" unsolicited.
IsFinal(line) == line.text \in {"ok", "error", "carrier"}
Success(line) == line.text = "ok"

\* Whether a command takes one more intermediate line, of those it has.
TakesAny(kind, had, line) ==
    TypeOf(kind) # "NO_RESULT" /\ (TypeOf(kind) = "MULTILINE" \/ had = <<>>)
Takes(kind, had, line) ==
    /\ TypeOf(kind) # "NO_RESULT"
    /\ line.text = kind
    /\ TypeOf(kind) = "MULTILINE" \/ had = <<>>

\* A success without the intermediate line the command must have.
MustInform(kind) == TypeOf(kind) \in {"NUMERIC", "SINGLELINE"}
Verdict(kind, final, infos) ==
    IF MustInform(kind) /\ Success(final) /\ infos = <<>> THEN "invalid" ELSE "none"
=============================================================================
