--------------------------- MODULE ThermShutdown ---------------------------
(***************************************************************************)
(* The thermal auto-shutdown mode during an eCall (ThermClient.cpp).       *)
(*                                                                         *)
(* The mode is disabled when the call starts and enabled when it is        *)
(* cleared.  The service enables it again by itself when it has been       *)
(* disabled for too long, or says that it is about to; the listener then   *)
(* disables it once more, if shutdownAllowed_ is still FALSE.              *)
(***************************************************************************)
EXTENDS Integers

CONSTANT MaxReenable    \* bound: times the service enables the mode, or warns

ASSUME ThermAssumption == MaxReenable \in Nat

VARIABLES
    shutdownAllowed_,   \* ThermClient
    registered,         \* the listener is registered
    mode,               \* service: "enabled" or "disabled"
    notice,             \* service: an event the listener has yet to be called for
    thermPc,            \* the listener: "idle", or "disable" after its test
    reenables,          \* events of the service so far
    thermCause          \* history: what may part the mode from the call

thermVars == <<shutdownAllowed_, registered, mode, notice, thermPc, reenables, thermCause>>

ThermInit ==
    /\ shutdownAllowed_ = TRUE /\ registered = FALSE /\ mode = "enabled"
    /\ notice = FALSE /\ thermPc = "idle" /\ reenables = 0 /\ thermCause = {}

ThermTypeOK ==
    /\ shutdownAllowed_ \in BOOLEAN /\ registered \in BOOLEAN
    /\ mode \in {"enabled", "disabled"} /\ notice \in BOOLEAN
    /\ thermPc \in {"idle", "disable"} /\ reenables \in 0 .. MaxReenable
    /\ thermCause \in SUBSET {"refused", "overtaken"}

\* A command that the service refuses; the bound is one.
ThermRefused ==
    /\ "refused" \notin thermCause
    /\ thermCause' = thermCause \cup {"refused"}

-----------------------------------------------------------------------------
(* The methods, called by the eCall manager.                               *)

\* disableAutoShutdown(): a command that cannot be sent is undone.
DisableAutoShutdown ==
    /\ \/ /\ shutdownAllowed_' = FALSE /\ registered' = TRUE /\ mode' = "disabled"
          /\ UNCHANGED thermCause
       \/ /\ shutdownAllowed_' = TRUE /\ registered' = FALSE
          /\ ThermRefused
          /\ UNCHANGED mode
    /\ UNCHANGED <<notice, thermPc, reenables>>

\* shutdownAllowed_ once the call is cleared.
AllowedAfterCall == TRUE

\* enableAutoShutdown().  The listener is still registered when the service
\* carries the command out, and is told of it.
EnableAutoShutdown ==
    /\ shutdownAllowed_' = AllowedAfterCall /\ registered' = FALSE
    /\ \/ /\ mode' = "enabled" /\ notice' = (notice \/ (registered /\ mode = "disabled"))
          /\ thermCause' = IF thermPc = "disable" THEN thermCause \cup {"overtaken"}
                           ELSE thermCause
       \/ ThermRefused /\ UNCHANGED <<mode, notice>>
    /\ UNCHANGED <<thermPc, reenables>>

-----------------------------------------------------------------------------
(* The listener and the service.                                           *)

\* onShutdownEnabled() and onImminentShutdownEnablement(): the test ...
AnswerNever == FALSE
MustDisable == ~shutdownAllowed_

OnShutdownEnabled ==
    /\ notice /\ thermPc = "idle"
    /\ notice' = FALSE /\ thermPc' = IF MustDisable THEN "disable" ELSE "idle"
    /\ UNCHANGED <<shutdownAllowed_, registered, mode, reenables, thermCause>>

\* ... and the command.
SendDisable ==
    /\ thermPc = "disable" /\ thermPc' = "idle"
    /\ \/ mode' = "disabled" /\ UNCHANGED thermCause
       \/ ThermRefused /\ UNCHANGED mode
    /\ UNCHANGED <<shutdownAllowed_, registered, notice, reenables>>

\* The service enables the mode by itself, or warns that it will.
Reenable ==
    /\ mode = "disabled" /\ reenables < MaxReenable
    /\ mode' \in {"enabled", "disabled"} /\ reenables' = reenables + 1
    /\ notice' = (notice \/ registered)
    /\ UNCHANGED <<shutdownAllowed_, registered, thermPc, thermCause>>

ThermListener == OnShutdownEnabled \/ SendDisable

=============================================================================
