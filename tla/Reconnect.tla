------------------------------- MODULE Reconnect -------------------------------
(***************************************************************************)
(* What Runner.Run (internal/session/session.go) promises of the life of   *)
(* the connector, with a session reduced to "up": connect for ever, back   *)
(* off between attempts by how many have failed since a session last came  *)
(* up, and stop when the context is cancelled.  Session implements it.     *)
(***************************************************************************)
EXTENDS Integers

CONSTANT
    MaxAttempt      \* attempt is counted up to this bound

VARIABLES
    phase,      \* "connecting", "up", "waiting" (backing off) or "stopped"
    attempt,    \* failures in a row, the end of a session being the first
    stopping    \* the context has been cancelled

vars == <<phase, attempt, stopping>>

--------------------------------------------------------------------------------
Lesser(i, j) == IF i < j THEN i ELSE j

(* In units of 100 ms: 500 ms and 60 s. *)
BackoffMin == 5
BackoffMax == 600
MaxShift   == 12

(* backoff(n): a random delay in [backoffMin, backoffMin + d) *)
BackoffDelays(n) ==
    LET d == Lesser(BackoffMin * 2^Lesser(n - 1, MaxShift), BackoffMax)
    IN  BackoffMin .. BackoffMin + d - 1

Counted(n) == Lesser(n, MaxAttempt)

Init ==
    /\ phase = "connecting"
    /\ attempt = 0
    /\ stopping = FALSE

Connected ==
    /\ phase = "connecting"
    /\ phase' = "up"
    /\ UNCHANGED <<attempt, stopping>>

ConnectFails ==
    /\ phase = "connecting"
    /\ ~stopping
    /\ phase' = "waiting"
    /\ attempt' = Counted(attempt + 1)
    /\ UNCHANGED stopping

(* A session that came up resets the count, and its end counts as one. *)
SessionEnds ==
    /\ phase = "up"
    /\ ~stopping
    /\ phase' = "waiting"
    /\ attempt' = 1
    /\ UNCHANGED stopping

Retry ==
    /\ phase = "waiting"
    /\ phase' = "connecting"
    /\ UNCHANGED <<attempt, stopping>>

Cancel ==
    /\ stopping' = TRUE
    /\ UNCHANGED <<phase, attempt>>

Stop ==
    /\ stopping
    /\ phase' = "stopped"
    /\ UNCHANGED <<attempt, stopping>>

Next == Connected \/ ConnectFails \/ SessionEnds \/ Retry \/ Cancel \/ Stop

Spec == Init /\ [][Next]_vars
================================================================================
