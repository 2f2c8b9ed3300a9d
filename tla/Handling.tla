-------------------------------- MODULE Handling --------------------------------
(***************************************************************************)
(* What Runner.handle (internal/session/session.go) promises of commands,  *)
(* with everything between the frame and the result reduced to "running":  *)
(* a command runs only if it is permitted, gets one result, which never    *)
(* changes, and whoever asked is told no more than what was logged before. *)
(* Session implements it for all commands of a process, Command for one    *)
(* whose claim was granted.                                                *)
(***************************************************************************)

CONSTANTS
    Commands,   \* the commands
    Claimed     \* whether their ids have been claimed, so none is a duplicate

VARIABLES
    permitted,  \* permitted[f]: vocab.Resolve admits f
    phase,      \* phase[f]: "waiting", "running" or "settled"
    result,     \* result[f]: the status of its result, "none" before
    logged,     \* logged[f]: the status in its audit line
    told        \* told[f]: the status written to the connection

vars == <<permitted, phase, result, logged, told>>

ToolResults == {"ok", "error", "timeout"}

Init ==
    /\ permitted \in [Commands -> BOOLEAN]
    /\ phase  = [f \in Commands |-> "waiting"]
    /\ result = [f \in Commands |-> "none"]
    /\ logged = [f \in Commands |-> "none"]
    /\ told   = [f \in Commands |-> "none"]

--------------------------------------------------------------------------------
(* Without an id, a duplicate, or not permitted *)
Refuse(f) ==
    /\ phase[f] = "waiting"
    /\ Claimed => ~permitted[f]
    /\ phase'  = [phase EXCEPT ![f] = "settled"]
    /\ result' = [result EXCEPT ![f] = "denied"]
    /\ UNCHANGED <<permitted, logged, told>>

Run(f) ==
    /\ phase[f] = "waiting"
    /\ permitted[f]
    /\ phase' = [phase EXCEPT ![f] = "running"]
    /\ UNCHANGED <<permitted, result, logged, told>>

Return(f) ==
    /\ phase[f] = "running"
    /\ phase' = [phase EXCEPT ![f] = "settled"]
    /\ \E r \in ToolResults : result' = [result EXCEPT ![f] = r]
    /\ UNCHANGED <<permitted, logged, told>>

(* finish *)
Log(f) ==
    /\ phase[f] = "settled"
    /\ logged[f] = "none"
    /\ logged' = [logged EXCEPT ![f] = result[f]]
    /\ UNCHANGED <<permitted, phase, result, told>>

(* writeJSON, if it succeeds *)
Tell(f) ==
    /\ logged[f] # "none"
    /\ told[f] = "none"
    /\ told' = [told EXCEPT ![f] = logged[f]]
    /\ UNCHANGED <<permitted, phase, result, logged>>

Next == \E f \in Commands : Refuse(f) \/ Run(f) \/ Return(f) \/ Log(f) \/ Tell(f)

Spec == Init /\ [][Next]_vars
================================================================================
