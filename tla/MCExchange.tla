------------------------------ MODULE MCExchange ------------------------------
(* Small instances of Exchange. *)
EXTENDS Exchange, TLC

CONSTANTS c1, c2, o1, a

(* A call and its retry. *)
MCRepeatIdOf == c1 :> a @@ c2 :> a

(* A call, and a command without an id. *)
MCNoIdIdOf == c1 :> a @@ c2 :> NoId
================================================================================
