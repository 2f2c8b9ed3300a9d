------------------------------- MODULE MCSession -------------------------------
(* Small instances of Session. *)
EXTENDS Session, TLC

CONSTANTS c1, c2, o1, a

(* A repeated id: within a session, or again after a reconnect. *)
MCRepeatIdOf == c1 :> a @@ c2 :> a
================================================================================
