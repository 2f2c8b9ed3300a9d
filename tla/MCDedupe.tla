------------------------------- MODULE MCDedupe -------------------------------
(* A small instance of Dedupe: three deliveries of one id, so that one of
   them can be admitted again after the window, and one each of two other
   ids, so that the table outgrows its limit and is pruned. *)
EXTENDS Dedupe, TLC

CONSTANTS f1, f2, f3, f4, f5, a, b, c

MCFrames == {f1, f2, f3, f4, f5}
MCIds    == {a, b, c}
MCIdOf   == f1 :> a @@ f2 :> a @@ f3 :> a @@ f4 :> b @@ f5 :> c

(* Frames that carry the same id are interchangeable. *)
MCSymmetry == Permutations({f1, f2, f3})
================================================================================
