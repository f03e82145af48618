---------------------------- MODULE MCConnection ----------------------------
(* Four operations of any kind for TLC; they are interchangeable. *)
EXTENDS Connection, TLC

CONSTANTS o1, o2, o3, o4

FourOps  == {o1, o2, o3, o4}
Symmetry == Permutations(FourOps)
===============================================================================
