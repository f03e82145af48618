------------------------------ MODULE MCEvolve ------------------------------
(* Interchangeable launches for TLC. *)
EXTENDS Evolve, TLC

CONSTANTS p1, p2, p3

ThreeLaunches == {p1, p2, p3}
Symmetry == Permutations(Launches)
===============================================================================
