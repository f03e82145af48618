---------------------------- MODULE MCPositionStore ----------------------------
(* A small store for TLC: two successive longs of one symbol. *)
EXTENDS PositionStore

CONSTANTS p1, p2

TwoPositions == {p1, p2}

MCSymbol == [p \in Positions |-> "a"]
MCSlot   == [p \in Positions |-> <<"a", "long">>]
===============================================================================
