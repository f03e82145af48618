--------------------------- MODULE MCTradingSession ---------------------------
(* Small sessions for TLC. *)
EXTENDS TradingSession

CONSTANTS a, b, c, tech

OneSymbol    == {a}
TwoSymbols   == {a, b}
ThreeSymbols == {a, b, c}

\* One known sector and one symbol the universe does not know.
OneSector    == [s \in {a} |-> tech]
TwoSectors   == [s \in {a, b} |-> tech]
ThreeSectors == [s \in {a, b, c} |-> IF s = c THEN NoSector ELSE tech]
===============================================================================
