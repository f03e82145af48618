----------------------------- MODULE TradeLedger -----------------------------
(***************************************************************************)
(* What the database promises about a position once it has heard of it     *)
(* (core/memory/writer.py, schema.sql): it is open until it is a trade,    *)
(* and the trade it becomes is final. PositionStore shows how memory,      *)
(* files, transactions and startup keep the promise.                       *)
(***************************************************************************)
CONSTANTS
  Positions,
  Trades     \* possible rows of trades, each of one position

VARIABLES
  known,     \* positions the database has a row of, in either table
  ledger     \* [Positions -> set of their trades]

Init == known = {} /\ ledger = [p \in Positions |-> {}]

\* A position gets its row in open_positions.
Record(p) ==
  /\ p \notin known
  /\ known' = known \cup {p}
  /\ UNCHANGED ledger

\* It becomes a trade, which is never replaced, joined by another one or withdrawn.
Settle(p, t) ==
  /\ ledger[p] = {}
  /\ known' = known \cup {p}
  /\ ledger' = [ledger EXCEPT ![p] = {t}]

Next == \E p \in Positions : Record(p) \/ \E t \in Trades : Settle(p, t)

Spec == Init /\ [][Next]_<<known, ledger>>
===============================================================================
