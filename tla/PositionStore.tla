---------------------------- MODULE PositionStore ----------------------------
(***************************************************************************)
(* Where a position lives: in the PositionManager's memory, in the         *)
(* open_positions table, in a trade_*.json file, in the trades table.      *)
(* MemoryAwarePaperTradingLoop (core/memory/writer.py) moves it from one   *)
(* to the next during a cycle; the process can die between any two moves;  *)
(* run_live.py's startup (ingestion, seeding, broker guard) puts the       *)
(* pieces together again.                                                  *)
(***************************************************************************)
EXTENDS Naturals, FiniteSets

CONSTANTS
  Positions,   \* position_ids
  Symbol,      \* [Positions -> symbol]: the key of the PositionManager
  Slot,        \* [Positions -> (symbol, direction)]: UNIQUE in open_positions
  MaxExits,    \* bound: confirmed exits of one position
  DbFails,     \* whether a database write may fail
  RowsAge,     \* whether a row may pass OPEN_POSITION_STALE_SKIP_DAYS
  None

ASSUME StoreAssumption ==
  /\ MaxExits \in Nat \ {0}
  /\ {DbFails, RowsAge} \subseteq BOOLEAN
  /\ None \notin Positions \X (1..MaxExits)

\* A TradeRecord: the n-th confirmed exit of a position, with its own trade_id.
Trades == Positions \X (1..MaxExits)

VARIABLES
  pc,        \* where main() or the cycle stands
  memory,    \* positions in the PositionManager
  before,    \* open_before of _run_cycle_inner
  popped,    \* exit_records executed but not yet persisted
  writing,   \* the record whose file is written and whose commit is due
  todo,      \* files to ingest, or new positions to insert
  rows,      \* positions in open_positions
  trades,    \* records in trades
  files,     \* records with a JSON file
  torn,      \* those whose file is not valid JSON
  marked,    \* files ingestion_source_files calls ingested
  held,      \* positions the broker account really holds
  opened,    \* positions ever confirmed
  exits,     \* [Positions -> 0..MaxExits]: confirmed exits
  hadRow,    \* positions whose row was ever inserted
  spoiled    \* whether a database write failed in this ingestion

process == <<pc, memory, before, popped, writing, todo>>
disk    == <<rows, trades, files, torn, marked>>
history == <<opened, exits, hadRow, spoiled>>
vars    == <<pc, memory, before, popped, writing, todo, rows, trades, files,
             torn, marked, held, opened, exits, hadRow, spoiled>>

Steps == {"down", "ingest", "seed", "guard", "idle",
          "exits", "persist", "rotate", "enter", "insert", "eod"}

Stored == {t[1] : t \in trades}

Init ==
  /\ pc = "down" /\ memory = {} /\ before = {} /\ popped = {} /\ writing = None
  /\ todo = {} /\ rows = {} /\ trades = {} /\ files = {} /\ torn = {} /\ marked = {}
  /\ held = {} /\ opened = {} /\ exits = [p \in Positions |-> 0] /\ hadRow = {}
  /\ spoiled = FALSE

--------------------------------------------------------------------------------
\* Startup: run_live.main.

\* ingest_trades: every file whose fingerprint is not marked ingested.
Start ==
  /\ pc = "down"
  /\ pc' = "ingest" /\ todo' = files \ marked /\ spoiled' = FALSE
  /\ UNCHANGED <<memory, before, popped, writing, disk, held, opened, exits, hadRow>>

\* Mutant: no UNIQUE constraint.
StoreTradeAgain(t) == trades' = trades \cup {t}

\* Mutant: INSERT OR REPLACE.
StoreTradeReplace(t) == trades' = {u \in trades : u[1] # t[1]} \cup {t}

\* INSERT OR IGNORE INTO trades: UNIQUE (position_id, entry_time).
StoreTrade(t) == trades' = IF t[1] \in Stored THEN trades ELSE trades \cup {t}

\* _ingest_one_trade commits the row ...
IngestStore(t) ==
  /\ pc = "ingest" /\ writing = None /\ t \in todo \ torn
  /\ StoreTrade(t)
  /\ writing' = t
  /\ UNCHANGED <<pc, memory, before, popped, todo, rows, files, torn, marked, held, history>>

\* ... and _record_source_file commits the mark.
IngestMark ==
  /\ pc = "ingest" /\ writing # None
  /\ marked' = marked \cup {writing}
  /\ todo' = todo \ {writing} /\ writing' = None
  /\ UNCHANGED <<pc, memory, before, popped, rows, trades, files, torn, held, history>>

\* Mutant: a failed file is marked like any other.
IngestFailedMarks(t) ==
  /\ pc = "ingest" /\ t \in todo
  /\ writing \in {None, t} /\ (t \in torn \/ DbFails)
  /\ todo' = todo \ {t} /\ writing' = None /\ marked' = marked \cup {t}
  /\ spoiled' = (spoiled \/ t \notin torn)
  /\ UNCHANGED <<pc, memory, before, popped, rows, trades, files, torn, held,
                 opened, exits, hadRow>>

\* The file cannot be read, or a write fails: it is recorded as failed.
IngestFailed(t) ==
  /\ pc = "ingest" /\ t \in todo
  /\ writing \in {None, t} /\ (t \in torn \/ DbFails)
  /\ todo' = todo \ {t} /\ writing' = None
  /\ spoiled' = (spoiled \/ t \notin torn)
  /\ UNCHANGED <<pc, memory, before, popped, disk, held, opened, exits, hadRow>>

\* Every file was tried (mutant: the first bad one ends the loop).
StopsAtTorn == todo = {} \/ todo \cap torn # {}
AllTried == todo = {}

IngestDone ==
  /\ pc = "ingest" /\ AllTried
  /\ pc' = "seed"
  /\ UNCHANGED <<memory, before, popped, writing, todo, disk, held, history>>

\* _seed_open_positions: every row not too old, the last of its symbol winning.
Seed ==
  /\ pc = "seed"
  /\ \E stale \in (IF RowsAge THEN SUBSET rows ELSE {{}}) : \E m \in SUBSET (rows \ stale) :
       /\ \A p, q \in m : Symbol[p] = Symbol[q] => p = q
       /\ {Symbol[p] : p \in m} = {Symbol[p] : p \in rows \ stale}
       /\ memory' = m
  /\ pc' = "guard"
  /\ UNCHANGED <<before, popped, writing, todo, disk, held, history>>

\* _ensure_safe_broker_start lets the process go on: a flat account, an account
\* that could not be read, or ALLOW_EXISTING_BROKER_STATE.
GuardPasses ==
  /\ pc = "guard"
  /\ pc' = "idle"
  /\ UNCHANGED <<memory, before, popped, writing, todo, disk, held, history>>

\* OLYMPUS_AUTO_REPAIR_PAPER_POSITIONS: flatten the account and go on.
GuardRepairs ==
  /\ pc = "guard" /\ held # {}
  /\ pc' = "idle" /\ held' = {}
  /\ UNCHANGED <<memory, before, popped, writing, todo, disk, history>>

\* The process dies: refused by the guard, stopped, or crashed anywhere.
Die ==
  /\ pc # "down"
  /\ pc' = "down" /\ memory' = {} /\ before' = {} /\ popped' = {}
  /\ writing' = None /\ todo' = {}
  /\ UNCHANGED <<disk, held, history>>

--------------------------------------------------------------------------------
\* The cycle: MemoryAwarePaperTradingLoop._run_cycle_inner around its parent's.

Quiet == popped = {} /\ writing = None

Begin(p) ==
  /\ pc = "idle"
  /\ pc' = p /\ before' = memory
  /\ UNCHANGED <<memory, popped, writing, todo, disk, held, history>>

\* A confirmed exit leaves memory at once; evaluate_exits collects all of its
\* records before the first is persisted, the other callers persist each.
ExitConfirmed(p) ==
  /\ pc \in {"exits", "rotate", "eod"} /\ p \in memory /\ exits[p] < MaxExits
  /\ pc # "exits" => Quiet
  /\ memory' = memory \ {p} /\ held' = held \ {p}
  /\ exits' = [exits EXCEPT ![p] = @ + 1]
  /\ popped' = popped \cup {<<p, exits[p] + 1>>}
  /\ UNCHANGED <<pc, before, writing, todo, disk, opened, hadRow, spoiled>>

\* _persist_trade never raises, and does not write the file in one piece.
WriteFile(t) ==
  /\ pc \in {"persist", "rotate", "eod"} /\ writing = None /\ t \in popped
  /\ popped' = popped \ {t} /\ writing' = t
  /\ \/ files' = files \cup {t} /\ UNCHANGED torn
     \/ files' = files \cup {t} /\ torn' = torn \cup {t}
     \/ UNCHANGED <<files, torn>>
  /\ UNCHANGED <<pc, memory, before, todo, rows, trades, marked, held, history>>

\* write_trade_and_close_position: one transaction for both tables.
Register ==
  /\ pc \in {"persist", "rotate", "eod"} /\ writing # None
  /\ StoreTrade(writing)
  /\ rows' = rows \ {writing[1]}
  /\ writing' = None
  /\ UNCHANGED <<pc, memory, before, popped, todo, files, torn, marked, held, history>>

\* The transaction rolls back; it is not retried (mutant: two transactions).
RegisterHalfDone ==
  /\ pc \in {"persist", "rotate", "eod"} /\ writing # None /\ DbFails
  /\ writing' = None /\ rows' = rows \ {writing[1]}
  /\ UNCHANGED <<pc, memory, before, popped, todo, trades, files, torn, marked, held, history>>

RegisterFailed ==
  /\ pc \in {"persist", "rotate", "eod"} /\ writing # None /\ DbFails
  /\ writing' = None
  /\ UNCHANGED <<pc, memory, before, popped, todo, disk, held, history>>

NextStage ==
  /\ \/ pc = "exits" /\ pc' = "persist"
     \/ pc = "persist" /\ Quiet /\ pc' = "rotate"
     \/ pc = "rotate" /\ Quiet /\ pc' = "enter"
  /\ UNCHANGED <<memory, before, popped, writing, todo, disk, held, history>>

\* add_position after a confirmed entry, for a symbol that is not open.
EntryConfirmed(p) ==
  /\ pc = "enter" /\ p \notin opened /\ \A q \in memory : Symbol[q] # Symbol[p]
  /\ memory' = memory \cup {p} /\ held' = held \cup {p} /\ opened' = opened \cup {p}
  /\ UNCHANGED <<pc, before, popped, writing, todo, disk, exits, hadRow, spoiled>>

\* _run_eod_close asked the broker to liquidate and drops what is left in memory.
FailSafe ==
  /\ pc = "eod" /\ Quiet
  /\ memory' = {} /\ held' = {}
  /\ UNCHANGED <<pc, before, popped, writing, todo, disk, history>>

\* The parent returned: positions not in open_before get their row.
ParentReturns ==
  /\ pc \in {"enter", "eod"} /\ Quiet
  /\ pc' = "insert" /\ todo' = memory \ before
  /\ UNCHANGED <<memory, before, popped, writing, disk, held, history>>

\* The parent raised, on the data of a later candidate: no row is written, now
\* or later, because the next cycle finds the position in its own open_before.
ParentRaises ==
  /\ pc = "enter"
  /\ pc' = "idle" /\ before' = {}
  /\ UNCHANGED <<memory, popped, writing, todo, disk, held, history>>

\* insert_open_position: UNIQUE (symbol, direction) refuses a second row.
Insert(p) ==
  /\ pc = "insert" /\ p \in todo
  /\ todo' = todo \ {p}
  /\ \/ /\ \A q \in rows : Slot[q] # Slot[p]
        /\ rows' = rows \cup {p} /\ hadRow' = hadRow \cup {p}
     \/ /\ DbFails \/ \E q \in rows : Slot[q] = Slot[p]
        /\ UNCHANGED <<rows, hadRow>>
  /\ UNCHANGED <<pc, memory, before, popped, writing, trades, files, torn, marked,
                 held, opened, exits, spoiled>>

CycleDone ==
  /\ pc = "insert" /\ todo = {}
  /\ pc' = "idle" /\ before' = {}
  /\ UNCHANGED <<memory, popped, writing, todo, disk, held, history>>

\* A given-up exit fills late, or the operator flattens the account by hand.
SoldElsewhere(p) ==
  /\ p \in held
  /\ held' = held \ {p}
  /\ UNCHANGED <<process, disk, history>>

--------------------------------------------------------------------------------
StartupStep ==
  \/ Start \/ IngestMark \/ IngestDone \/ Seed \/ GuardPasses \/ GuardRepairs
  \/ \E t \in Trades : IngestStore(t) \/ IngestFailed(t)

CycleStep ==
  \/ Begin("exits") \/ Begin("eod") \/ NextStage \/ Register \/ RegisterFailed
  \/ FailSafe \/ ParentReturns \/ ParentRaises \/ CycleDone
  \/ \E p \in Positions : ExitConfirmed(p) \/ EntryConfirmed(p) \/ Insert(p)
  \/ \E t \in Trades : WriteFile(t)

Next == StartupStep \/ CycleStep \/ Die \/ \E p \in Positions : SoldElsewhere(p)

Spec == Init /\ [][Next]_vars

--------------------------------------------------------------------------------
\* Every store keeps its type.
TypeOK ==
  /\ pc \in Steps /\ memory \subseteq Positions /\ before \subseteq Positions
  /\ popped \subseteq Trades /\ writing \in Trades \cup {None}
  /\ todo \subseteq Positions \cup Trades
  /\ rows \subseteq Positions /\ trades \subseteq Trades
  /\ torn \subseteq files /\ files \subseteq Trades /\ marked \subseteq Trades
  /\ held \subseteq Positions /\ opened \subseteq Positions
  /\ exits \in [Positions -> 0..MaxExits] /\ hadRow \subseteq Positions
  /\ spoiled \in BOOLEAN

\* However often a position comes back and is exited again, through live writes
\* and through ingestion, the trades table holds one row of it.
OneTradePerPosition == \A t, u \in trades : t[1] = u[1] => t = u

\* Wherever the process died and whatever failed, a row that was once written
\* to open_positions is there or its trade is in trades: a position the
\* database knew of is never lost between the two tables.
RowGoneMeansTraded == hadRow \subseteq rows \cup Stored

\* A file that will not be read again has its position in trades, although the
\* row and the mark are separate commits.
MarkedMeansStored == {t[1] : t \in marked} \subseteq Stored

\* Unless the database refused a write meanwhile, ingestion ends with every
\* readable trade file in trades, however many bad files there are and wherever
\* the last process died.
StartupCatchesUp ==
  pc = "seed" /\ ~spoiled => {t[1] : t \in files \ torn} \subseteq Stored

\* The stores together are a TradeLedger: whatever dies, fails or is read twice, a
\* position the database knew of stays known and its trade is final.
L == INSTANCE TradeLedger WITH
       known  <- rows \cup Stored,
       ledger <- [p \in Positions |-> {t \in trades : t[1] = p}]

KeepsLedger == L!Spec
===============================================================================
