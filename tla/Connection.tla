----------------------------- MODULE Connection -----------------------------
(***************************************************************************)
(* Database (core/memory/database.py): one SQLite connection in WAL mode,  *)
(* shared by the threads of the process behind a lock, beside another      *)
(* connection to the same file. Python opens a transaction implicitly      *)
(* before a write and leaves it open when the write fails; the exit path   *)
(* (core/memory/writer.py) alone runs under "with conn:", which rolls      *)
(* back.                                                                   *)
(***************************************************************************)
EXTENDS Naturals, FiniteSets

CONSTANTS
  Ops,        \* operations: calls of execute, executemany, query, of the exit path
  MaxCommits  \* bound: commits of the other connection

ASSUME ConnectionAssumption == MaxCommits \in Nat

Writes == {"execute", "many", "exit"}
Kinds  == Writes \cup {"query"}

\* The rows of an operation: executemany's rows in order; the trade and the deletion.
Rows == Ops \X {1, 2}

VARIABLES
  kind,      \* [Ops -> Kinds \cup {"none"}]: what the operation was called as
  handle,    \* [Ops -> 0..1]: the connection it was handed by connect()
  result,    \* [Ops -> none, ok, failed]
  conn,      \* the connection that is open: 0, then 1 once close() was called
  txn,       \* none, open (no snapshot yet), read (snapshot held), write (lock held)
  pending,   \* rows written in the open transaction
  durable,   \* committed rows
  stale,     \* the other connection committed after the snapshot was taken
  other,     \* whether the other connection holds the write lock
  commits,   \* its commits
  dirty      \* a write failed since the last commit, rollback or close

opVars    == <<kind, handle, result>>
txnVars   == <<txn, pending, stale, dirty>>
otherVars == <<other, commits>>
vars == <<kind, handle, result, conn, txn, pending, durable, stale, other, commits, dirty>>

Init ==
  /\ kind = [o \in Ops |-> "none"] /\ handle = [o \in Ops |-> 0]
  /\ result = [o \in Ops |-> "none"]
  /\ conn = 0 /\ txn = "none" /\ pending = {} /\ durable = {} /\ stale = FALSE
  /\ other = FALSE /\ commits = 0 /\ dirty = FALSE

\* connect(), outside the lock the statement will run under.
Call(o, k) ==
  /\ kind[o] = "none"
  /\ kind' = [kind EXCEPT ![o] = k] /\ handle' = [handle EXCEPT ![o] = conn]
  /\ UNCHANGED <<result, conn, durable, txnVars, otherVars>>

Running(o) == kind[o] # "none" /\ result[o] = "none"
OnOpen(o)  == Running(o) /\ handle[o] = conn

Ends(o, r) == result' = [result EXCEPT ![o] = r] /\ UNCHANGED <<kind, handle, conn, otherVars>>

\* commit and rollback both end the transaction.
NoTxn == txn' = "none" /\ pending' = {} /\ stale' = FALSE /\ dirty' = FALSE

\* close() came between connect() and the lock: ProgrammingError.
OnClosed(o) ==
  /\ Running(o) /\ handle[o] # conn
  /\ Ends(o, "failed")
  /\ UNCHANGED <<durable, txnVars>>

\* The write lock can be had: no other writer, and no snapshot that is out of date.
MayWrite == txn = "write" \/ (~other /\ ~stale)

\* How a failed statement leaves the transaction it opened or joined: still open,
\* or rolled back by SQLite itself (a full disk).
LeftOpen(t, rows) ==
  \/ txn' = t /\ pending' = pending \cup rows /\ dirty' = TRUE /\ UNCHANGED stale
  \/ t = "write" /\ NoTxn

\* SQLITE_BUSY: the lock was not to be had within its timeout.
Locked(o) ==
  /\ OnOpen(o) /\ kind[o] \in {"execute", "many"} /\ ~MayWrite
  /\ LeftOpen(IF txn = "none" THEN "open" ELSE txn, {})
  /\ Ends(o, "failed") /\ UNCHANGED durable

\* A constraint refuses the statement of execute or the second row of executemany, or
\* the disk refuses one of them or the commit.
Refused(o) ==
  /\ OnOpen(o) /\ kind[o] \in {"execute", "many"} /\ MayWrite
  /\ \E rows \in {{}, IF kind[o] = "many" THEN {<<o, 1>>} ELSE {}} : LeftOpen("write", rows)
  /\ Ends(o, "failed") /\ UNCHANGED durable

\* execute and executemany: every statement, then commit (mutant: no commit when
\* the transaction was already open).
WriteCommitsOwn(o) ==
  /\ OnOpen(o) /\ kind[o] \in {"execute", "many"} /\ MayWrite
  /\ IF txn = "none"
     THEN durable' = durable \cup pending \cup ({o} \X {1, 2}) /\ NoTxn
     ELSE /\ txn' = "write" /\ pending' = pending \cup ({o} \X {1, 2})
          /\ UNCHANGED <<durable, stale, dirty>>
  /\ Ends(o, "ok")
WriteCommits(o) ==
  /\ OnOpen(o) /\ kind[o] \in {"execute", "many"} /\ MayWrite
  /\ durable' = durable \cup pending \cup ({o} \X {1, 2}) /\ NoTxn
  /\ Ends(o, "ok")

\* write_trade_and_close_position: both statements and the commit ...
ExitCommits(o) ==
  /\ OnOpen(o) /\ kind[o] = "exit" /\ MayWrite
  /\ durable' = durable \cup pending \cup ({o} \X {1, 2}) /\ NoTxn
  /\ Ends(o, "ok")

\* ... or a rollback, of what other operations left behind too (mutant: the lock
\* without the transaction, the trade inserted).
ExitLeavesOpen(o) ==
  /\ OnOpen(o) /\ kind[o] = "exit" /\ MayWrite
  /\ LeftOpen("write", {<<o, 1>>})
  /\ Ends(o, "failed") /\ UNCHANGED durable
ExitRollsBack(o) ==
  /\ OnOpen(o) /\ kind[o] = "exit"
  /\ NoTxn
  /\ Ends(o, "failed") /\ UNCHANGED durable

\* query and query_one: a transaction that is open takes its snapshot (mutant: BEGIN
\* before the SELECT).
QueryBegins(o) ==
  /\ OnOpen(o) /\ kind[o] = "query"
  /\ txn' = IF txn = "write" THEN txn ELSE "read"
  /\ Ends(o, "ok")
  /\ UNCHANGED <<durable, pending, stale, dirty>>
Snapshot == txn' = IF txn = "open" THEN "read" ELSE txn
Query(o) ==
  /\ OnOpen(o) /\ kind[o] = "query"
  /\ Snapshot
  /\ Ends(o, "ok")
  /\ UNCHANGED <<durable, pending, stale, dirty>>

\* close(): the open transaction is gone; the next connect() opens a new connection.
CloseHandle ==
  /\ conn = 0
  /\ conn' = 1 /\ NoTxn
  /\ UNCHANGED <<opVars, durable, otherVars>>

\* Another connection to the file: apex_reports, a script.
OtherLocks ==
  /\ ~other /\ txn # "write" /\ commits < MaxCommits
  /\ other' = TRUE
  /\ UNCHANGED <<opVars, conn, durable, txnVars, commits>>

OtherCommits ==
  /\ other
  /\ other' = FALSE /\ commits' = commits + 1
  /\ stale' = (txn = "read")
  /\ UNCHANGED <<opVars, conn, durable, txn, pending, dirty>>

Next ==
  \/ CloseHandle \/ OtherLocks \/ OtherCommits
  \/ \E o \in Ops :
       \/ \E k \in Kinds : Call(o, k)
       \/ OnClosed(o) \/ Locked(o) \/ Refused(o) \/ WriteCommits(o)
       \/ ExitCommits(o) \/ ExitRollsBack(o) \/ Query(o)

Spec == Init /\ [][Next]_vars

--------------------------------------------------------------------------------
\* Operations, transaction and rows keep their types.
TypeOK ==
  /\ kind \in [Ops -> Kinds \cup {"none"}] /\ handle \in [Ops -> {0, 1}]
  /\ result \in [Ops -> {"none", "ok", "failed"}]
  /\ conn \in {0, 1} /\ txn \in {"none", "open", "read", "write"}
  /\ pending \subseteq Rows /\ durable \subseteq Rows
  /\ stale \in BOOLEAN /\ other \in BOOLEAN /\ commits \in 0..MaxCommits /\ dirty \in BOOLEAN

RowsOf(o) == {o} \X {1, 2}

\* A write that returned has its rows committed, whatever the transaction it joined
\* had been through, and none of them can be rolled back by another operation.
OkIsDurable == \A o \in Ops : kind[o] \in Writes /\ result[o] = "ok" => RowsOf(o) \subseteq durable

\* The trade row and the deletion of the position are committed together or not at
\* all, and a failed write leaves nothing that a later commit could publish: only an
\* executemany that stopped half-way does.
FailedWriteLeavesNothing ==
  \A o \in Ops :
    /\ kind[o] = "exit" => RowsOf(o) \subseteq durable \/ RowsOf(o) \cap (durable \cup pending) = {}
    /\ kind[o] # "many" /\ result[o] = "failed" => RowsOf(o) \cap (durable \cup pending) = {}

\* Reads never hold a transaction: one is open between two operations only after
\* a write failed, and so is a snapshot that goes out of date.
OnlyFailuresHoldTransactions == /\ txn # "none" => dirty
                                /\ stale => dirty /\ txn = "read"
===============================================================================
