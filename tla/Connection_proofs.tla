-------------------------- MODULE Connection_proofs --------------------------
(***************************************************************************)
(* Theorems about Connection: for any number of operations of any kind, in *)
(* any order, and whatever fails.                                          *)
(***************************************************************************)
EXTENDS Connection, TLAPS

Touches(o) == RowsOf(o) \cap (durable \cup pending) # {}

\* An operation that has not ended has written nothing; what waits in the open
\* transaction are rows of failed executemany calls; only called operations end.
Unended ==
  \A o \in Ops :
    /\ result[o] = "none" => ~Touches(o)
    /\ kind[o] # "many" => RowsOf(o) \cap pending = {}
    /\ kind[o] = "none" => result[o] = "none"

\* A failed write other than executemany has left nothing: from it and the two
\* invariants before, FailedWriteLeavesNothing.
FailedAreGone == \A o \in Ops : kind[o] # "many" /\ result[o] = "failed" => ~Touches(o)

\* The other connection took the lock for a commit within the bound.
WithinBound == other => commits < MaxCommits

IInv ==
  /\ TypeOK /\ OkIsDurable /\ FailedAreGone /\ Unended
  /\ OnlyFailuresHoldTransactions /\ WithinBound

LEMMA InitIInv == Init => IInv
<1> SUFFICES ASSUME Init PROVE IInv
  OBVIOUS
<1>b. {stale, other, dirty} \subseteq BOOLEAN
  BY Zenon DEF Init
<1>1. TypeOK
  BY <1>b, ConnectionAssumption DEF Init, TypeOK, Kinds, Writes, Rows
<1>2. OkIsDurable /\ FailedAreGone /\ Unended /\ OnlyFailuresHoldTransactions
  BY DEF Init, OkIsDurable, FailedAreGone, Unended, OnlyFailuresHoldTransactions, Touches,
     RowsOf, Writes
<1>3. WithinBound
  BY DEF Init, WithinBound
<1> QED BY <1>1, <1>2, <1>3 DEF IInv

\* Rows of two operations are different rows.
LEMMA RowsApart == ASSUME NEW o \in Ops, NEW q \in Ops, o # q
                   PROVE  RowsOf(o) \cap RowsOf(q) = {}
  BY DEF RowsOf

\* A write that commits publishes its rows and what was pending.
LEMMA CommitKeeps ==
  ASSUME IInv, NEW o \in Ops, Running(o), kind[o] \in Writes,
         durable' = durable \cup pending \cup RowsOf(o), NoTxn, Ends(o, "ok")
  PROVE  IInv'
<1> USE DEF Ends, NoTxn, Running
<1>t. TypeOK
  BY DEF IInv
<1>b. stale' \in BOOLEAN /\ dirty' \in BOOLEAN
  BY Zenon
<1>1. TypeOK'
  BY <1>t, <1>b DEF TypeOK, Rows, RowsOf, otherVars
<1>2. result' = [result EXCEPT ![o] = "ok"] /\ result'[o] = "ok"
  BY <1>t DEF TypeOK
<1>3. OkIsDurable'
  BY <1>2 DEF IInv, OkIsDurable, RowsOf
<1>4. ASSUME NEW q \in Ops, q # o, ~Touches(q) PROVE ~Touches(q)'
  <2>1. RowsOf(q) \cap RowsOf(o) = {}
    BY <1>4, RowsApart
  <2> QED BY <1>4, <2>1 DEF Touches, RowsOf
<1>5. FailedAreGone'
  BY <1>2, <1>4 DEF IInv, FailedAreGone
<1>6. Unended'
  BY <1>2, <1>4 DEF IInv, Unended
<1>7. OnlyFailuresHoldTransactions'
  BY DEF OnlyFailuresHoldTransactions
<1>8. WithinBound'
  BY DEF IInv, WithinBound, otherVars
<1> QED BY <1>1, <1>3, <1>5, <1>6, <1>7, <1>8 DEF IInv

\* A statement that fails adds rows of its own call at most, and only executemany's;
\* or ends the transaction.
LEMMA FailureKeeps ==
  ASSUME IInv, NEW o \in Ops, Running(o), UNCHANGED durable, Ends(o, "failed"),
         NEW rows, rows \subseteq RowsOf(o), rows # {} => kind[o] = "many",
         \/ /\ pending' = pending \cup rows
            /\ txn' \in {"none", "open", "read", "write"} /\ dirty' \in BOOLEAN
            /\ UNCHANGED stale /\ OnlyFailuresHoldTransactions'
         \/ NoTxn
  PROVE  IInv'
<1> USE DEF Ends, Running
<1>t. TypeOK
  BY DEF IInv
<1>p. pending' \subseteq pending \cup rows
  BY DEF NoTxn
<1>b. stale' \in BOOLEAN /\ dirty' \in BOOLEAN
  BY <1>t, Zenon DEF TypeOK, NoTxn
<1>1. TypeOK'
  BY <1>t, <1>b, <1>p DEF TypeOK, Rows, RowsOf, NoTxn, otherVars
<1>2. result' = [result EXCEPT ![o] = "failed"] /\ result'[o] = "failed"
  BY <1>t DEF TypeOK
<1>3. OkIsDurable'
  BY <1>2 DEF IInv, OkIsDurable, RowsOf
<1>4. ASSUME NEW q \in Ops, q # o \/ rows = {}, ~Touches(q) PROVE ~Touches(q)'
  <2>1. RowsOf(q) \cap rows = {}
    BY <1>4, RowsApart
  <2> QED BY <1>4, <1>p, <2>1 DEF Touches, RowsOf
<1>5. FailedAreGone'
  <2>1. kind[o] # "many" => ~Touches(o)'
    BY <1>4 DEF IInv, Unended
  <2> QED BY <1>2, <1>4, <2>1 DEF IInv, FailedAreGone
<1>6. ASSUME NEW q \in Ops, kind[q] # "many" PROVE RowsOf(q)' \cap pending' = {}
  <2>1. RowsOf(q) \cap pending = {}
    BY <1>6 DEF IInv, Unended
  <2>2. RowsOf(q) \cap rows = {}
    BY <1>6, RowsApart
  <2> QED BY <1>p, <2>1, <2>2 DEF RowsOf
<1>7. Unended'
  BY <1>2, <1>4, <1>6 DEF IInv, Unended
<1>8. OnlyFailuresHoldTransactions'
  BY DEF OnlyFailuresHoldTransactions, NoTxn
<1>9. WithinBound'
  BY DEF IInv, WithinBound, otherVars
<1> QED BY <1>1, <1>3, <1>5, <1>7, <1>8, <1>9 DEF IInv

\* Every operation keeps the invariant.
LEMMA OperationKeeps ==
  ASSUME IInv, NEW o \in Ops,
         \/ OnClosed(o) \/ Locked(o) \/ Refused(o) \/ WriteCommits(o)
         \/ ExitCommits(o) \/ ExitRollsBack(o) \/ Query(o)
  PROVE  IInv'
<1>t. TypeOK /\ OnlyFailuresHoldTransactions
  BY DEF IInv
<1>1. CASE OnClosed(o)
  <2>1. OnlyFailuresHoldTransactions'
    BY <1>t, <1>1 DEF OnClosed, OnlyFailuresHoldTransactions, txnVars
  <2>2. /\ pending' = pending \cup {} /\ UNCHANGED stale /\ dirty' \in BOOLEAN
        /\ txn' \in {"none", "open", "read", "write"}
    BY <1>t, <1>1 DEF OnClosed, TypeOK, txnVars
  <2>3. Running(o) /\ UNCHANGED durable /\ Ends(o, "failed")
    BY <1>1 DEF OnClosed
  <2>4. PICK rows : rows = {}
    OBVIOUS
  <2>5. rows \subseteq RowsOf(o) /\ pending' = pending \cup rows
    BY <2>2, <2>4
  <2> QED BY <2>1, <2>2, <2>3, <2>4, <2>5, FailureKeeps
<1>2. CASE Locked(o)
  <2>1. CASE NoTxn
    BY <1>2, <2>1, FailureKeeps DEF Locked, OnOpen
  <2>2. CASE /\ txn' = IF txn = "none" THEN "open" ELSE txn
             /\ pending' = pending \cup {} /\ dirty' = TRUE /\ UNCHANGED stale
    <3>1. OnlyFailuresHoldTransactions'
      BY <1>t, <2>2 DEF OnlyFailuresHoldTransactions
    <3>2. txn' \in {"none", "open", "read", "write"}
      BY <1>t, <2>2 DEF TypeOK
    <3> QED BY <1>2, <2>2, <3>1, <3>2, FailureKeeps DEF Locked, OnOpen
  <2> QED BY <1>2, <2>1, <2>2 DEF Locked, LeftOpen
<1>3. CASE Refused(o)
  <2>1. CASE NoTxn
    BY <1>3, <2>1, FailureKeeps DEF Refused, OnOpen
  <2>2. ASSUME NEW rows \in {{}, IF kind[o] = "many" THEN {<<o, 1>>} ELSE {}},
               txn' = "write", pending' = pending \cup rows, dirty' = TRUE, UNCHANGED stale
        PROVE  IInv'
    <3>1. OnlyFailuresHoldTransactions'
      BY <1>t, <1>3, <2>2 DEF OnlyFailuresHoldTransactions, Refused, MayWrite
    <3>2. rows \subseteq RowsOf(o) /\ (rows # {} => kind[o] = "many")
      BY <2>2 DEF RowsOf
    <3> QED BY <1>3, <2>2, <3>1, <3>2, FailureKeeps DEF Refused, OnOpen
  <2> QED BY <1>3, <2>1, <2>2 DEF Refused, LeftOpen
<1>4. CASE WriteCommits(o) \/ ExitCommits(o)
  BY <1>4, CommitKeeps DEF WriteCommits, ExitCommits, OnOpen, RowsOf, Writes
<1>5. CASE ExitRollsBack(o)
  <2>1. Running(o) /\ UNCHANGED durable /\ Ends(o, "failed") /\ NoTxn
    BY <1>5 DEF ExitRollsBack, OnOpen
  <2>2. PICK rows : rows = {}
    OBVIOUS
  <2>3. rows \subseteq RowsOf(o)
    BY <2>2
  <2> QED BY <2>1, <2>2, <2>3, FailureKeeps
<1>6. CASE Query(o)
  <2> USE DEF Query, Ends, OnOpen, Running
  <2>1. TypeOK'
    BY <1>t, <1>6 DEF TypeOK, Snapshot, otherVars
  <2>2. result' = [result EXCEPT ![o] = "ok"] /\ UNCHANGED <<kind, durable, pending>>
    BY <1>6
  <2>3. OkIsDurable' /\ FailedAreGone' /\ Unended'
    BY <1>t, <1>6, <2>2 DEF IInv, OkIsDurable, FailedAreGone, Unended, Touches, RowsOf,
       TypeOK, Writes
  <2>4. OnlyFailuresHoldTransactions'
    BY <1>t, <1>6 DEF OnlyFailuresHoldTransactions, Snapshot
  <2>5. WithinBound'
    BY <1>6 DEF IInv, WithinBound, otherVars
  <2> QED BY <2>1, <2>3, <2>4, <2>5 DEF IInv
<1> QED BY <1>1, <1>2, <1>3, <1>4, <1>5, <1>6

\* Calls, close() and the other connection touch no row.
LEMMA NextIInv == IInv /\ [Next]_vars => IInv'
<1> SUFFICES ASSUME IInv, [Next]_vars PROVE IInv'
  OBVIOUS
<1>t. TypeOK /\ OnlyFailuresHoldTransactions
  BY DEF IInv
<1>1. CASE CloseHandle
  <2>1. TypeOK' /\ OnlyFailuresHoldTransactions'
    BY <1>t, <1>1 DEF CloseHandle, NoTxn, TypeOK, OnlyFailuresHoldTransactions, opVars, otherVars
  <2>2. OkIsDurable' /\ FailedAreGone' /\ Unended'
    BY <1>1 DEF IInv, CloseHandle, NoTxn, OkIsDurable, FailedAreGone, Unended, Touches,
       RowsOf, opVars
  <2>3. WithinBound'
    BY <1>1 DEF IInv, CloseHandle, WithinBound, otherVars
  <2> QED BY <2>1, <2>2, <2>3 DEF IInv
<1>2. CASE OtherLocks \/ OtherCommits
  <2>b. stale' \in BOOLEAN /\ other' \in BOOLEAN
    BY <1>t, <1>2, Zenon DEF OtherLocks, OtherCommits, TypeOK, txnVars
  <2>c. commits' \in 0..MaxCommits /\ WithinBound'
    BY <1>t, <1>2, ConnectionAssumption DEF IInv, WithinBound, OtherLocks, OtherCommits, TypeOK
  <2>1. TypeOK'
    BY <1>t, <1>2, <2>b, <2>c DEF OtherLocks, OtherCommits, TypeOK, opVars, txnVars
  <2>2. UNCHANGED <<opVars, durable, pending, txn, dirty>>
    BY <1>2 DEF OtherLocks, OtherCommits, txnVars
  <2>3. OkIsDurable' /\ FailedAreGone' /\ Unended'
    BY <2>2 DEF IInv, OkIsDurable, FailedAreGone, Unended, Touches, RowsOf, opVars
  <2>4. OnlyFailuresHoldTransactions'
    <3>1. UNCHANGED stale \/ stale' = (txn = "read")
      BY <1>2 DEF OtherLocks, OtherCommits, txnVars
    <3>2. stale' => stale \/ txn = "read"
      BY <3>1
    <3>3. txn' = txn /\ dirty' = dirty
      BY <2>2
    <3>4. txn = "read" => txn # "none"
      OBVIOUS
    <3> QED BY <1>t, <3>2, <3>3, <3>4, Zenon DEF OnlyFailuresHoldTransactions
  <2> QED BY <2>1, <2>3, <2>4, <2>c DEF IInv
<1>3. ASSUME NEW o \in Ops, NEW k \in Kinds, Call(o, k) PROVE IInv'
  <2>1. TypeOK' /\ OnlyFailuresHoldTransactions'
    BY <1>t, <1>3 DEF Call, TypeOK, OnlyFailuresHoldTransactions, txnVars, otherVars
  <2>2. result[o] = "none" /\ RowsOf(o) \cap pending = {} /\ k # "none"
    BY <1>3 DEF IInv, Unended, Call, Kinds, Writes
  <2>3. OkIsDurable' /\ FailedAreGone' /\ Unended'
    BY <1>t, <1>3, <2>2 DEF IInv, Call, OkIsDurable, FailedAreGone, Unended, Touches,
       RowsOf, TypeOK, txnVars
  <2>4. WithinBound'
    BY <1>3 DEF IInv, Call, WithinBound, otherVars
  <2> QED BY <2>1, <2>3, <2>4 DEF IInv
<1>4. CASE UNCHANGED vars
  BY <1>4 DEF IInv, vars, TypeOK, OkIsDurable, FailedAreGone, Unended,
     OnlyFailuresHoldTransactions, Touches, RowsOf, WithinBound
<1> QED BY <1>1, <1>2, <1>3, <1>4, OperationKeeps DEF Next

\* The two facts together.
LEMMA Inductive == Spec => []IInv
  BY InitIInv, NextIInv, PTL DEF Spec

\* Operations, transaction and rows keep their types.
THEOREM TypeCorrect == Spec => []TypeOK
<1>1. IInv => TypeOK
  BY DEF IInv
<1> QED BY <1>1, Inductive, PTL

\* A write that returned is committed for good, whatever transaction it found open.
THEOREM WritesAreDurable == Spec => []OkIsDurable
<1>1. IInv => OkIsDurable
  BY DEF IInv
<1> QED BY <1>1, Inductive, PTL

\* The exit transaction is atomic, and of the failed writes only executemany can
\* leave rows behind.
THEOREM FailuresLeaveNothing == Spec => []FailedWriteLeavesNothing
<1>1. IInv => FailedWriteLeavesNothing
  <2> SUFFICES ASSUME IInv, NEW o \in Ops
               PROVE  /\ kind[o] = "exit" => RowsOf(o) \subseteq durable \/ ~Touches(o)
                      /\ kind[o] # "many" /\ result[o] = "failed" => ~Touches(o)
    BY DEF FailedWriteLeavesNothing, Touches
  <2>1. result[o] \in {"none", "ok", "failed"}
    BY DEF IInv, TypeOK
  <2> QED BY <2>1 DEF IInv, FailedAreGone, Unended, OkIsDurable, Writes
<1> QED BY <1>1, Inductive, PTL

\* Between operations a transaction is open, and a snapshot goes out of date, only
\* after a failed write.
THEOREM ReadsHoldNothing == Spec => []OnlyFailuresHoldTransactions
<1>1. IInv => OnlyFailuresHoldTransactions
  BY DEF IInv
<1> QED BY <1>1, Inductive, PTL
===============================================================================
