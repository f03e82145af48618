------------------------- MODULE PositionStore_proofs -------------------------
(***************************************************************************)
(* Theorems about PositionStore: however many positions there are, and     *)
(* wherever the process dies, what the tables promise each other holds.    *)
(***************************************************************************)
EXTENDS PositionStore, TLAPS

\* Ingestion, half way: it starts with no file in hand, the file being marked has
\* its row, and a readable file is either done or still on the list.
Ingesting ==
  /\ pc = "down" => writing = None
  /\ pc = "ingest" /\ writing # None => writing[1] \in Stored
  /\ pc = "ingest" /\ ~spoiled => \A t \in files \ torn : t[1] \in Stored \/ t \in todo

IInv ==
  /\ TypeOK /\ OneTradePerPosition /\ RowGoneMeansTraded /\ MarkedMeansStored
  /\ Ingesting /\ StartupCatchesUp

\* INSERT OR IGNORE adds the position to those stored, and no second row.
LEMMA StoreTradeStores ==
  ASSUME TypeOK, OneTradePerPosition, NEW t \in Trades, StoreTrade(t)
  PROVE  /\ trades' \subseteq Trades
         /\ OneTradePerPosition'
         /\ Stored \subseteq Stored' /\ t[1] \in Stored'
<1> USE DEF TypeOK, OneTradePerPosition, StoreTrade, Stored
<1>1. CASE t[1] \in Stored
  BY <1>1
<1>2. CASE t[1] \notin Stored
  BY <1>2
<1> QED BY <1>1, <1>2

\* Nothing is stored, and nothing needs to be.
LEMMA InitIInv == Init => IInv
<1> SUFFICES ASSUME Init PROVE IInv
  OBVIOUS
<1> USE StoreAssumption DEF Init, Stored
<1>1. spoiled \in BOOLEAN
  BY Zenon
<1>2. TypeOK
  BY <1>1 DEF TypeOK, Steps
<1>3. OneTradePerPosition /\ RowGoneMeansTraded /\ MarkedMeansStored
  BY DEF OneTradePerPosition, RowGoneMeansTraded, MarkedMeansStored
<1>4. Ingesting /\ StartupCatchesUp
  BY DEF Ingesting, StartupCatchesUp
<1> QED BY <1>2, <1>3, <1>4 DEF IInv

\* Startup: ingestion empties its list file by file.
LEMMA StartupKeeps == IInv /\ StartupStep => IInv'
<1> SUFFICES ASSUME IInv, StartupStep PROVE IInv'
  OBVIOUS
<1> USE StoreAssumption DEF IInv, disk, history
<1>1. CASE Start
  <2>1. TypeOK' /\ OneTradePerPosition' /\ RowGoneMeansTraded' /\ MarkedMeansStored'
    BY <1>1 DEF Start, TypeOK, Steps, OneTradePerPosition, RowGoneMeansTraded,
       MarkedMeansStored, Stored
  <2>2. pc' = "ingest" /\ StartupCatchesUp'
    BY <1>1 DEF Start, StartupCatchesUp
  <2>3. ASSUME NEW t \in files \ torn PROVE t[1] \in Stored \/ t \in todo'
    BY <1>1, <2>3 DEF Start, MarkedMeansStored
  <2>4. Ingesting'
    BY <1>1, <2>2, <2>3 DEF Start, Ingesting, Stored, TypeOK
  <2> QED BY <2>1, <2>2, <2>4
<1>2. ASSUME NEW t \in Trades, IngestStore(t) PROVE IInv'
  <2>1. /\ trades' \subseteq Trades /\ OneTradePerPosition'
        /\ Stored \subseteq Stored' /\ t[1] \in Stored'
    BY <1>2, StoreTradeStores DEF IngestStore
  <2>2. TypeOK'
    BY <1>2, <2>1 DEF IngestStore, TypeOK, Steps
  <2>3. RowGoneMeansTraded' /\ MarkedMeansStored' /\ Ingesting' /\ StartupCatchesUp'
    BY <1>2, <2>1 DEF IngestStore, RowGoneMeansTraded, MarkedMeansStored, Ingesting,
       StartupCatchesUp
  <2> QED BY <2>1, <2>2, <2>3
<1>3. CASE IngestMark
  <2>1. writing \in Trades /\ writing[1] \in Stored /\ Stored' = Stored
    BY <1>3 DEF IngestMark, TypeOK, Ingesting, Stored
  <2>2. TypeOK' /\ OneTradePerPosition' /\ RowGoneMeansTraded'
    BY <1>3, <2>1 DEF IngestMark, TypeOK, Steps, OneTradePerPosition, RowGoneMeansTraded
  <2>3. MarkedMeansStored' /\ Ingesting' /\ StartupCatchesUp'
    BY <1>3, <2>1 DEF IngestMark, MarkedMeansStored, Ingesting, StartupCatchesUp
  <2> QED BY <2>2, <2>3
<1>4. ASSUME NEW t \in Trades, IngestFailed(t) PROVE IInv'
  BY <1>4 DEF IngestFailed, TypeOK, Steps, OneTradePerPosition, RowGoneMeansTraded,
     MarkedMeansStored, Ingesting, StartupCatchesUp, Stored
<1>5. CASE IngestDone
  BY <1>5 DEF IngestDone, AllTried, TypeOK, Steps, OneTradePerPosition, RowGoneMeansTraded,
     MarkedMeansStored, Ingesting, StartupCatchesUp, Stored
<1>6. CASE Seed
  BY <1>6 DEF Seed, TypeOK, Steps, OneTradePerPosition, RowGoneMeansTraded,
     MarkedMeansStored, Ingesting, StartupCatchesUp, Stored
<1>7. CASE GuardPasses \/ GuardRepairs
  BY <1>7 DEF GuardPasses, GuardRepairs, TypeOK, Steps, OneTradePerPosition,
     RowGoneMeansTraded, MarkedMeansStored, Ingesting, StartupCatchesUp, Stored
<1> QED BY <1>1, <1>2, <1>3, <1>4, <1>5, <1>6, <1>7 DEF StartupStep

\* A step that leaves the database alone and neither starts nor ends ingestion
\* keeps everything but the types.
LEMMA TablesUntouched ==
  ASSUME IInv, UNCHANGED <<rows, trades, marked, hadRow>>,
         pc' \notin {"ingest", "seed"}, writing' = None \/ pc' # "down"
  PROVE  /\ OneTradePerPosition' /\ RowGoneMeansTraded' /\ MarkedMeansStored'
         /\ Ingesting' /\ StartupCatchesUp'
  BY DEF IInv, OneTradePerPosition, RowGoneMeansTraded, MarkedMeansStored, Ingesting,
     StartupCatchesUp, Stored

\* The cycle: only Register and Insert write to the tables.
LEMMA CycleKeeps == IInv /\ CycleStep => IInv'
<1> SUFFICES ASSUME IInv, CycleStep PROVE IInv'
  OBVIOUS
<1> USE StoreAssumption DEF disk, history
<1>t. TypeOK
  BY DEF IInv
<1>1. ASSUME NEW s \in {"exits", "eod"}, Begin(s) PROVE IInv'
  <2>1. TypeOK'
    BY <1>t, <1>1 DEF Begin, TypeOK, Steps
  <2> QED BY <2>1, <1>1, TablesUntouched DEF Begin, IInv
<1>2. CASE NextStage \/ FailSafe \/ ParentReturns \/ ParentRaises \/ CycleDone
  <2>1. TypeOK'
    BY <1>t, <1>2
       DEF NextStage, FailSafe, ParentReturns, ParentRaises, CycleDone, TypeOK, Steps
  <2>2. pc' \notin {"down", "ingest", "seed"} /\ UNCHANGED <<rows, trades, marked, hadRow>>
    BY <1>2 DEF NextStage, FailSafe, ParentReturns, ParentRaises, CycleDone
  <2> QED BY <2>1, <2>2, TablesUntouched DEF IInv
<1>3. CASE Register
  <2>1. writing \in Trades
    BY <1>t, <1>3 DEF Register, TypeOK
  <2>2. /\ trades' \subseteq Trades /\ OneTradePerPosition'
        /\ Stored \subseteq Stored' /\ writing[1] \in Stored'
    BY <1>3, <2>1, StoreTradeStores DEF Register, IInv
  <2>3. TypeOK'
    BY <1>t, <1>3, <2>2 DEF Register, TypeOK
  <2>4. RowGoneMeansTraded' /\ MarkedMeansStored' /\ Ingesting' /\ StartupCatchesUp'
    BY <1>3, <2>2 DEF IInv, Register, RowGoneMeansTraded, MarkedMeansStored, Ingesting,
       StartupCatchesUp
  <2> QED BY <2>2, <2>3, <2>4 DEF IInv
<1>4. CASE RegisterFailed
  <2>1. TypeOK'
    BY <1>t, <1>4 DEF RegisterFailed, TypeOK
  <2> QED BY <2>1, <1>4, TablesUntouched DEF RegisterFailed, IInv
<1>5. ASSUME NEW p \in Positions, ExitConfirmed(p) PROVE IInv'
  <2>1. exits[p] + 1 \in 1..MaxExits
    BY <1>t, <1>5 DEF ExitConfirmed, TypeOK
  <2>2. TypeOK'
    BY <1>t, <1>5, <2>1 DEF ExitConfirmed, TypeOK, Trades
  <2> QED BY <2>2, <1>5, TablesUntouched DEF ExitConfirmed, IInv
<1>6. ASSUME NEW p \in Positions, EntryConfirmed(p) PROVE IInv'
  <2>1. TypeOK'
    BY <1>t, <1>6 DEF EntryConfirmed, TypeOK
  <2> QED BY <2>1, <1>6, TablesUntouched DEF EntryConfirmed, IInv
<1>7. ASSUME NEW p \in Positions, Insert(p) PROVE IInv'
  <2>1. TypeOK'
    BY <1>t, <1>7 DEF Insert, TypeOK
  <2>2. RowGoneMeansTraded'
    BY <1>7 DEF IInv, Insert, RowGoneMeansTraded, Stored
  <2>3. OneTradePerPosition' /\ MarkedMeansStored' /\ Ingesting' /\ StartupCatchesUp'
    BY <1>7 DEF IInv, Insert, OneTradePerPosition, MarkedMeansStored, Ingesting,
       StartupCatchesUp, Stored
  <2> QED BY <2>1, <2>2, <2>3 DEF IInv
<1>8. ASSUME NEW t \in Trades, WriteFile(t) PROVE IInv'
  <2>1. TypeOK'
    BY <1>t, <1>8 DEF WriteFile, TypeOK
  <2> QED BY <2>1, <1>8, TablesUntouched DEF WriteFile, IInv
<1> QED BY <1>1, <1>2, <1>3, <1>4, <1>5, <1>6, <1>7, <1>8 DEF CycleStep

\* Dying drops what was in memory, and nothing on disk.
LEMMA NextIInv == IInv /\ [Next]_vars => IInv'
<1> SUFFICES ASSUME IInv, [Next]_vars PROVE IInv'
  OBVIOUS
<1> USE StoreAssumption DEF process, disk, history
<1>1. CASE Die
  <2>1. TypeOK'
    BY <1>1 DEF IInv, Die, TypeOK, Steps
  <2> QED BY <2>1, <1>1, TablesUntouched DEF Die, IInv
<1>2. ASSUME NEW p \in Positions, SoldElsewhere(p) PROVE IInv'
  BY <1>2 DEF IInv, SoldElsewhere, TypeOK, OneTradePerPosition, RowGoneMeansTraded,
     MarkedMeansStored, Ingesting, StartupCatchesUp, Stored
<1>3. CASE UNCHANGED vars
  BY <1>3 DEF IInv, vars, TypeOK, OneTradePerPosition, RowGoneMeansTraded,
     MarkedMeansStored, Ingesting, StartupCatchesUp, Stored
<1> QED BY <1>1, <1>2, <1>3, StartupKeeps, CycleKeeps DEF Next

\* The three facts together.
LEMMA Inductive == Spec => []IInv
  BY InitIInv, NextIInv, PTL DEF Spec

\* Memory, tables and files keep their types.
THEOREM TypeCorrect == Spec => []TypeOK
<1>1. IInv => TypeOK
  BY DEF IInv
<1> QED BY <1>1, Inductive, PTL

\* The trades table never counts a position twice, live writes and ingestion
\* together.
THEOREM NoTradeTwice == Spec => []OneTradePerPosition
<1>1. IInv => OneTradePerPosition
  BY DEF IInv
<1> QED BY <1>1, Inductive, PTL

\* No crash and no failed write takes a position out of the database: its row
\* goes only with its trade.
THEOREM NoPositionLost == Spec => []RowGoneMeansTraded
<1>1. IInv => RowGoneMeansTraded
  BY DEF IInv
<1> QED BY <1>1, Inductive, PTL

\* A file that ingestion will skip from now on is in trades.
THEOREM MarksAreTrue == Spec => []MarkedMeansStored
<1>1. IInv => MarkedMeansStored
  BY DEF IInv
<1> QED BY <1>1, Inductive, PTL

\* An ingestion in which the database refused no write catches up with every
\* readable file, whatever the crashes before it interrupted.
THEOREM StartupIsComplete == Spec => []StartupCatchesUp
<1>1. IInv => StartupCatchesUp
  BY DEF IInv
<1> QED BY <1>1, Inductive, PTL

Ledger == [p \in Positions |-> {t \in trades : t[1] = p}]

\* A transaction that stores a trade settles its position, or finds it settled.
LEMMA StoringSettles ==
  ASSUME TypeOK, NEW t \in Trades, StoreTrade(t),
         rows' = rows \/ rows' = rows \ {t[1]}
  PROVE  \/ L!Settle(t[1], t)
         \/ UNCHANGED <<rows \cup Stored, Ledger>>
<1> USE DEF TypeOK, Trades
<1>1. CASE t[1] \in Stored
  BY <1>1 DEF StoreTrade, Stored, Ledger
<1>2. CASE t[1] \notin Stored
  <2>1. trades' = trades \cup {t} /\ t[1] \in Positions
    BY <1>2 DEF StoreTrade
  <2>2. {u \in trades : u[1] = t[1]} = {} /\ {u \in trades' : u[1] = t[1]} = {t}
    BY <1>2, <2>1 DEF Stored
  <2>3. \A q \in Positions : q # t[1] =>
          {u \in trades' : u[1] = q} = {u \in trades : u[1] = q}
    BY <2>1
  <2>4. Ledger' = [Ledger EXCEPT ![t[1]] = {t}]
    BY <2>1, <2>2, <2>3 DEF Ledger
  <2>5. (rows \cup Stored)' = (rows \cup Stored) \cup {t[1]}
    BY <2>1 DEF Stored
  <2>6. Ledger[t[1]] = {}
    BY <2>1, <2>2 DEF Ledger
  <2> QED BY <2>4, <2>5, <2>6 DEF L!Settle, Ledger
<1> QED BY <1>1, <1>2

\* Every step records a position, settles one, or leaves the ledger as it is.
LEMMA StepRefines == IInv /\ [Next]_vars => [L!Next]_<<rows \cup Stored, Ledger>>
<1> SUFFICES ASSUME IInv, [Next]_vars PROVE [L!Next]_<<rows \cup Stored, Ledger>>
  OBVIOUS
<1>t. TypeOK
  BY DEF IInv
<1> DEFINE Same == UNCHANGED <<rows, trades>>
<1>s. Same => UNCHANGED <<rows \cup Stored, Ledger>>
  BY DEF Stored, Ledger
<1>n. ASSUME NEW p \in Positions, NEW t \in Trades, L!Settle(p, t) PROVE L!Next
  BY <1>n DEF L!Next
<1>1. ASSUME NEW t \in Trades, IngestStore(t) PROVE [L!Next]_<<rows \cup Stored, Ledger>>
  <2>1. StoreTrade(t) /\ rows' = rows /\ t[1] \in Positions
    BY <1>1 DEF IngestStore, Trades
  <2> QED BY <1>t, <1>n, <2>1, StoringSettles
<1>2. CASE Register
  <2>1. writing \in Trades
    BY <1>t, <1>2 DEF Register, TypeOK
  <2>2. StoreTrade(writing) /\ rows' = rows \ {writing[1]} /\ writing[1] \in Positions
    BY <1>2, <2>1 DEF Register, Trades
  <2> QED BY <1>t, <1>n, <2>1, <2>2, StoringSettles
<1>3. ASSUME NEW p \in Positions, Insert(p) PROVE [L!Next]_<<rows \cup Stored, Ledger>>
  <2>1. trades' = trades
    BY <1>3 DEF Insert
  <2>2. Stored' = Stored /\ Ledger' = Ledger
    BY <2>1 DEF Stored, Ledger
  <2>3. CASE rows' = rows \cup {p}
    <3>1. CASE p \in rows \cup Stored
      BY <2>2, <2>3, <3>1
    <3>2. CASE p \notin rows \cup Stored
      <4>1. L!Record(p)
        BY <2>2, <2>3, <3>2 DEF L!Record, Ledger
      <4> QED BY <4>1 DEF L!Next
    <3> QED BY <3>1, <3>2
  <2>4. CASE rows' = rows
    BY <2>2, <2>4
  <2> QED BY <1>3, <2>3, <2>4 DEF Insert
<1>4. CASE Start \/ IngestMark \/ IngestDone \/ Seed \/ GuardPasses \/ GuardRepairs
  <2>1. Same
    BY <1>4 DEF Start, IngestMark, IngestDone, Seed, GuardPasses, GuardRepairs, disk
  <2> QED BY <2>1, <1>s
<1>5. CASE \/ Begin("exits") \/ Begin("eod") \/ NextStage \/ RegisterFailed
           \/ FailSafe \/ ParentReturns \/ ParentRaises \/ CycleDone
  <2>1. Same
    BY <1>5 DEF Begin, NextStage, RegisterFailed, FailSafe, ParentReturns, ParentRaises,
       CycleDone, disk
  <2> QED BY <2>1, <1>s
<1>6. ASSUME NEW p \in Positions, ExitConfirmed(p) \/ EntryConfirmed(p) \/ SoldElsewhere(p)
      PROVE  [L!Next]_<<rows \cup Stored, Ledger>>
  <2>1. Same
    BY <1>6 DEF ExitConfirmed, EntryConfirmed, SoldElsewhere, disk
  <2> QED BY <2>1, <1>s
<1>7. ASSUME NEW t \in Trades, IngestFailed(t) \/ WriteFile(t)
      PROVE  [L!Next]_<<rows \cup Stored, Ledger>>
  <2>1. Same
    BY <1>7 DEF IngestFailed, WriteFile, disk
  <2> QED BY <2>1, <1>s
<1>8. CASE Die \/ UNCHANGED vars
  <2>1. Same
    BY <1>8 DEF Die, vars, disk
  <2> QED BY <2>1, <1>s
<1> QED BY <1>1, <1>2, <1>3, <1>4, <1>5, <1>6, <1>7, <1>8 DEF Next, StartupStep, CycleStep

\* The stores implement the ledger, for any positions and any failures: what the
\* database knows of a position is never lost, and its trade is final.
THEOREM ImplementsLedger == Spec => KeepsLedger
<1>1. Init => L!Init
  BY DEF Init, L!Init, Stored
<1> QED BY <1>1, InitIInv, NextIInv, StepRefines, PTL
      DEF Spec, KeepsLedger, L!Spec, Ledger
===============================================================================
