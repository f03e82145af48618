---------------------------- MODULE Runtime_proofs ----------------------------
(***************************************************************************)
(* Theorems about the start and the end of a process of run_live.py: about *)
(* PidLock, for any number of processes launched, crashed and stopped in   *)
(* any order; and about Lifecycle, for any number of rankings, cycles and  *)
(* orders, wherever Ctrl+C meets the threads.                              *)
(***************************************************************************)
EXTENDS PidLock, Lifecycle, FiniteSets, FiniteSetTheorems, TLAPS

--------------------------------------------------------------------------------
\* The lock.

\* With one process acquiring at a time, what each step of the acquisition has
\* found out about a running process is still true when the next step uses it.
Serial ==
  /\ \A p, q \in Acquiring : p = q
  /\ \A p \in Running : file = p /\ written
  /\ \A p \in Procs :
       /\ pc[p] = "write"  => Running = {} /\ file = p
       /\ pc[p] = "kill"   => \A q \in Running : old[p] = q
       /\ pc[p] = "unlink" => Running = {}

\* While nobody has removed the file of a living process, it is the file of whoever
\* created one and has not stopped since.
Owned == \A p \in Procs : pc[p] \in {"write", "running"} => file = p

LockIInv == LockTypeOK /\ (~overlap => Serial) /\ (~taken => Owned)

LEMMA LockStarts == LockInit => LockIInv
  BY LockAssumption
     DEF LockInit, LockIInv, LockTypeOK, Serial, Owned, Steps, Acquiring, Running

LEMMA LockTypeKept == LockTypeOK /\ [LockNext]_lockVars => LockTypeOK'
<1> SUFFICES ASSUME LockTypeOK, [LockNext]_lockVars PROVE LockTypeOK'
  OBVIOUS
<1> USE DEF LockTypeOK, Steps, Go
<1>1. ASSUME NEW p \in Procs, Launch(p) PROVE LockTypeOK'
  BY <1>1 DEF Launch
<1>2. ASSUME NEW p \in Procs, Step(p) PROVE LockTypeOK'
  <2>1. CASE Unlink(p)
    BY <2>1 DEF Unlink, Removed
  <2>2. CASE ~Unlink(p)
    BY <1>2, <2>2 DEF Step, Create, Exists, Write, ReadPid, Refuse, Stale, UnlinkFails
  <2> QED BY <2>1, <2>2
<1>3. ASSUME NEW p \in Procs, Release(p) PROVE LockTypeOK'
  BY <1>3 DEF Release, Removed
<1>4. ASSUME NEW p \in Procs, Die(p) PROVE LockTypeOK'
  BY <1>4 DEF Die
<1>5. CASE UNCHANGED lockVars
  BY <1>5 DEF lockVars
<1> QED BY <1>1, <1>2, <1>3, <1>4, <1>5 DEF LockNext

\* What the histories remember, they remember for good.
LEMMA HistoriesGrow == [LockNext]_lockVars => (overlap => overlap') /\ (taken => taken')
<1> DEFINE Grow == (overlap => overlap') /\ (taken => taken')
<1> SUFFICES ASSUME [LockNext]_lockVars PROVE Grow
  OBVIOUS
<1>1. ASSUME NEW p \in Procs, Removed(p) PROVE Grow
  BY <1>1, Zenon DEF Removed
<1>2. ASSUME NEW p \in Procs, Launch(p) PROVE Grow
  BY <1>2, Zenon DEF Launch
<1>3. CASE UNCHANGED <<overlap, taken>>
  BY <1>3
<1>4. \/ \E p \in Procs : Removed(p) \/ Launch(p)
      \/ UNCHANGED <<overlap, taken>>
  BY DEF LockNext, lockVars, Step, Create, Exists, Write, ReadPid, Refuse, Stale,
     Unlink, UnlinkFails, Release, Die
<1> HIDE DEF Grow
<1> QED BY <1>1, <1>2, <1>3, <1>4

LEMMA SerialKept == LockTypeOK /\ Serial /\ ~overlap' /\ [LockNext]_lockVars => Serial'
<1> SUFFICES ASSUME LockTypeOK, Serial, ~overlap', [LockNext]_lockVars PROVE Serial'
  OBVIOUS
<1> USE LockAssumption
        DEF LockTypeOK, Serial, Steps, Go, Acquiring, Running, Living
<1>1. ASSUME NEW p \in Procs, Launch(p) PROVE Serial'
  BY <1>1 DEF Launch
<1>2. ASSUME NEW p \in Procs, Step(p) PROVE Serial'
  <2>1. CASE Create(p)
    BY <2>1 DEF Create
  <2>2. CASE Exists(p)
    BY <2>2 DEF Exists
  <2>3. CASE Write(p)
    <3>1. file = p /\ Running = {} /\ pc' = [pc EXCEPT ![p] = "running"]
          /\ Acquiring \subseteq {p}
      BY <2>3 DEF Write
    <3>2. written' /\ file' = p
      BY <2>3, <3>1, Zenon DEF Write
    <3>3. Running' = {p} /\ Acquiring' = {}
      BY <3>1
    <3> QED BY <3>1, <3>2, <3>3
  <2>4. CASE ReadPid(p)
    BY <2>4 DEF ReadPid
  <2>5. CASE Refuse(p)
    BY <2>5 DEF Refuse
  <2>6. CASE Stale(p)
    BY <2>6 DEF Stale
  <2>7. CASE Unlink(p)
    BY <2>7 DEF Unlink, Removed
  <2>8. CASE UnlinkFails(p)
    BY <2>8 DEF UnlinkFails
  <2> QED BY <1>2, <2>1, <2>2, <2>3, <2>4, <2>5, <2>6, <2>7, <2>8 DEF Step
<1>3. ASSUME NEW p \in Procs, Release(p) PROVE Serial'
  BY <1>3 DEF Release, Removed
<1>4. ASSUME NEW p \in Procs, Die(p) PROVE Serial'
  BY <1>4 DEF Die
<1>5. CASE UNCHANGED lockVars
  BY <1>5 DEF lockVars
<1> QED BY <1>1, <1>2, <1>3, <1>4, <1>5 DEF LockNext

LEMMA OwnedKept == LockTypeOK /\ Owned /\ ~taken' /\ [LockNext]_lockVars => Owned'
<1> SUFFICES ASSUME LockTypeOK, Owned, ~taken', [LockNext]_lockVars PROVE Owned'
  OBVIOUS
<1> USE LockAssumption DEF LockTypeOK, Owned, Steps, Go
<1>r. ASSUME NEW p \in Procs, Removed(p), pc[p] \in {"unlink", "running"},
             pc' \in {[pc EXCEPT ![p] = "open"], [pc EXCEPT ![p] = "stopped"]}
      PROVE  Owned'
  <2>1. file \notin Living \ {p}
    BY <1>r DEF Removed
  <2>2. ASSUME NEW q \in Procs, pc'[q] \in {"write", "running"} PROVE FALSE
    BY <1>r, <2>1, <2>2 DEF Living
  <2> QED BY <2>2
<1>1. ASSUME NEW p \in Procs, Launch(p) PROVE Owned'
  BY <1>1 DEF Launch
<1>2. ASSUME NEW p \in Procs, Step(p) PROVE Owned'
  <2>1. CASE Create(p)
    BY <2>1 DEF Create
  <2>2. CASE Unlink(p)
    BY <1>r, <2>2 DEF Unlink
  <2>3. CASE ~Create(p) /\ ~Unlink(p)
    BY <1>2, <2>3 DEF Step, Exists, Write, ReadPid, Refuse, Stale, UnlinkFails
  <2> QED BY <2>1, <2>2, <2>3
<1>3. ASSUME NEW p \in Procs, Release(p) PROVE Owned'
  BY <1>r, <1>3 DEF Release
<1>4. ASSUME NEW p \in Procs, Die(p) PROVE Owned'
  BY <1>4 DEF Die
<1>5. CASE UNCHANGED lockVars
  BY <1>5 DEF lockVars
<1> QED BY <1>1, <1>2, <1>3, <1>4, <1>5 DEF LockNext

LEMMA LockInductive == LockSpec => []LockIInv
<1>1. LockIInv /\ [LockNext]_lockVars => LockIInv'
  BY LockTypeKept, SerialKept, OwnedKept, HistoriesGrow DEF LockIInv
<1> QED BY LockStarts, <1>1, PTL DEF LockSpec

\* Steps, file and remembered PIDs keep their types.
THEOREM LockTypeCorrect == LockSpec => []LockTypeOK
<1>1. LockIInv => LockTypeOK
  BY DEF LockIInv
<1> QED BY <1>1, LockInductive, PTL

\* Launched one after the other, any number of processes, crashing and leaving
\* their files behind, never run two at a time.
THEOREM SerialLaunchesExclude == LockSpec => []SerialMutex
<1>1. LockIInv => SerialMutex
  BY DEF LockIInv, Serial, SerialMutex
<1> QED BY <1>1, LockInductive, PTL

\* The file always names the process that runs, so the next launch finds it.
THEOREM RunnerStaysNamed == LockSpec => []RunnerIsNamed
<1>1. LockIInv => RunnerIsNamed
  BY DEF LockIInv, Serial, RunnerIsNamed
<1> QED BY <1>1, LockInductive, PTL

\* However many launches overlap, exclusion is lost only to the removal of the file
\* of a process that lives.
THEOREM OnlyRemovalBreaksMutex == LockSpec => []MutexUnlessTaken
<1>1. LockIInv => MutexUnlessTaken
  BY DEF LockIInv, Owned, MutexUnlessTaken, Running
<1> QED BY <1>1, LockInductive, PTL

--------------------------------------------------------------------------------
\* The threads.

InCycle   == stage # "idle"
Closing   == {"stopTrade", "tradeStopped", "stopRank", "close", "released", "exit", "gone"}
AfterJoin == Closing \ {"stopTrade"}

\* A trading cycle runs on main while it starts and on the thread afterwards; once main
\* is past the join, the thread has ended for good or was given up.
Threads ==
  /\ "trade" \in stopped => main \in Closing
  /\ InCycle => main = "trade0" \/ thread["trade"] = "run"
  /\ main \in AfterJoin => thread["trade"] = "ended" \/ "trade" \in gaveUp
  /\ poolShut => main \in {"exit", "gone"}

\* After the stop event a thread that had already woken begins its cycle, and wakes no more.
LastCycle == tail = 0 \/ (tail = 1 /\ "trade" \in stopped /\ thread["trade"] # "due")

\* At most one order is being handled, and only while the cycle stands between its
\* submission and its report; it is the one sent and not yet reported on.
Handling ==
  /\ now # 0 <=> stage \in {"submit", "sent", "confirm"}
  /\ \A o \in Orders : order[o] \in {"asked", "live"} => o = now
  /\ \A o \in Orders : o = now => order[o] \in {"asked", "live"}

\* The ranking consumed lies between the one read before the cycle, which is stored
\* unless its write failed, and the latest, which has room for the one being computed.
Consumption ==
  /\ tail <= checks
  /\ ranking => latest < MaxRankings
  /\ first <= latest /\ used <= latest
  /\ stage \in {"idle", "check", "health", "clock", "read"} => used = 0
  /\ used # 0 => first <= used
  /\ InCycle /\ ~lost => first = 0 \/ first \in db

IInv == TypeOK /\ Threads /\ LastCycle /\ Handling /\ Consumption

LEMMA BoundsAreNaturals == MaxRankings \in Nat /\ MaxCycles \in Nat /\ MaxOrders \in Nat
  BY LifecycleAssumption

\* write_cycle adds the ranking or reports that it did not.
LEMMA WriteCycleTypes ==
  ASSUME NEW r \in 0..MaxRankings, NEW failed \in BOOLEAN, db \subseteq 1..MaxRankings,
         lost \in BOOLEAN, WriteCycle(r, failed)
  PROVE  db' \subseteq 1..MaxRankings /\ lost' \in BOOLEAN
<1>1. {r} \ {0} \subseteq 1..MaxRankings
  BY BoundsAreNaturals
<1>2. db' \subseteq 1..MaxRankings
  BY <1>1 DEF WriteCycle
<1>3. lost' \in BOOLEAN
  BY DEF WriteCycle
<1> QED BY <1>2, <1>3

LEMMA Starts == Init => IInv
<1> SUFFICES ASSUME Init PROVE IInv
  OBVIOUS
<1>1. H!TypeOK
  BY DEF Init, H!Init, H!TypeOK
<1>2. order \in [Orders -> {"unsent", "asked", "live", "answered", "failed"}]
  BY DEF Init
<1>3. thread \in [Schedulers -> {"none", "sleep", "due", "run", "ended"}]
  BY DEF Init
<1>4. poolShut \in BOOLEAN /\ ranking \in BOOLEAN /\ lost \in BOOLEAN
  BY DEF Init
<1>5. latest \in 0..MaxRankings  /\ {first, used} \subseteq 0..MaxRankings
  BY BoundsAreNaturals DEF Init
<1>6. now \in 0..MaxOrders /\ {checks, tail} \subseteq 0..MaxCycles
  BY BoundsAreNaturals DEF Init
<1>7. db \subseteq 1..MaxRankings /\ polls \subseteq Orders
      /\ stopped \subseteq Schedulers /\ gaveUp \subseteq Schedulers
  BY DEF Init
<1>8. TypeOK
  BY <1>1, <1>2, <1>3, <1>4, <1>5, <1>6, <1>7 DEF Init, TypeOK
<1>9. Threads /\ LastCycle
  BY DEF Init, Threads, LastCycle, InCycle, AfterJoin, Closing
<1>10. Handling
  BY BoundsAreNaturals DEF Init, Handling, Orders
<1>11. Consumption
  BY DEF Init, Consumption, InCycle
<1> QED BY <1>8, <1>9, <1>10, <1>11 DEF IInv

LEMMA TypeKept == TypeOK /\ Handling /\ Consumption /\ [Next]_vars => TypeOK'
<1> SUFFICES ASSUME TypeOK, Handling, Consumption, [Next]_vars PROVE TypeOK'
  OBVIOUS
<1> USE BoundsAreNaturals
        DEF TypeOK, H!TypeOK, Orders, Schedulers, runtime, rankVars, cycleVars, orderVars, healthVars
<1>1. CASE RankBegin
  BY <1>1 DEF RankBegin, Runs
<1>2. CASE Publish
  <2>1. latest' \in 0..MaxRankings
    BY <1>2 DEF Publish, Consumption
  <2>2. stopped' \subseteq Schedulers /\ main' \in {"trade0", main}
    BY <1>2 DEF Publish, Returns, StartThread
  <2>3. thread' \in [Schedulers -> {"none", "sleep", "due", "run", "ended"}]
    BY <1>2 DEF Publish, Returns, StartThread
  <2>4. gaveUp' = gaveUp /\ poolShut' = poolShut /\ ranking' = FALSE
        /\ UNCHANGED <<cycleVars, orderVars, healthVars>>
    BY <1>2 DEF Publish
  <2>5. gaveUp' \subseteq Schedulers /\ poolShut' \in BOOLEAN /\ ranking' \in BOOLEAN
    BY <2>4
  <2>6. {first', used'} \subseteq 0..MaxRankings /\ {checks', tail'} \subseteq 0..MaxCycles
        /\ db' \subseteq 1..MaxRankings /\ lost' \in BOOLEAN
    BY <2>4
  <2>7. order' \in [Orders -> {"unsent", "asked", "live", "answered", "failed"}]
        /\ now' \in 0..MaxOrders /\ polls' \subseteq Orders /\ H!TypeOK'
    BY <2>4
  <2>8. stage' = stage
    BY <2>4
  <2>9. main' \in {"rank0", "trade0", "beat", "stopTrade", "tradeStopped", "stopRank",
                   "close", "released", "exit", "gone"}
    BY <2>2
  <2> QED BY <2>1, <2>2, <2>3, <2>5, <2>6, <2>7, <2>8, <2>9
<1>3. CASE CycleBegin
  <2>1. db' \subseteq 1..MaxRankings /\ lost' \in BOOLEAN
    BY <1>3, WriteCycleTypes DEF CycleBegin
  <2>2. thread' \in [Schedulers -> {"none", "sleep", "due", "run", "ended"}]
    BY <1>3 DEF CycleBegin, Runs
  <2>3. checks' \in 0..MaxCycles /\ tail' \in 0..MaxCycles
    BY <1>3 DEF CycleBegin, Consumption
  <2> QED BY <1>3, <2>1, <2>2, <2>3 DEF CycleBegin
<1>4. CASE HealthBegin
  BY <1>4 DEF HealthBegin, H!Begin
<1>5. CASE HealthStep
  BY <1>5 DEF HealthStep, H!Receive, H!TimeOut
<1>6. CASE HealthEnd
  BY <1>6 DEF HealthEnd, H!Leave, H!Healthy
<1>7. CASE Read
  BY <1>7 DEF Read
<1>8. CASE StartPoll
  <2>1. order' \in [Orders -> {"unsent", "asked", "live", "answered", "failed"}]
    BY <1>8 DEF StartPoll, Polled, GivesUp
  <2>2. now \in Orders
    BY <1>8 DEF StartPoll, Handling
  <2>3. polls' \subseteq Orders
    BY <1>8, <2>2 DEF StartPoll, Polled, GivesUp
  <2> QED BY <1>8, <2>1, <2>3 DEF StartPoll, Polled, GivesUp
<1>9. CASE Confirm
  <2>1. order' \in [Orders -> {"unsent", "asked", "live", "answered", "failed"}]
    BY <1>9 DEF Confirm, GivesUp
  <2> QED BY <1>9, <2>1 DEF Confirm, GivesUp
<1>10. CASE ParentReturns
  BY <1>10 DEF ParentReturns
<1>11. CASE CycleEnd
  <2>1. db' \subseteq 1..MaxRankings /\ lost' \in BOOLEAN
    BY <1>11, WriteCycleTypes DEF CycleEnd
  <2>2. stopped' \subseteq Schedulers /\ main' \in {"beat", main}
    BY <1>11 DEF CycleEnd, Returns, StartThread
  <2>3. thread' \in [Schedulers -> {"none", "sleep", "due", "run", "ended"}]
    BY <1>11 DEF CycleEnd, Returns, StartThread
  <2> QED BY <1>11, <2>1, <2>2, <2>3 DEF CycleEnd
<1>12. ASSUME NEW o \in Orders, Send(o) PROVE TypeOK'
  BY <1>12 DEF Send
<1>13. CASE HealthAnswer
  BY <1>13 DEF HealthAnswer, H!Answer
<1>14. CASE Join("trade", "stopTrade", "tradeStopped")
  <2>1. gaveUp' \subseteq Schedulers
    BY <1>14 DEF Join
  <2> QED BY <1>14, <2>1 DEF Join, Goes, OnlyMain
<1>15. CASE Stop("rank", "tradeStopped", "stopRank")
  BY <1>15 DEF Stop, Goes, OnlyMain
<1>16. CASE Join("rank", "stopRank", "close")
  <2>1. gaveUp' \subseteq Schedulers
    BY <1>16 DEF Join
  <2> QED BY <1>16, <2>1 DEF Join, Goes, OnlyMain
<1>17. CASE CloseAndRelease
  BY <1>17 DEF CloseAndRelease, Goes, OnlyMain
<1>18. CASE ShutPools
  BY <1>18 DEF ShutPools, Goes, OnlyMain
<1>19. CASE Vanish
  BY <1>19 DEF Vanish, Goes, OnlyMain
<1>20. CASE Stop("trade", "beat", "stopTrade")
  BY <1>20 DEF Stop, Goes, OnlyMain
<1>21. ASSUME NEW s \in Schedulers, Wake(s) PROVE TypeOK'
  BY <1>21 DEF Wake
<1>22. ASSUME NEW s \in Schedulers, ThreadEnds(s) PROVE TypeOK'
  BY <1>22 DEF ThreadEnds
<1>23. ASSUME NEW o \in Orders, PollEnds(o) PROVE TypeOK'
  BY <1>23 DEF PollEnds
<1>24. CASE UNCHANGED vars
  BY <1>24 DEF vars
<1>25. CASE ClockAnswers
  BY <1>25 DEF ClockAnswers
<1>26. CASE BrokerAnswers
  BY <1>26 DEF BrokerAnswers
<1>27. CASE SubmitAccepted
  <2>1. order' \in [Orders -> {"unsent", "asked", "live", "answered", "failed"}]
    BY <1>27 DEF SubmitAccepted
  <2> QED BY <1>27, <2>1 DEF SubmitAccepted
<1>28. CASE SubmitRaises
  <2>1. order' \in [Orders -> {"unsent", "asked", "live", "answered", "failed"}]
    BY <1>28 DEF SubmitRaises, GivesUp
  <2> QED BY <1>28, <2>1 DEF SubmitRaises, GivesUp
<1> QED BY <1>1, <1>2, <1>3, <1>4, <1>5, <1>6, <1>7, <1>8, <1>9, <1>10, <1>11, <1>12, <1>13, <1>14, <1>15, <1>16, <1>17, <1>18, <1>19, <1>20, <1>21, <1>22, <1>23, <1>24,
       <1>25, <1>26, <1>27, <1>28
         DEF Next, RankStep, TradeStep, Shutdown

LEMMA ThreadsKept == TypeOK /\ Threads /\ [Next]_vars => Threads'
<1> SUFFICES ASSUME TypeOK, Threads, [Next]_vars PROVE Threads'
  OBVIOUS
<1> USE DEF TypeOK, Threads, Schedulers, InCycle, Closing, AfterJoin,
            runtime, rankVars, cycleVars, orderVars, healthVars
<1>1. CASE RankBegin
  BY <1>1 DEF RankBegin, Runs
<1>2. CASE Publish
  BY <1>2 DEF Publish, Returns, StartThread
<1>3. CASE CycleBegin
  BY <1>3 DEF CycleBegin, Runs, WriteCycle
<1>4. CASE HealthBegin
  BY <1>4 DEF HealthBegin, H!Begin
<1>5. CASE HealthStep
  BY <1>5 DEF HealthStep, H!Receive, H!TimeOut
<1>6. CASE HealthEnd
  BY <1>6 DEF HealthEnd, H!Leave, H!Healthy
<1>7. CASE Read
  BY <1>7 DEF Read
<1>8. CASE StartPoll
  BY <1>8 DEF StartPoll, Polled, GivesUp
<1>9. CASE Confirm
  BY <1>9 DEF Confirm, GivesUp
<1>10. CASE ParentReturns
  BY <1>10 DEF ParentReturns
<1>11. CASE CycleEnd
  BY <1>11 DEF CycleEnd, WriteCycle, Returns, StartThread
<1>12. ASSUME NEW o \in Orders, Send(o) PROVE Threads'
  BY <1>12 DEF Send
<1>13. CASE HealthAnswer
  BY <1>13 DEF HealthAnswer, H!Answer
<1>14. CASE Join("trade", "stopTrade", "tradeStopped")
  BY <1>14 DEF Join, Goes, OnlyMain
<1>15. CASE Stop("rank", "tradeStopped", "stopRank")
  BY <1>15 DEF Stop, Goes, OnlyMain
<1>16. CASE Join("rank", "stopRank", "close")
  BY <1>16 DEF Join, Goes, OnlyMain
<1>17. CASE CloseAndRelease
  BY <1>17 DEF CloseAndRelease, Goes, OnlyMain
<1>18. CASE ShutPools
  BY <1>18 DEF ShutPools, Goes, OnlyMain
<1>19. CASE Vanish
  BY <1>19 DEF Vanish, Goes, OnlyMain
<1>20. CASE Stop("trade", "beat", "stopTrade")
  BY <1>20 DEF Stop, Goes, OnlyMain
<1>21. ASSUME NEW s \in Schedulers, Wake(s) PROVE Threads'
  BY <1>21 DEF Wake
<1>22. ASSUME NEW s \in Schedulers, ThreadEnds(s) PROVE Threads'
  BY <1>22 DEF ThreadEnds
<1>23. ASSUME NEW o \in Orders, PollEnds(o) PROVE Threads'
  BY <1>23 DEF PollEnds
<1>24. CASE UNCHANGED vars
  BY <1>24 DEF vars
<1>25. CASE ClockAnswers
  BY <1>25 DEF ClockAnswers
<1>26. CASE BrokerAnswers
  BY <1>26 DEF BrokerAnswers
<1>27. CASE SubmitAccepted
  BY <1>27 DEF SubmitAccepted
<1>28. CASE SubmitRaises
  BY <1>28 DEF SubmitRaises, GivesUp
<1> QED BY <1>1, <1>2, <1>3, <1>4, <1>5, <1>6, <1>7, <1>8, <1>9, <1>10, <1>11, <1>12, <1>13, <1>14, <1>15, <1>16, <1>17, <1>18, <1>19, <1>20, <1>21, <1>22, <1>23, <1>24,
       <1>25, <1>26, <1>27, <1>28
         DEF Next, RankStep, TradeStep, Shutdown

LEMMA LastCycleKept == TypeOK /\ Threads /\ LastCycle /\ [Next]_vars => LastCycle'
<1> SUFFICES ASSUME TypeOK, Threads, LastCycle, [Next]_vars PROVE LastCycle'
  OBVIOUS
<1> USE DEF TypeOK, Threads, LastCycle, Schedulers, Closing,
            runtime, rankVars, cycleVars, orderVars, healthVars
<1>1. CASE RankBegin
  BY <1>1 DEF RankBegin, Runs
<1>2. CASE Publish
  BY <1>2 DEF Publish, Returns, StartThread
<1>3. CASE CycleBegin
  BY <1>3 DEF CycleBegin, Runs, WriteCycle
<1>4. CASE HealthBegin
  BY <1>4 DEF HealthBegin, H!Begin
<1>5. CASE HealthStep
  BY <1>5 DEF HealthStep, H!Receive, H!TimeOut
<1>6. CASE HealthEnd
  BY <1>6 DEF HealthEnd, H!Leave, H!Healthy
<1>7. CASE Read
  BY <1>7 DEF Read
<1>8. CASE StartPoll
  BY <1>8 DEF StartPoll, Polled, GivesUp
<1>9. CASE Confirm
  BY <1>9 DEF Confirm, GivesUp
<1>10. CASE ParentReturns
  BY <1>10 DEF ParentReturns
<1>11. CASE CycleEnd
  BY <1>11 DEF CycleEnd, WriteCycle, Returns, StartThread
<1>12. ASSUME NEW o \in Orders, Send(o) PROVE LastCycle'
  BY <1>12 DEF Send
<1>13. CASE HealthAnswer
  BY <1>13 DEF HealthAnswer, H!Answer
<1>14. CASE Join("trade", "stopTrade", "tradeStopped")
  BY <1>14 DEF Join, Goes, OnlyMain
<1>15. CASE Stop("rank", "tradeStopped", "stopRank")
  BY <1>15 DEF Stop, Goes, OnlyMain
<1>16. CASE Join("rank", "stopRank", "close")
  BY <1>16 DEF Join, Goes, OnlyMain
<1>17. CASE CloseAndRelease
  BY <1>17 DEF CloseAndRelease, Goes, OnlyMain
<1>18. CASE ShutPools
  BY <1>18 DEF ShutPools, Goes, OnlyMain
<1>19. CASE Vanish
  BY <1>19 DEF Vanish, Goes, OnlyMain
<1>20. CASE Stop("trade", "beat", "stopTrade")
  BY <1>20 DEF Stop, Goes, OnlyMain
<1>21. ASSUME NEW s \in Schedulers, Wake(s) PROVE LastCycle'
  BY <1>21 DEF Wake
<1>22. ASSUME NEW s \in Schedulers, ThreadEnds(s) PROVE LastCycle'
  BY <1>22 DEF ThreadEnds
<1>23. ASSUME NEW o \in Orders, PollEnds(o) PROVE LastCycle'
  BY <1>23 DEF PollEnds
<1>24. CASE UNCHANGED vars
  BY <1>24 DEF vars
<1>25. CASE ClockAnswers
  BY <1>25 DEF ClockAnswers
<1>26. CASE BrokerAnswers
  BY <1>26 DEF BrokerAnswers
<1>27. CASE SubmitAccepted
  BY <1>27 DEF SubmitAccepted
<1>28. CASE SubmitRaises
  BY <1>28 DEF SubmitRaises, GivesUp
<1> QED BY <1>1, <1>2, <1>3, <1>4, <1>5, <1>6, <1>7, <1>8, <1>9, <1>10, <1>11, <1>12, <1>13, <1>14, <1>15, <1>16, <1>17, <1>18, <1>19, <1>20, <1>21, <1>22, <1>23, <1>24,
       <1>25, <1>26, <1>27, <1>28
         DEF Next, RankStep, TradeStep, Shutdown

LEMMA HandlingKept == TypeOK /\ Threads /\ Handling /\ [Next]_vars => Handling'
<1> SUFFICES ASSUME TypeOK, Threads, Handling, [Next]_vars PROVE Handling'
  OBVIOUS
<1> USE BoundsAreNaturals
        DEF TypeOK, Threads, Handling, Orders, Schedulers, InCycle, Closing, AfterJoin,
            runtime, rankVars, cycleVars, orderVars, healthVars
<1>1. CASE RankBegin
  BY <1>1 DEF RankBegin, Runs
<1>2. CASE Publish
  BY <1>2 DEF Publish, Returns, StartThread
<1>3. CASE CycleBegin
  BY <1>3 DEF CycleBegin, Runs, WriteCycle
<1>4. CASE HealthBegin
  BY <1>4 DEF HealthBegin, H!Begin
<1>5. CASE HealthStep
  BY <1>5 DEF HealthStep, H!Receive, H!TimeOut
<1>6. CASE HealthEnd
  BY <1>6 DEF HealthEnd, H!Leave, H!Healthy
<1>7. CASE Read
  BY <1>7 DEF Read
<1>8. CASE StartPoll
  BY <1>8 DEF StartPoll, Polled, GivesUp
<1>9. CASE Confirm
  BY <1>9 DEF Confirm, GivesUp
<1>10. CASE ParentReturns
  BY <1>10 DEF ParentReturns
<1>11. CASE CycleEnd
  BY <1>11 DEF CycleEnd, WriteCycle, Returns, StartThread
<1>12. ASSUME NEW o \in Orders, Send(o) PROVE Handling'
  BY <1>12 DEF Send
<1>13. CASE HealthAnswer
  BY <1>13 DEF HealthAnswer, H!Answer
<1>14. CASE Join("trade", "stopTrade", "tradeStopped")
  BY <1>14 DEF Join, Goes, OnlyMain
<1>15. CASE Stop("rank", "tradeStopped", "stopRank")
  BY <1>15 DEF Stop, Goes, OnlyMain
<1>16. CASE Join("rank", "stopRank", "close")
  BY <1>16 DEF Join, Goes, OnlyMain
<1>17. CASE CloseAndRelease
  BY <1>17 DEF CloseAndRelease, Goes, OnlyMain
<1>18. CASE ShutPools
  BY <1>18 DEF ShutPools, Goes, OnlyMain
<1>19. CASE Vanish
  BY <1>19 DEF Vanish, Goes, OnlyMain
<1>20. CASE Stop("trade", "beat", "stopTrade")
  BY <1>20 DEF Stop, Goes, OnlyMain
<1>21. ASSUME NEW s \in Schedulers, Wake(s) PROVE Handling'
  BY <1>21 DEF Wake
<1>22. ASSUME NEW s \in Schedulers, ThreadEnds(s) PROVE Handling'
  BY <1>22 DEF ThreadEnds
<1>23. ASSUME NEW o \in Orders, PollEnds(o) PROVE Handling'
  BY <1>23 DEF PollEnds
<1>24. CASE UNCHANGED vars
  BY <1>24 DEF vars
<1>25. CASE ClockAnswers
  BY <1>25 DEF ClockAnswers
<1>26. CASE BrokerAnswers
  BY <1>26 DEF BrokerAnswers
<1>27. CASE SubmitAccepted
  BY <1>27 DEF SubmitAccepted
<1>28. CASE SubmitRaises
  BY <1>28 DEF SubmitRaises, GivesUp
<1> QED BY <1>1, <1>2, <1>3, <1>4, <1>5, <1>6, <1>7, <1>8, <1>9, <1>10, <1>11, <1>12, <1>13, <1>14, <1>15, <1>16, <1>17, <1>18, <1>19, <1>20, <1>21, <1>22, <1>23, <1>24,
       <1>25, <1>26, <1>27, <1>28
         DEF Next, RankStep, TradeStep, Shutdown

LEMMA ConsumptionKept == TypeOK /\ Consumption /\ [Next]_vars => Consumption'
<1> SUFFICES ASSUME TypeOK, Consumption, [Next]_vars PROVE Consumption'
  OBVIOUS
<1> USE BoundsAreNaturals
        DEF TypeOK, Consumption, InCycle, runtime, rankVars, cycleVars, orderVars, healthVars
<1>1. CASE RankBegin
  BY <1>1 DEF RankBegin, Runs
<1>2. CASE Publish
  BY <1>2 DEF Publish, Returns, StartThread
<1>3. CASE CycleBegin
  BY <1>3 DEF CycleBegin, Runs, WriteCycle
<1>4. CASE HealthBegin
  BY <1>4 DEF HealthBegin, H!Begin
<1>5. CASE HealthStep
  BY <1>5 DEF HealthStep, H!Receive, H!TimeOut
<1>6. CASE HealthEnd
  BY <1>6 DEF HealthEnd, H!Leave, H!Healthy
<1>7. CASE Read
  BY <1>7 DEF Read
<1>8. CASE StartPoll
  BY <1>8 DEF StartPoll, Polled, GivesUp
<1>9. CASE Confirm
  BY <1>9 DEF Confirm, GivesUp
<1>10. CASE ParentReturns
  BY <1>10 DEF ParentReturns
<1>11. CASE CycleEnd
  BY <1>11 DEF CycleEnd, WriteCycle, Returns, StartThread
<1>12. ASSUME NEW o \in Orders, Send(o) PROVE Consumption'
  BY <1>12 DEF Send
<1>13. CASE HealthAnswer
  BY <1>13 DEF HealthAnswer, H!Answer
<1>14. CASE Join("trade", "stopTrade", "tradeStopped")
  BY <1>14 DEF Join, Goes, OnlyMain
<1>15. CASE Stop("rank", "tradeStopped", "stopRank")
  BY <1>15 DEF Stop, Goes, OnlyMain
<1>16. CASE Join("rank", "stopRank", "close")
  BY <1>16 DEF Join, Goes, OnlyMain
<1>17. CASE CloseAndRelease
  BY <1>17 DEF CloseAndRelease, Goes, OnlyMain
<1>18. CASE ShutPools
  BY <1>18 DEF ShutPools, Goes, OnlyMain
<1>19. CASE Vanish
  BY <1>19 DEF Vanish, Goes, OnlyMain
<1>20. CASE Stop("trade", "beat", "stopTrade")
  BY <1>20 DEF Stop, Goes, OnlyMain
<1>21. ASSUME NEW s \in Schedulers, Wake(s) PROVE Consumption'
  BY <1>21 DEF Wake
<1>22. ASSUME NEW s \in Schedulers, ThreadEnds(s) PROVE Consumption'
  BY <1>22 DEF ThreadEnds
<1>23. ASSUME NEW o \in Orders, PollEnds(o) PROVE Consumption'
  BY <1>23 DEF PollEnds
<1>24. CASE UNCHANGED vars
  BY <1>24 DEF vars
<1>25. CASE ClockAnswers
  BY <1>25 DEF ClockAnswers
<1>26. CASE BrokerAnswers
  BY <1>26 DEF BrokerAnswers
<1>27. CASE SubmitAccepted
  BY <1>27 DEF SubmitAccepted
<1>28. CASE SubmitRaises
  BY <1>28 DEF SubmitRaises, GivesUp
<1> QED BY <1>1, <1>2, <1>3, <1>4, <1>5, <1>6, <1>7, <1>8, <1>9, <1>10, <1>11, <1>12, <1>13, <1>14, <1>15, <1>16, <1>17, <1>18, <1>19, <1>20, <1>21, <1>22, <1>23, <1>24,
       <1>25, <1>26, <1>27, <1>28
         DEF Next, RankStep, TradeStep, Shutdown

LEMMA Inductive == Spec => []IInv
<1>1. IInv /\ [Next]_vars => IInv'
  BY TypeKept, ThreadsKept, LastCycleKept, HandlingKept, ConsumptionKept DEF IInv, Consumption
<1> QED BY Starts, <1>1, PTL DEF Spec

\* Main, threads, cycle and orders keep their types.
THEOREM TypeCorrect == Spec => []TypeOK
<1>1. IInv => TypeOK
  BY DEF IInv
<1> QED BY <1>1, Inductive, PTL

\* Wherever Ctrl+C meets the threads, an order sent is in the hands of the cycle or was
\* reported on, unless the interpreter ended under a cycle that stop() gave up.
THEOREM OrdersStayAccounted == Spec => []OrdersAccounted
<1>1. IInv => OrdersAccounted
  <2> SUFFICES ASSUME IInv PROVE OrdersAccounted
    OBVIOUS
  <2>1. ASSUME NEW o \in Orders, order[o] \in {"asked", "live"}, main = "gone"
        PROVE  "trade" \in gaveUp
    BY <2>1, BoundsAreNaturals
       DEF IInv, Handling, Threads, InCycle, AfterJoin, Closing, Orders
  <2> QED BY <2>1 DEF IInv, Handling, OrdersAccounted, Alive
<1> QED BY <1>1, Inductive, PTL

\* One cycle at most begins after the stop event, and nothing is released under a cycle
\* that stop() did not give up.
THEOREM ShutdownStaysQuiet == Spec => []ShutdownIsQuiet
<1>1. IInv => ShutdownIsQuiet
  BY DEF IInv, Threads, LastCycle, ShutdownIsQuiet, InCycle, AfterJoin, Closing
<1> QED BY <1>1, Inductive, PTL

\* A ranking is only ever consumed and not stored when a write failed, or when it was
\* neither the latest before the cycle nor the latest after it.
THEOREM ConsumptionIsRecorded == Spec => ConsumedIsRecorded
<1>1. IInv /\ [Next]_vars
      => [stage = "after" /\ stage' = "idle" /\ used # 0 /\ ~lost'
            => used \in db' \/ (first < used /\ used < latest)]_vars
  <2> SUFFICES ASSUME IInv, [Next]_vars, stage = "after", stage' = "idle", used # 0, ~lost'
               PROVE  used \in db' \/ (first < used /\ used < latest)
    OBVIOUS
  <2>1. CycleEnd
    BY DEF Next, vars, RankStep, TradeStep, Shutdown, RankBegin, Publish, CycleBegin,
           HealthBegin, HealthStep, HealthEnd, ClockAnswers, Read, BrokerAnswers, Send,
           SubmitAccepted, SubmitRaises, StartPoll, Polled, Confirm, GivesUp, ParentReturns,
           HealthAnswer, Join, Stop, CloseAndRelease, ShutPools, Vanish, OnlyMain, Wake,
           ThreadEnds, PollEnds, runtime, rankVars, cycleVars, orderVars, healthVars
  <2>2. ~lost /\ db' = db \cup ({latest} \ {0})
    BY <2>1 DEF CycleEnd, WriteCycle
  <2>3. first \in Nat /\ used \in Nat /\ latest \in Nat
    BY BoundsAreNaturals DEF IInv, TypeOK
  <2>4. first <= used /\ used <= latest /\ (first = 0 \/ first \in db)
    BY <2>2 DEF IInv, Consumption, InCycle
  <2> QED BY <2>2, <2>3, <2>4
<1> QED BY <1>1, Inductive, PTL DEF Spec, ConsumedIsRecorded

--------------------------------------------------------------------------------
\* The end of a cycle, as far as safety goes.

Unsent == {o \in Orders : order[o] = "unsent"}

\* How far the cycle is from its end at most: each order still takes a submission, a
\* reply, a task, an answer and the queries after it.
Stage ==
  CASE stage = "idle"    -> 0
    [] stage = "after"   -> 1
    [] stage = "trading" -> 2
    [] stage = "asking"  -> 3
    [] stage = "confirm" -> 4
    [] stage = "sent"    -> 5
    [] stage = "submit"  -> 6
    [] stage = "read"    -> 4
    [] stage = "clock"   -> 5
    [] stage = "health"  -> IF hpc = "waiting" THEN 7 ELSE 6
    [] stage = "check"   -> 8
ToGo == Stage + (IF stage \in {"idle", "after"} THEN 0 ELSE 5 * Cardinality(Unsent))

\* Each step of a cycle brings it nearer to its end, and nothing else that happens in
\* the process takes it further away.
Advances ==
  /\ ToGo \in Nat
  /\ stage # "idle" /\ TradeStep => ToGo' < ToGo
  /\ stage # "idle" /\ ~TradeStep => ToGo' = ToGo

LEMMA UnsentIsFinite == IsFiniteSet(Unsent) /\ Cardinality(Unsent) \in Nat
<1>1. IsFiniteSet(Orders)
  BY FS_Interval, BoundsAreNaturals DEF Orders
<1> QED BY <1>1, FS_Subset, FS_CardinalityType DEF Unsent

LEMMA SendLeavesFewer ==
  ASSUME TypeOK, NEW o \in Orders, Send(o)
  PROVE  Cardinality(Unsent') = Cardinality(Unsent) - 1
<1>1. o \in Unsent /\ Unsent' = Unsent \ {o}
  BY DEF Send, Unsent, TypeOK
<1> QED BY <1>1, UnsentIsFinite, FS_RemoveElement

\* Nothing but Send makes an unsent order another, and none becomes unsent.
LEMMA UnsentStays ==
  ASSUME TypeOK, Handling, [Next]_vars, ~ \E o \in Orders : Send(o)
  PROVE  Unsent' = Unsent
<1>1. CASE StartPoll
  BY <1>1, BoundsAreNaturals DEF StartPoll, Polled, GivesUp, Handling, TypeOK, Unsent
<1>2. CASE Confirm
  BY <1>2, BoundsAreNaturals DEF Confirm, GivesUp, Handling, TypeOK, Unsent
<1>4. CASE SubmitAccepted \/ SubmitRaises
  BY <1>4, BoundsAreNaturals DEF SubmitAccepted, SubmitRaises, GivesUp, Handling, TypeOK, Unsent
<1>3. CASE ~StartPoll /\ ~Confirm /\ ~SubmitAccepted /\ ~SubmitRaises
  <2>1. order' = order
    BY <1>3 DEF Next, vars, RankStep, TradeStep, Shutdown, RankBegin, Publish, CycleBegin,
           HealthBegin, HealthStep, HealthEnd, ClockAnswers, Read, BrokerAnswers,
           ParentReturns, CycleEnd,
           HealthAnswer, Join, Stop, CloseAndRelease, ShutPools, Vanish, OnlyMain, Wake,
           ThreadEnds, PollEnds, runtime, rankVars, cycleVars, orderVars, healthVars
  <2> QED BY <2>1 DEF Unsent
<1> QED BY <1>1, <1>2, <1>3, <1>4

\* Each cycle of the trading thread comes nearer to its end with every step it takes: no
\* retry, timeout or shutdown sets it back. What is left of termination is that it goes
\* on taking steps, which is fairness.
THEOREM CyclesAdvance == Spec => [][Advances]_vars
<1>1. IInv /\ [Next]_vars => [Advances]_vars
  <2> SUFFICES ASSUME IInv, [Next]_vars PROVE Advances
    OBVIOUS
  <2> USE DEF IInv
  <2> DEFINE U == Cardinality(Unsent)
             UU == Cardinality(Unsent')
  <2>u. U \in Nat
    BY UnsentIsFinite
  <2>n. stage \in {"idle", "check", "health", "clock", "read", "asking", "trading", "submit",
                  "sent", "confirm", "after"}
    BY DEF TypeOK
  <2>t. ToGo = Stage + (IF stage \in {"idle", "after"} THEN 0 ELSE 5 * U)
        /\ ToGo' = Stage' + (IF stage' \in {"idle", "after"} THEN 0 ELSE 5 * UU)
    BY DEF ToGo
  <2>v. ToGo \in Nat
    BY <2>u, <2>n, <2>t DEF Stage
  <2>1. ASSUME NEW o \in Orders, Send(o) PROVE UU = U - 1
    BY <2>1, SendLeavesFewer
  <2>2. ASSUME ~ \E o \in Orders : Send(o) PROVE UU = U
    BY <2>2, UnsentStays
  <2> HIDE DEF U, UU
  <2>3. ASSUME TradeStep, stage # "idle" PROVE ToGo' < ToGo
    <3>1. ASSUME NEW o \in Orders, Send(o) PROVE ToGo' < ToGo
      <4>1. UU = U - 1
        BY <3>1, <2>1
      <4>2. stage = "trading" /\ stage' = "submit"
        BY <3>1 DEF Send
      <4> QED BY <4>1, <4>2, <2>u, <2>t DEF Stage
    <3>2. CASE (~ \E o \in Orders : Send(o)) /\ HealthBegin
      BY <3>2, <2>2, <2>u, <2>t DEF HealthBegin, H!Begin, Stage
    <3>3. CASE (~ \E o \in Orders : Send(o)) /\ HealthStep
      BY <3>3, <2>2, <2>u, <2>t DEF HealthStep, H!Receive, H!TimeOut, Stage, cycleVars
    <3>4. CASE (~ \E o \in Orders : Send(o)) /\ HealthEnd
      BY <3>4, <2>2, <2>u, <2>t DEF HealthEnd, H!Leave, Stage
    <3>5. CASE (~ \E o \in Orders : Send(o)) /\ Read
      BY <3>5, <2>2, <2>u, <2>t DEF Read, Stage
    <3>6. CASE (~ \E o \in Orders : Send(o)) /\ StartPoll
      BY <3>6, <2>2, <2>u, <2>t DEF StartPoll, Polled, GivesUp, Stage
    <3>7. CASE (~ \E o \in Orders : Send(o)) /\ Confirm
      BY <3>7, <2>2, <2>u, <2>t DEF Confirm, GivesUp, Stage
    <3>10. CASE (~ \E o \in Orders : Send(o)) /\ (ClockAnswers \/ BrokerAnswers)
      BY <3>10, <2>2, <2>u, <2>t DEF ClockAnswers, BrokerAnswers, Stage
    <3>11. CASE (~ \E o \in Orders : Send(o)) /\ (SubmitAccepted \/ SubmitRaises)
      BY <3>11, <2>2, <2>u, <2>t DEF SubmitAccepted, SubmitRaises, GivesUp, Stage
    <3>8. CASE (~ \E o \in Orders : Send(o)) /\ ParentReturns
      BY <3>8, <2>2, <2>u, <2>t DEF ParentReturns, Stage
    <3>9. CASE CycleEnd
      BY <3>9, <2>t DEF CycleEnd, Stage
    <3> QED BY <2>3, <3>1, <3>2, <3>3, <3>4, <3>5, <3>6, <3>7, <3>8, <3>9, <3>10, <3>11
            DEF TradeStep, CycleBegin
  <2>4. ASSUME ~TradeStep, stage # "idle" PROVE ToGo' = ToGo
    <3>1. UU = U
      BY <2>2, <2>4 DEF TradeStep
    <3>2. stage' = stage /\ hpc' = hpc
      BY <2>4 DEF Next, vars, RankStep, Shutdown, RankBegin, Publish, TradeStep,
         HealthAnswer, H!Answer, Join, Stop, CloseAndRelease, ShutPools, Vanish, OnlyMain,
         Wake, ThreadEnds, PollEnds, runtime, rankVars, cycleVars, orderVars, healthVars
    <3> QED BY <3>1, <3>2, <2>t DEF Stage
  <2> QED BY <2>v, <2>3, <2>4 DEF Advances
<1> QED BY <1>1, Inductive, PTL DEF Spec
===============================================================================
