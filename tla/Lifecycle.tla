------------------------------ MODULE Lifecycle ------------------------------
(***************************************************************************)
(* The threads of one live process, from main()'s start to the end of the  *)
(* interpreter: main (run_live.py), the ranking scheduler and its          *)
(* publications (core/ranking/cycle.py), the trading scheduler and its     *)
(* cycle (core/scheduler.py, loop.py, writer.py), the broker check inside  *)
(* the cycle (Healthcheck) and the polls of the shared pool.               *)
(***************************************************************************)
EXTENDS Naturals, FiniteSets

CONSTANTS
  MaxRankings,  \* bound: rankings published
  MaxCycles,    \* bound: trading cycles begun
  MaxOrders     \* bound: orders sent

ASSUME LifecycleAssumption ==
  {MaxRankings, MaxCycles, MaxOrders} \subseteq Nat \ {0}

Schedulers == {"trade", "rank"}
Orders     == 1..MaxOrders

VARIABLES
  main,      \* where main() stands
  stopped,   \* schedulers whose _stop_event is set
  thread,    \* [Schedulers -> state of its thread]
  gaveUp,    \* schedulers whose thread outlived the join of stop()
  poolShut,  \* the interpreter's exit forbids new futures
  latest,    \* RankingCycle._latest: number of the ranking, 0 for None
  ranking,   \* whether the engine is computing the next one
  db,        \* rankings in ranking_cycles
  stage,     \* where the trading cycle stands
  first,     \* ranked_before of the cycle
  used,      \* the ranking the cycle consumed, 0 for none
  lost,      \* whether one of the cycle's writes of a ranking failed
  order,     \* [Orders -> what became of it]
  now,       \* the order being confirmed, 0 for none
  polls,     \* orders whose poll task runs in the pool
  tail,      \* cycles begun after the stop event
  checks,    \* cycles begun
  hpc, probe, result   \* Healthcheck's own

runtime == <<main, stopped, thread, gaveUp, poolShut>>
rankVars == <<latest, ranking>>
cycleVars == <<db, stage, first, used, lost, checks, tail>>
orderVars == <<order, now, polls>>
healthVars == <<hpc, probe, result>>
vars == <<main, stopped, thread, gaveUp, poolShut, latest, ranking, db, stage, first,
          used, lost, checks, tail, order, now, polls, hpc, probe, result>>

H == INSTANCE Healthcheck WITH pc <- hpc

Init ==
  /\ main = "rank0" /\ stopped = {} /\ gaveUp = {} /\ poolShut = FALSE
  /\ thread = [s \in Schedulers |-> "none"]
  /\ latest = 0 /\ ranking = FALSE /\ db = {}
  /\ stage = "idle" /\ first = 0 /\ used = 0 /\ lost = FALSE
  /\ checks = 0 /\ tail = 0
  /\ order = [o \in Orders |-> "unsent"] /\ now = 0 /\ polls = {}
  /\ H!Init

\* Threads stop where they are when the interpreter is gone.
Alive == main # "gone"

--------------------------------------------------------------------------------
\* Scheduler.

\* Scheduler.start: clear the event, a new thread.
StartThread(s) ==
  /\ stopped' = stopped \ {s}
  /\ thread' = [thread EXCEPT ![s] = "sleep"]

\* _interruptible_sleep is over and the event was not set (mutant: not looked at).
WakeAlways(s) ==
  /\ Alive /\ thread[s] = "sleep"
  /\ thread' = [thread EXCEPT ![s] = "due"]
  /\ UNCHANGED <<main, stopped, gaveUp, poolShut, rankVars, cycleVars, orderVars, healthVars>>
Wake(s) ==
  /\ Alive /\ thread[s] = "sleep" /\ s \notin stopped
  /\ thread' = [thread EXCEPT ![s] = "due"]
  /\ UNCHANGED <<main, stopped, gaveUp, poolShut, rankVars, cycleVars, orderVars, healthVars>>

\* The event is set: the thread returns.
ThreadEnds(s) ==
  /\ Alive /\ thread[s] = "sleep" /\ s \in stopped
  /\ thread' = [thread EXCEPT ![s] = "ended"]
  /\ UNCHANGED <<main, stopped, gaveUp, poolShut, rankVars, cycleVars, orderVars, healthVars>>

\* _execute_once runs on main during start(), on the thread afterwards.
Runs(s, startup) ==
  \/ main = startup /\ UNCHANGED thread
  \/ /\ thread[s] = "due"
     /\ thread' = [thread EXCEPT ![s] = "run"]

\* start() goes on to start the thread; the thread goes back to sleep.
Returns(s, startup, next) ==
  \/ /\ main = startup /\ main' = next
     /\ StartThread(s)
  \/ /\ thread[s] = "run"
     /\ thread' = [thread EXCEPT ![s] = "sleep"]
     /\ UNCHANGED <<main, stopped>>

--------------------------------------------------------------------------------
\* RankingCycle._run_cycle.

RankBegin ==
  /\ Alive /\ ~ranking /\ latest < MaxRankings
  /\ Runs("rank", "rank0")
  /\ ranking' = TRUE
  /\ UNCHANGED <<main, stopped, gaveUp, poolShut, latest, cycleVars, orderVars, healthVars>>

\* run_cycle never raises: its result, empty if need be, becomes _latest under the lock;
\* the JSON file of it is written on a best effort.
Publish ==
  /\ Alive /\ ranking
  /\ latest' = latest + 1 /\ ranking' = FALSE
  /\ Returns("rank", "rank0", "trade0")
  /\ UNCHANGED <<gaveUp, poolShut, cycleVars, orderVars, healthVars>>

--------------------------------------------------------------------------------
\* MemoryAwarePaperTradingLoop._run_cycle.

\* write_cycle, unless there is no ranking; it returns False when the database refuses it.
WriteCycle(r, failed) ==
  \/ db' = db \cup ({r} \ {0}) /\ lost' = failed
  \/ r # 0 /\ UNCHANGED db /\ lost' = TRUE

\* ranked_before is read and written.
CycleBegin ==
  /\ Alive /\ stage = "idle" /\ checks < MaxCycles
  /\ Runs("trade", "trade0")
  /\ stage' = "check" /\ first' = latest /\ checks' = checks + 1
  /\ WriteCycle(latest, FALSE)
  /\ tail' = tail + (IF "trade" \in stopped THEN 1 ELSE 0)
  /\ UNCHANGED <<main, stopped, gaveUp, poolShut, used, rankVars, orderVars, healthVars>>

\* Step 0: healthcheck, whose own pool refuses the probe once the interpreter exits.
HealthBegin ==
  /\ Alive /\ stage = "check"
  /\ IF poolShut
     THEN stage' = "after" /\ UNCHANGED healthVars
     ELSE H!Begin /\ stage' = "health"
  /\ UNCHANGED <<runtime, rankVars, db, first, used, lost, checks, tail, orderVars>>

HealthStep ==
  /\ Alive /\ stage = "health"
  /\ H!Receive \/ H!TimeOut
  /\ UNCHANGED <<runtime, rankVars, cycleVars, orderVars>>

\* The broker owes no answer; the probe's thread outlives everything but the process.
HealthAnswer ==
  /\ Alive
  /\ H!Answer
  /\ UNCHANGED <<runtime, rankVars, cycleVars, orderVars>>

HealthEnd ==
  /\ Alive /\ stage = "health"
  /\ H!Leave
  /\ stage' = IF H!Healthy THEN "clock" ELSE "after"
  /\ UNCHANGED <<runtime, rankVars, db, first, used, lost, checks, tail, orderVars>>

\* Step 1: get_clock, which has no timeout, answers, or raises: the cycle is given up.
ClockAnswers ==
  /\ Alive /\ stage = "clock"
  /\ stage' \in {"read", "after"}
  /\ UNCHANGED <<runtime, rankVars, db, first, used, lost, checks, tail, orderVars, healthVars>>

\* The market is closed or there is no fresh ranking; or the close is near, and the
\* end-of-day pass trades without a ranking; or Step 2, get_latest.
Read ==
  /\ Alive /\ stage = "read"
  /\ \/ stage' = "after" /\ UNCHANGED used
     \/ stage' = "asking" /\ UNCHANGED used
     \/ latest # 0 /\ used' = latest /\ stage' = "asking"
  /\ UNCHANGED <<runtime, rankVars, db, first, lost, checks, tail, orderVars, healthVars>>

\* What the cycle asks the broker before it sends its next order or returns: account,
\* positions, open orders, a liquidation. No call of these has a timeout.
BrokerAnswers ==
  /\ Alive /\ stage = "asking"
  /\ stage' = "trading"
  /\ UNCHANGED <<runtime, rankVars, db, first, used, lost, checks, tail, orderVars, healthVars>>

\* submit_market_order is called, without a timeout either.
Send(o) ==
  /\ Alive /\ stage = "trading" /\ order[o] = "unsent"
  /\ \A q \in 1..(o - 1) : order[q] # "unsent"
  /\ order' = [order EXCEPT ![o] = "asked"] /\ now' = o /\ stage' = "submit"
  /\ UNCHANGED <<runtime, rankVars, db, first, used, lost, checks, tail, polls, healthVars>>

\* It returns the id of the order.
SubmitAccepted ==
  /\ Alive /\ stage = "submit"
  /\ order' = [order EXCEPT ![now] = "live"] /\ stage' = "sent"
  /\ UNCHANGED <<runtime, rankVars, db, first, used, lost, checks, tail, now, polls, healthVars>>

\* enter_position and exit_position catch any exception of the call or of what follows
\* it, and write order_submission_failed, whether or not the broker has the order.
GivesUp == order' = [order EXCEPT ![now] = "failed"] /\ now' = 0 /\ stage' = "asking"

\* It raises: the broker rejected the order, or took it and the reply was lost.
SubmitRaises ==
  /\ Alive /\ stage = "submit"
  /\ GivesUp
  /\ UNCHANGED <<runtime, rankVars, db, first, used, lost, checks, tail, polls, healthVars>>

\* _FILL_POLL_POOL.submit (mutant: without a pool the order is dropped).
Polled == polls' = polls \cup {now} /\ stage' = "confirm" /\ UNCHANGED <<order, now>>
StartPollSilent ==
  /\ Alive /\ stage = "sent"
  /\ \/ ~poolShut /\ Polled
     \/ /\ poolShut /\ stage' = "asking" /\ now' = 0
        /\ UNCHANGED <<order, polls>>
  /\ UNCHANGED <<runtime, rankVars, db, first, used, lost, checks, tail, healthVars>>

\* It raises once the interpreter exits.
StartPoll ==
  /\ Alive /\ stage = "sent"
  /\ \/ ~poolShut /\ Polled
     \/ poolShut /\ GivesUp /\ UNCHANGED polls
  /\ UNCHANGED <<runtime, rankVars, db, first, used, lost, checks, tail, healthVars>>

PollEnds(o) ==
  /\ Alive /\ o \in polls
  /\ polls' = polls \ {o}
  /\ UNCHANGED <<runtime, rankVars, cycleVars, order, now, healthVars>>

\* future.result: the outcome of the task, or the ceiling. A record or order_unfilled,
\* unless building the record raises.
Confirm ==
  /\ Alive /\ stage = "confirm"
  /\ \/ order' = [order EXCEPT ![now] = "answered"] /\ now' = 0 /\ stage' = "asking"
     \/ GivesUp
  /\ UNCHANGED <<runtime, rankVars, db, first, used, lost, checks, tail, polls, healthVars>>

\* The parent's cycle returns or raises; its own wrapper swallows the exception.
ParentReturns ==
  /\ Alive /\ stage = "trading"
  /\ stage' = "after"
  /\ UNCHANGED <<runtime, rankVars, db, first, used, lost, checks, tail, orderVars, healthVars>>

\* get_latest again, and its write (mutant: only the read before is written).
CycleEndUnwritten ==
  /\ Alive /\ stage = "after"
  /\ stage' = "idle" /\ first' = 0 /\ used' = 0
  /\ Returns("trade", "trade0", "beat")
  /\ UNCHANGED <<gaveUp, poolShut, rankVars, db, lost, checks, tail, orderVars, healthVars>>
CycleEnd ==
  /\ Alive /\ stage = "after"
  /\ stage' = "idle" /\ first' = 0 /\ used' = 0
  /\ WriteCycle(latest, lost)
  /\ Returns("trade", "trade0", "beat")
  /\ UNCHANGED <<gaveUp, poolShut, rankVars, checks, tail, orderVars, healthVars>>

--------------------------------------------------------------------------------
\* Shutdown: Ctrl+C during the heartbeat.

Goes(from, to) == main = from /\ main' = to
OnlyMain == UNCHANGED <<thread, rankVars, cycleVars, orderVars, healthVars>>

\* Scheduler.stop sets the event ...
Stop(s, from, to) ==
  /\ Goes(from, to)
  /\ stopped' = stopped \cup {s}
  /\ UNCHANGED <<gaveUp, poolShut>> /\ OnlyMain

\* ... and joins the thread, with a timeout (mutant: without).
JoinForEver(s, from, to) ==
  /\ Goes(from, to)
  /\ thread[s] = "ended"
  /\ UNCHANGED <<gaveUp, stopped, poolShut>> /\ OnlyMain
Join(s, from, to) ==
  /\ Goes(from, to)
  /\ gaveUp' = gaveUp \cup {q \in {s} : thread[q] # "ended"}
  /\ UNCHANGED <<stopped, poolShut>> /\ OnlyMain

\* runtime_stop, db.close and _release_pid_lock.
CloseAndRelease ==
  /\ Goes("close", "released")
  /\ UNCHANGED <<stopped, gaveUp, poolShut>> /\ OnlyMain

\* main() returned: concurrent.futures refuses new work and joins its threads ...
ShutPools ==
  /\ Goes("released", "exit")
  /\ poolShut' = TRUE
  /\ UNCHANGED <<stopped, gaveUp>> /\ OnlyMain

\* ... and the daemon threads die with the interpreter.
Vanish ==
  /\ Goes("exit", "gone")
  /\ polls = {} /\ probe # "running"
  /\ UNCHANGED <<stopped, gaveUp, poolShut>> /\ OnlyMain

Shutdown ==
  \/ Join("trade", "stopTrade", "tradeStopped")
  \/ Stop("rank", "tradeStopped", "stopRank")
  \/ Join("rank", "stopRank", "close")
  \/ CloseAndRelease \/ ShutPools

RankStep  == RankBegin \/ Publish
TradeStep ==
  \/ CycleBegin \/ HealthBegin \/ HealthStep \/ HealthEnd \/ ClockAnswers \/ Read
  \/ BrokerAnswers \/ SubmitAccepted \/ SubmitRaises \/ StartPoll \/ Confirm
  \/ ParentReturns \/ CycleEnd \/ \E o \in Orders : Send(o)

Next ==
  \/ RankStep \/ TradeStep \/ HealthAnswer \/ Shutdown \/ Vanish
  \/ Stop("trade", "beat", "stopTrade")
  \/ \E s \in Schedulers : Wake(s) \/ ThreadEnds(s)
  \/ \E o \in Orders : PollEnds(o)

Spec == Init /\ [][Next]_vars

\* main runs on, and the trading thread takes the steps that wait for nothing or for a
\* timeout. The broker owes nothing: not to the probe, to a poll, nor to any call the
\* trading thread makes itself.
FairSpec ==
  /\ Spec /\ WF_vars(Shutdown)
  /\ WF_vars(CycleEnd \/ ParentReturns) /\ WF_vars(HealthBegin)
  /\ WF_vars(HealthStep) /\ WF_vars(HealthEnd) /\ WF_vars(Read)
  /\ WF_vars(StartPoll) /\ WF_vars(Confirm)

--------------------------------------------------------------------------------
\* Main, threads, cycle and orders keep their types.
TypeOK ==
  /\ main \in {"rank0", "trade0", "beat", "stopTrade", "tradeStopped", "stopRank",
               "close", "released", "exit", "gone"}
  /\ stopped \subseteq Schedulers /\ gaveUp \subseteq Schedulers /\ poolShut \in BOOLEAN
  /\ thread \in [Schedulers -> {"none", "sleep", "due", "run", "ended"}]
  /\ latest \in 0..MaxRankings /\ ranking \in BOOLEAN /\ db \subseteq 1..MaxRankings
  /\ stage \in {"idle", "check", "health", "clock", "read", "asking", "trading", "submit",
               "sent", "confirm", "after"}
  /\ {first, used} \subseteq 0..MaxRankings /\ lost \in BOOLEAN
  /\ order \in [Orders -> {"unsent", "asked", "live", "answered", "failed"}]
  /\ now \in 0..MaxOrders /\ polls \subseteq Orders /\ {checks, tail} \subseteq 0..MaxCycles
  /\ H!TypeOK

\* Each order sent is in the hands of the cycle, or the cycle has reported on it: as a
\* record, as unfilled or as a failed submission. It is left without a report only
\* by the end of the interpreter, and only after stop() gave the cycle up.
OrdersAccounted ==
  \A o \in Orders : order[o] \in {"asked", "live"} =>
    o = now /\ (~Alive => "trade" \in gaveUp)

\* A cycle ends with the ranking it consumed in ranking_cycles, unless a write
\* failed or the ranking was replaced both before and after the cycle read it.
ConsumedIsRecorded ==
  [][stage = "after" /\ stage' = "idle" /\ used # 0 /\ ~lost'
       => used \in db' \/ (first < used /\ used < latest)]_vars

\* However stop() meets the thread, at most one more cycle begins after it, and the
\* lock is released and the database closed under a cycle only if stop() gave it up.
ShutdownIsQuiet ==
  /\ tail <= 1
  /\ main \in {"released", "exit", "gone"} /\ stage # "idle" => "trade" \in gaveUp

\* Ctrl+C releases the lock and ends main(), with a cycle, a probe or a poll that
\* never ends included.
ShutdownEnds == main = "stopTrade" ~> main \in {"exit", "gone"}

\* The trading thread waits, without a timeout, for the broker. (The check has one, but
\* leaving it waits for its probe.)
AwaitsBroker == probe = "running" \/ stage \in {"clock", "asking", "submit"}

\* A cycle ends, whatever polls, rankings and shutdown do, as long as the broker leaves
\* no call of the trading thread and no probe without an answer for good.
CycleEndsUnlessBrokerHangs ==
  []<>~AwaitsBroker => (stage # "idle" ~> stage = "idle" \/ main = "gone")
===============================================================================
