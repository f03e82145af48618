# Olympus and Maridian: a TLA+ model of the long-running programs

The repository is a monorepo of about ten thousand files, most of them vendored
(MetaGPT, deer-flow, oh-my-claudecode), archived, or older copies of one program. Its
one long-running, stateful program is **Olympus**
(`src/active/Olympus-Trading/olympus`, written `O/` below): a process that ranks a
universe of stocks, sends market orders to a paper-trading broker, keeps positions in
memory and in SQLite, and has to close everything before the bell. Beside it,
**Maridian** (`src/active/Maridian`, written `M/`) is run again and again over one vault
of files, and has a lock, a state file and a recovery of its own. This directory models
the two.

* [1. The system](#1-the-system) — parts, state, operations, hazards, properties
* [2. The modules](#2-the-modules) — how state and actions correspond to the code
* [3. The runs](#3-the-runs) — what each shows, with its bounds and its fairness
* [4. The proofs](#4-the-proofs) — theorems, assumptions, inductive invariants
* [5. Where code and words disagree](#5-where-code-and-words-disagree)
* [6. What is not modelled](#6-what-is-not-modelled)
* [7. The plan](#7-the-plan)

## 1. The system

| Part (source) | State it keeps | Operations | Talks to |
|---|---|---|---|
| Process runtime (`O/run_live.py`) | PID file, threads, stop flag | acquire/release lock, ingest, seed positions, broker guard, start both schedulers, shut down | everything |
| Scheduler (`O/core/scheduler.py`) | thread, stop event, next run | start, stop, tick: execute and then sleep a whole interval | calls the ranking cycle or the trading cycle |
| Ranking cycle and engine (`O/core/ranking/`) | last `RankedUniverse`, published behind a lock; `_cycle_count` | read the cache or refresh, score, normalise, select, publish | data API and cache; read by the trading loop |
| Trading loop (`O/core/trading/loop.py`) | `_eod_closed_date`, recent exits, daily P&L, report dates | `_run_cycle_inner` (exits, rotations, entries), `_run_eod_close` | position manager, execution engine, broker |
| Position manager (`O/core/trading/manager.py`) | symbol → `Position`, behind a lock | add, remove, evaluate exits and rotations | execution engine |
| Risk and sizing (`O/core/trading/risk.py`, `sizing.py`) | none | `validate_entry`, stop, target, size | called by the loop |
| Execution engine (`O/core/trading/execution.py`) | the shared `_FILL_POLL_POOL` | `enter_position`, `exit_position`, `_confirm_fill`, `_poll_order` | broker |
| Broker client (`O/core/broker/alpaca.py`) | `last_successful_check` | healthcheck, orders, positions, clock, liquidation | the broker |
| Cycle persistence (`O/core/memory/writer.py`, `repository.py`, `schema.sql`) | `open_positions`, `trades`, `trade_*.json` | insert row, write file, close in one transaction | SQLite |
| Ingestion (`O/core/memory/ingestion.py`) | `ingestion_source_files` | read every file not yet marked, insert, mark | SQLite, files |
| Reconciliation (`O/core/trading/reconciliation.py`) | none | compare broker and local state | no caller in the live loop |
| Database (`O/core/memory/database.py`) | one SQLite connection, a lock, the implicit transaction | connect, execute, executemany, query, close | every thread; another process on the same file |
| Bar cache (`O/core/data/cache.py`) | one parquet file per symbol and day | get, set | the ranking engine |
| Reports, API, scripts | files | render, query | read-only, or run by hand |
| Maridian (`M/evolve.py` and its agents) | `vault_state.json`, lock file, `raw/`, classification cache | extract, build wiki, questions, save; status; force unlock | BlackBook's journal, git |
| Apollo, BlackBook | separate programs | chat, dashboard | — |

Three threads (main, ranking scheduler, trading scheduler), a pool of poll tasks that
outlive the calls that started them, the broker, the file system and the database run
side by side, and the process can die between any two steps. What is hard:

* **Fills without certainty.** A market order is polled on a backoff schedule, under a
  hard wall-clock ceiling. Nobody cancels an order whose fill was not confirmed, so it
  may fill minutes later; the reply to a submission may be lost while the order works; a
  status the code does not know ends the polls of a live order. What was *recorded* must
  be real; what is *real* need not be recorded.
* **One call at a time against a broker that works all orders at once.** Caps are checked
  before a call and positions are added after it; exits are retried while their
  predecessor still works; queries answer `[]` both for "nothing" and for "failed".
* **Four copies of a position** (memory, row, file, trade), moved from one to the next by
  steps that fail or are interrupted, and put together again at startup.
* **Clock windows.** The end-of-day pass and the daily report depend on which minute a
  drifting scheduler happens to look at the clock.
* **One process.** A PID file that survives crashes.
* **A timeout around a call that may never return**, and other broker calls that have none,
  inside a cycle that `stop()` joins for five seconds and then gives up, while main()
  closes the database, releases the lock and lets the interpreter end.
* **One connection, several threads.** Python opens a transaction before a write and
  leaves it open when the write fails; a later read gives it a snapshot that another
  process can make useless.
* **A cache that hides outages.** Old bars may stand in for missing answers, across
  refreshes, midnights and restarts.
* **A vault written by hand-started launches** that load before they lock, rewrite raw files
  in place, share one temporary file, and can be unlocked by force.

`PROJECT.json` lists each hazard at its line, with the properties that would catch it.
Per part, what makes it correct: the *engine* books only executed shares, under one final
verdict; the *loop* keeps its caps and never adds exposure beyond its equity, neither re-enters nor stacks
orders, and is final at the end of the day; the *stores* neither lose nor double a
position; the *timing* reaches the end-of-day window, and its retry; the *lock* leaves one process;
the *process* accounts for every order and ends, and a cycle hangs only on the broker; the *connection* keeps what it acknowledged and publishes nothing that failed; a
*ranking* is made of bars of its day, of bounded age; the *vault* skips no entry.

## 2. The modules

| Module | Models | State → code | Actions → code |
|---|---|---|---|
| `FillGate` | the abstract promise of the engine: one verdict per order, final, booked on executed shares | `filled` broker, `verdict` what the caller was told, `booked` the size of the Position or TradeRecord | `Open`, `Execute`, `Record`, `Refuse` |
| `FillConfirm` | `execution.py` | `task`, `polls`, `seen`, `outcome`: a poll task in the pool; `status`, `filled`: the order at the broker; `verdict`, `reason`, `booked`: the call | `Send`, `SubmitAccepted/Raised` (the submit of `enter_position` and `exit_position`, and its two ends), `TakeOrder` (the broker takes it, at any time after), `Deliver` and `Ceiling` (`_confirm_fill`), `Dispatch`, `Poll*`, `Exhaust`, `Hang`, `Unhang` (`_poll_order` in the pool), `BrokerFill/Kill` |
| `TradingSession` | `loop.py`, `manager.py`, `risk.py` over one trading day | `pc`, `todo`, `ranked`, `equity`, `budget`, `room`, `exited`: locals of `_run_cycle_inner`; `local`: the PositionManager, signed; `eodDone`; `orders`: every order of the day; `held`, `closing`, `window`: account and clock; `swept`: history | Steps 1–5 `BeginCycle`, `ExitNext`; Step 6 `BeginRotations`; Steps 7–8 `BeginEntries`, `Enter`, `PassOver`; `EndCycle`; `_run_eod_close` is `BeginEod`, `ExitNext`, `AskPositions`, `EodClean` / `EodFailSafe` / `EodFailed` |
| `EodWindow` | `scheduler.py` against the clock checks of `loop.py` | `now`, `due`, `running`, `last`: the scheduler thread; `passes`, `closed`, `reported`: the flags of the day | `BeginCycle` followed by the branch a cycle takes at that minute: `Skip`, `EodPass`, `Trade`; `EndCycle` |
| `PositionStore` | `writer.py`, `ingestion.py`, `schema.sql`, the startup of `run_live.py` | `memory`, `rows`, `trades`, `files`, `torn`, `marked`: the copies; `pc`, `before`, `popped`, `writing`, `todo`: the locals; `held`: the account; `opened`, `exits`, `hadRow`, `spoiled`: history | `Start` … `IngestDone`, `Seed`, `GuardPasses/Repairs`; `Begin` … `CycleDone`; `Die` anywhere |
| `PidLock` | `_acquire_pid_lock`, `_release_pid_lock` | `file`, `written`: the file and its text; `old`: `old_pid`; `overlap`, `taken`: history | one action per system call, with the `OSError` of `unlink` (`UnlinkFails`) |
| `Healthcheck` | `AlpacaClient.healthcheck` | `pc` trading thread, `probe` the pool's thread, `result` how the wait ended | `Begin`, `Answer`, `Receive`, `TimeOut`, `Leave` |
| `Lifecycle` | one live process: `main()` of `run_live.py`, both `Scheduler` threads, `RankingCycle`, `_run_cycle` of `writer.py`, the exit of the interpreter | `main`, `stopped`, `thread`, `gaveUp`, `poolShut`: threads; `latest`, `first`, `used`, `db`: which ranking is published, read, consumed, written; `stage`: the cycle; `order`, `now`, `polls`: its orders | `Wake`, `ThreadEnds`, `RankBegin`, `Publish`; `CycleBegin`, `HealthBegin` … `HealthEnd`, `ClockAnswers`, `Read`, `BrokerAnswers`, `Send`, `SubmitAccepted/Raises`, `StartPoll`, `Confirm`, `CycleEnd`; `Stop`, `Join`, `CloseAndRelease`, `ShutPools`, `Vanish` |
| `TradeLedger` | the abstract promise of the stores: known stays known, a trade is final | `known`, `ledger` | `Record`, `Settle` |
| `Connection` | `database.py`, the transaction of `writer.py`, another connection to the file | `handle`, `result`: the calls; `txn`, `pending`, `stale`: the implicit transaction; `durable`: committed rows; `dirty`: history | `Call`, `OnClosed`, `Locked`, `Refused`, `WriteCommits`, `ExitCommits`, `ExitRollsBack`, `Query`, `CloseHandle`; `OtherLocks/Commits` |
| `Ranking` | `engine.py`, `scorer.py`, `cache.py` | bars are the number of the cycle that fetched them; `file`: the cache; `key`: the day of the cycle; `count`: `_cycle_count`; `latest` with the bars it was made of; `dawn`, `behind`: history | `Gather`, `Store`, `Publish`, `PublishNothing`, `Midnight`, `Crash` |
| `Evolve` | `M/evolve.py`, `journal_extractor.py`, the cache of `brain_builder.py` | `state`, `batch`, `fresh`: locals; `lock`, `file`, `tmp`, `raw`, `cache`: files, with the launch that is still writing them; `once`, `saves`, `base`, `overlap`, `stale`: history | `Load`, `FindsNoLock`, `WriteLock`, `SkipShort`, `OpenRaw`, `WriteRaw` … `Push`, `OpenTmp`, `WriteTmp`, `GitCommit`, `Replace`/`Unlink`, `Release`; `Raise`, `Die`, `ForceUnlock`, `Arrive` |

`MCTradingSession`, `MCPositionStore`, `MCConnection` and `MCEvolve` hold the small
instances TLC runs; `*_proofs` hold the theorems.

**How they compose.** `TradingSession` does not repeat polling: an order call is what
`FillGate` promises, *recorded with shares the broker has executed, or refused*.
`FillConfirm` is checked and proved to implement `FillGate` (`KeepsGate`), so the abstract
gate is the interface between the two. (`FillConfirm` is the more permissive on one point:
a lost submission may reach the broker later, where `TradingSession` decides at once
whether it was taken.) `EodWindow` takes the end-of-day pass as
one step with a free outcome, and `TradingSession` models its inside with a free
moment. `PositionStore` takes confirmed entries and exits as given, and follows what
becomes of their records; it is checked and proved to implement `TradeLedger`
(`KeepsLedger`). `Lifecycle` contains `Healthcheck` (`INSTANCE ... WITH pc <- hpc`), runs
its steps inside the cycle, and keeps of an order only whether it was asked for, accepted,
answered or given up as a failed submission: what an answer can be is `FillConfirm`'s. It takes the writes of a ranking as
one step that succeeds or fails; inside them is `Connection`. It numbers the rankings;
what is in one is `Ranking`'s.

**Abstractions.** A price is one unit, so shares and dollars are one number; an
entry is priced as it was estimated. Stop and target hits, ranks and sizes are free
choices within the limits the code computes. The re-entry cooldown is used only where
it is certain: within the cycle of the exit, because the age is measured against the
`now_utc` taken at the cycle's start. A poll task that is stuck is `hung`, with or
without a later `Unhang`; a dead order (canceled, expired, rejected) may have executed
any number of its shares. The poll may find a status that is not on
`_NON_TERMINAL_STATUSES` whatever becomes of the order (`PollTerminal` has no guard on
it): `suspended`, `calculated`, `done_for_day` or none at all are reported of orders the
broker goes on working. The equity of a cycle is any member of `Equities`, anew in each:
`get_account` may answer less than what is open, or fail and be replaced. In `PositionStore` a file is absent, torn or whole, and one
action is one commit. `Seed` lets rows age, and of two rows of one symbol keeps either.
`PidLock`'s `Release`, like the code, unlinks whatever lock file is there. Its processes
are one user's and have different PIDs: that `os.kill` may refuse permission, or find a
stranger under the old number, is left out.

In `Lifecycle` the first ranking and the first trading cycle run on main, as in
`start()`; Ctrl+C is taken from the heartbeat on (before it, it is `PositionStore`'s
`Die`). That the market is closed, the ranking too old, or the end-of-day window reached,
is a choice of `Read`. Each call the trading thread makes to the broker itself is two
steps, the asking and the answer (`clock`, `asking`, `submit`), and the answer may never
come. The exit of the interpreter is two steps: concurrent.futures
refuses new work and joins its threads, and then the daemon threads are gone.

In `Connection` every operation runs under the lock of `Database`, so it is one action;
what it was handed by `connect()` before the lock may be closed by then. A transaction
is none, open without a snapshot, a snapshot, or the write lock. The other connection is
`apex_reports.py:693` or a script on the same file. In `Ranking` the order of the sorts
and the min-max formula are kept as they are, over integer scores; whether a symbol has
features, and which score, is free. In `Evolve` each file written in place (a raw file, the temporary file, the cache) is torn
between its opening, which truncates it, and its writing; a `replace` moves it away under the writer,
who goes on writing into the moved file.

Every module keeps beside a definition the *mutated* form of it that a plausible bug
would give (marked `Mutant`); `PROJECT.json` "mutants" says which property catches
each. No action uses one.

## 3. The runs

### Properties that hold

| Run | Bounds, and why they suffice | Shows |
|---|---|---|
| `fill` | 2 orders of 3 shares, 1 worker, 3 polls. One worker lets a hung task starve the second order; three polls and three shares let one read be stale and another partial | `RecordIsBrokerBacked`: never more shares than were executed, however old the read. `PartialOnlyAtTheEnd`: partial sizes only when the schedule is spent. `KeepsGate`: `FillConfirm` implements `FillGate`, lost replies and late results included |
| `session` | 2 symbols of one sector, 2 cycles, sizes to 2, caps 1 long and 1 short, equity 1 or 3. Two cycles let an order of the first fill in the second; equity below the sum of the budgets makes the exposure gate bind, and an equity that falls from 3 to 1 leaves more open than it covers | `ExposureGrowsWithinEquity`: exposure grows only within the equity of its cycle, although the gate looks before the call. `DriftIsUnrecorded`: until a liquidation reaches the broker, account minus books equals, symbol by symbol, what the loop was never told. `NoReentryInCycle`, `NoEntryBehindWorkingOrder` |
| `session_caps` | 3 symbols, two of one sector and one the universe does not know, 1 cycle; each of the three caps is below what the candidates would fill | `CapsHold`, `SectorCapHolds`: although positions are added after the call |
| `session_day` | 1 symbol, 3 cycles, lots of 1, **queries may fail**. Three ticks are an entry, an end-of-day pass and a tick after it | `EodIsFinal`: nothing is sent after the pass returned True. `CycleRunsOut`: each step of a cycle uses up one of a number fixed by the universe, so no loop of it goes on for ever; that the steps come is another matter (`CycleEndsUnlessBrokerHangs`) |
| `store` | 2 positions, one after the other in the same `(symbol, direction)` slot, 2 exits each, every write may fail, rows may age, the process dies anywhere. Two exits are what a position seeded again can have | `OneTradePerPosition`, `RowGoneMeansTraded`, `MarkedMeansStored`, `StartupCatchesUp`; `KeepsLedger`: the stores implement `TradeLedger` |
| `eod_window` | interval 4, buffer 12, cycles of up to 2 minutes, every phase: two spacings of cycles exactly fill the buffer, and so do three intervals | `TickSpacing`; `EodReached`: when an interval and a cycle fit in the buffer, the pass is reached from every phase. `EodRetried`: a failed pass is retried as often as they fit again; `RetriesFit`: and no more often than intervals fit, which for the buffer of the code is never. `ReportNeverFires`: the daily report of the loop is not reached |
| `pidlock` | 4 processes, serial or overlapping, each may die anywhere, `unlink` may fail: a stale file can be found, replaced and become stale again, by two at once too | `SerialMutex`, `RunnerIsNamed`, for launches that never overlapped. `MutexUnlessTaken`: when they did, two run only if one removed the file of a living process. `LaunchEnds` |
| `lifecycle` | 3 rankings, 3 cycles, 1 order. Three rankings are what it takes to replace one on both sides of a read; three cycles are one on main, one that `stop()` meets and one after it; one order, of whichever cycle, can be left by it, by the pool or by the interpreter (any number: the theorem) | `OrdersAccounted`: an order sent is in the hands of the cycle or was reported on, and left without a report only by the end of an interpreter whose `stop()` gave the cycle up. `ConsumedIsRecorded`: the ranking a cycle used is written unless it was replaced before *and* after. `ShutdownIsQuiet`: at most one cycle begins after the stop, and only a given-up one outlives the lock. `ShutdownEnds` whatever hangs; `CycleEndsUnlessBrokerHangs` |
| `connection` | 4 operations of any kind, 1 close, 2 commits of the other process: one operation to fail, one to read, one to be refused for the old snapshot, one to commit what was left; operations are interchangeable (symmetry) | `OkIsDurable`: an acknowledged write is committed, whatever transaction it joined. `FailedWriteLeavesNothing`: the exit path is all or nothing, and only half an `executemany` is ever published. `OnlyFailuresHoldTransactions`: so without a failed write no snapshot is held, and none can go stale |
| `evolve` | 3 launches, 3 entries of which one is too short, batches of 1. Two launches overlap, or one works on a stale state, and the third finds what they left; batches below the number of entries leave some for later, and entries may arrive with an earlier date; launches are interchangeable (symmetry; no liveness is checked) | `ProcessedIsExtracted`: no entry is skipped for ever, whatever overlaps; its file is whole but for the two exceptions. `StateReadable`, `StateGrows`: unless launches overlapped, or another one saved since the state was loaded |
| `ranking` | 2 symbols, refresh every 2nd cycle, 4 cycles, 1 midnight, 1 crash, raw scores 0, 3, 5. Two refreshes and the cycles between them; three scores give equal, extreme and neutral values | `BarsWithinRefresh`: how old the bars of a ranking can be, and the exceptions (an unanswered or unstored refresh, a restart). `BarsOfTheirDay`: whichever side of midnight the cache is written. `RankingIsBalanced` |

`CHECK_DEADLOCK FALSE` is set where a bounded history ends: the orders of `fill`, the day
of the session runs, the clock of `eod_window`, the launches of `pidlock` and `evolve`,
the operations of `connection`, the cycles of `ranking`, and the process of `lifecycle`,
which ends. `store` never stops and is checked for deadlock.

### A statement of the repository that does not hold

`session_flip`: an exit order is the "counter-side to flatten the position". An
unconfirmed exit is retried, both fill, and the account goes through flat to the other
side. Further disagreements are in section 5.

### Fairness, and what justifies it

No run assumes that the broker answers. Fairness is stated where a thread goes on by itself
or under a timeout of the code, and every further assumption of a liveness property is a
hypothesis inside the property:

* `PidLock`: weak fairness of the steps of a process inside `_acquire_pid_lock`, which are
  system calls in a loop; dying stays possible, and it is never obliged to. That a file can
  be removed is not among it: `Unlink` and `UnlinkFails` are both such steps, and
  `LaunchEnds` assumes in the property itself that `unlink` does not fail for ever.
* `Lifecycle`: weak fairness of main's shutdown once Ctrl+C came (`Shutdown`: `join` has a
  timeout), and of each step of the trading thread that waits on nothing but itself or a
  timeout of the code. None for `HealthAnswer` and `PollEnds`, which are the broker's; none
  for `ClockAnswers`, `BrokerAnswers` and `SubmitAccepted`/`SubmitRaises`, the broker calls
  without a timeout; none for `Send`, since a cycle sends what its ranking calls for; none
  for `Vanish`, which waits for a hung probe. `CycleEndsUnlessBrokerHangs` assumes in the
  property itself that no such call, and no probe, stays without an answer for good
  (`AwaitsBroker`), and fails without that. `ShutdownEnds` assumes nothing.

The other modules state no fairness: what they say of progress is said as a step property
(`CycleRunsOut`) or as an invariant of a state that is over (`EodReached`,
`StartupCatchesUp`).

## 4. The proofs

All are checked by TLAPS for every value of the constants that satisfies the named
`ASSUME` of its module: positive lots, workers and schedules; finite `Symbols` with
natural caps; an ordered trading day; natural bounds on rankings, cycles and orders; a
`None` that is nothing else; a positive refresh period, and thresholds on the two sides of
50; launches that are not the two marks for a file nobody is writing. (The last of the
thresholds' is new with `RankingsAreBalanced`: `scorer.py` gives 50.0 to everything when
all scores are equal, and only thresholds around it, like its 60 and 40, leave both sides
empty then.) Each component has one inductive invariant (`IInv`), proved by an initial and
a step lemma; theorems are read off it. Every invariant and every action property of a
passing run is a theorem, and so are the refinements of `FillGate` and `TradeLedger`.

* **`FillConfirm_proofs`**: `TypeCorrect`, `FillsAreReal`, `PartialsAreLast`,
  `KeepsFillGate`. `RecordIsBrokerBacked` is not inductive: the size comes from an
  `outcome` built from a `seen` that was read earlier. `IInv` adds that an order no poll
  was started for has no outcome and an order the broker has not taken no shares
  (`Fresh`), that what was read is at most what is executed (`ReadsAreOld`), and that an
  outcome is already backed before it is delivered (`OutcomeHonest`). The refinement shows each step to be a `FillGate` step or a stutter.
* **`TradingSession_proofs`**. The invariant that carries everything says what the call in
  flight is (`Books`, with `TypeOK`): at most one, the last sent, an entry of a symbol
  that is not open, or an exit of one that is. On it rest:
  * `CapsAlwaysHold`, `SectorsNeverCrowd`, from caps that count the entry in flight
    (`Caps`); `NoReentry`, since the cooldown covers every exit recorded in this cycle
    (`CooldownCovers`); `EntriesWorkAlone`; `DayStaysClosed`, since a closed day has no
    call in flight (`ClosedForTheDay`).
  * `DriftHasOneSource`: account minus books is exactly what the loop was not told. It
    needs `Flattening`: an exit in flight is for the whole position, with the opposite
    sign (so recording it takes from the books what it put into the account), no order is
    filled beyond its size, and until a liquidation request reaches the broker (`swept`)
    only the loop's orders move the account.
  * `ExposureStaysCovered`: gross exposure grows only within the equity of its cycle, which
    may be any, and less than in the cycle before. The gate compares `room` before the call;
    `GrossRoom` says that the room never overstates what equity leaves and that the entry in
    flight asked for no more than it. That one symbol's position changes at a time turns
    the sum over the universe into a difference of two numbers.
  * `CyclesRunOut`: a natural number, `StepsLeft`, falls with each step the loop's thread
    takes in a cycle, and no step of broker or clock changes it.
* **`PositionStore_proofs`**: `TypeCorrect`, `NoTradeTwice`, `NoPositionLost`,
  `MarksAreTrue`, `StartupIsComplete`, `ImplementsLedger`. `IInv` adds
  `Ingesting`: the file being marked has its row, and a readable file is stored or still
  on the list. It holds for any number of positions, and so covers the long and the short
  of one symbol that overwrite each other when seeded, which the two positions of the run
  do not. `ImplementsLedger` is the refinement: each step is a `Record`, a `Settle` or a
  stutter, because a row is deleted only in the step that stores its trade and a trade is
  added only for a position that has none.
* **`EodWindow_proofs`**: `TypeCorrect`, `SpacingBounded`, `EodNeverMissed`,
  `RetriesComeInTime`, `RetriesRunOut`, `NoReport`. `OnTime` bounds when the sleep or the
  cycle ends; `NoPassYet` says that without a pass the last cycle began before the buffer;
  `Retried` and `Spread` count the failed passes, each of which moves the last cycle on by
  an interval at least and by a spacing at most. With the code's
  `Buffer = max(Interval, 10)`, `EodNeverMissed` asks that the interval be below ten minutes
  by the length of a cycle, or that cycles take no time, and `RetriesRunOut` leaves no
  retry to any interval of ten minutes and more.
* **`Runtime_proofs`**, of `PidLock`: `LockTypeCorrect`, `SerialLaunchesExclude`,
  `RunnerStaysNamed`, `OnlyRemovalBreaksMutex`. `Serial` says that unless two launches were
  ever under way together, none is that could hold a stale reading while another process
  runs; `Owned`, for the last, that every process past its `O_EXCL` open is the owner of
  the file that is there, unless such a file was removed.
* **`Runtime_proofs`**, of `Lifecycle`: `TypeCorrect`, `OrdersStayAccounted`,
  `ShutdownStaysQuiet`, `ConsumptionIsRecorded`, `CyclesAdvance`. None of the middle three
  is inductive. `Threads` says who runs the cycle (main while it starts, the thread
  afterwards) and that past the join the thread has ended or was given up, which is what
  makes an order without a report at the exit an order of a cycle `stop()` gave up.
  `LastCycle` says that a thread which began its one cycle after the stop event is not due
  for another. `Handling` ties the order asked for or live to the stage of the cycle.
  `Consumption` keeps the ranking used between the one read before the cycle, stored unless
  its write failed, and the latest. `CyclesAdvance` is the safety half of
  `CycleEndsUnlessBrokerHangs`, with the variant `ToGo`: no timeout, late answer or shutdown
  sets a cycle back.
* **`Connection_proofs`**: `TypeCorrect`, `WritesAreDurable`, `FailuresLeaveNothing`,
  `ReadsHoldNothing`. The invariant adds (`Unended`) that an operation that has not ended
  has written nothing and that only rows of `executemany` calls can be pending, and
  (`FailedAreGone`) that any other failed write has left nothing, committed or pending.
* **`Ranking_proofs`**: `TypeCorrect`, `BarsAreYoung`, `DaysStayApart`,
  `RankingsAreBalanced`. The age of the bars of a ranking follows from the age of every
  file under a day's key, counted from the last forced refresh, with `behind` for the
  files that survived it; and the day from the fact that a file under a key was fetched by
  a cycle that began on that day. Balance rests on the min-max formula: the lowest score
  maps to 0 and the highest to 100, so two different scores put one symbol on each side,
  and equal scores put none on either.
* **`Evolve_proofs`**: `TypeCorrect`, `NothingIsSkipped`, `StateStaysReadable`,
  `SavesOnlyAdd`. `ProcessedIsExtracted` is inductive only together with the same
  statement about every launch's `state` and `fresh` and the temporary file
  (`Extracted`), and its second half with what a launch that neither overlapped nor was
  stale may rewrite: nothing the saved state calls processed (`Whole`, `Writing`). The other
  two rest on what a launch that never overlapped finds: no other inside (`Alone`), its
  own temporary file (`Mine`), and a state at least as far as the one saved (`Ahead`).

**Sums.** The library's induction theorems take an operator and cannot be instantiated
here, and the sums over symbols and over orders are folds. `TradingSession_proofs` begins
with induction stated over *sets* instead (`SubsetInduction`: a family of subsets of a
finite set that has each subset whose strict subsets it has, has them all), proved from
the well-foundedness of strict inclusion by a least counterexample. From it follow that a
sum is the element picked plus the sum of the rest, whichever is picked (`SumStep`,
`SumRemove`), and that a sum changes by what its one changed term changes by
(`SumChange`); the invariants use only the last.

**Only model-checked:** liveness (`LaunchEnds`, `ShutdownEnds`,
`CycleEndsUnlessBrokerHangs`), which needs fairness and `ENABLED` and is out of this
prover's reach, `CyclesAdvance` being as much of it as is safety; and `ExitsFlatten`, which
is false. Type correctness is proved rather than run, except that the run `lifecycle`
checks it too. The inductive invariants themselves, `StepsLeft` and `ToGo` among them, were
model-checked on the instances of section 3 before they were proved.

## 5. Where code and words disagree

`PROJECT.json` "findings" quotes nine. `session_flip` refutes one outright. The others
are exceptions that a property which *holds* has to make, at the line that makes them
necessary:

* `EodReached` needs the interval and the longest cycle to fit in the buffer. With the
  default interval of 20 minutes the buffer is 20 minutes too, and a cycle of one minute
  lets buffer and close pass between two ticks (`O/core/trading/loop.py:42`: "a scheduler
  tick cannot miss it").
* `EodRetried` needs room for a second tick, and `RetriesFit` says that the buffer of the
  code has none (`loop.py:911`: "False when Olympus should retry on the next tick").
* `ReportNeverFires` (`loop.py:259`: the report "fires once per day").
* `CycleEndsUnlessBrokerHangs` needs its hypothesis for the probe too:
  `ThreadPoolExecutor.__exit__` waits for the thread the timeout gave up
  (`O/core/broker/alpaca.py:95`: "a hung broker call cannot stall the trading cycle").
* `OrdersAccounted`: a submission whose reply was lost, an accepted order whose poll the
  pool refuses, and a record that cannot be built are all reported as failed submissions
  (`O/core/trading/execution.py:282`: "before a broker order is confirmed to exist").
* `ConsumedIsRecorded`: a ranking replaced on both sides of its use is not written
  (`O/core/memory/writer.py:681`).
* `FailedWriteLeavesNothing` excepts `executemany` (`O/core/memory/database.py:163`: "in a
  single transaction").
* `ProcessedIsExtracted` excepts launches that overlapped or worked on a stale state, for
  the wholeness of raw files: an entry extracted again is rewritten in place
  (`M/agents/journal_extractor.py:4`: "never modified after writing").

Met while modelling, readable off the modules, and not given a property:

* `O/core/trading/loop.py:950`: the end-of-day fail-safe clears memory and leaves the rows
  of `open_positions`, which `O/core/memory/schema.sql:126` calls "live, in-flight
  position state"; startup skips rows that are too old and leaves them as well. (`FailSafe`
  and `Seed` of `PositionStore`.)
* `O/core/memory/database.py:147`: after a failed write a read takes a snapshot in the
  transaction left open; once another process commits, every `execute` fails with
  SQLITE_BUSY until the exit path rolls back or the connection is closed. (`Locked` with
  `stale`.)
* `O/core/ranking/engine.py:312`: a failed fetch publishes an empty ranking with a fresh
  timestamp; the loop's rotations then see every held symbol as dropped, before the check
  of `_MIN_SCORED_TO_TRADE`, which guards entries only.
* `M/agents/brain_builder.py:117`: the cache of classifications is written in place; torn,
  it makes every later cycle fail. (`ReadCache`.)
* `O/core/trading/execution.py:150`: an order canceled after a partial fill is refused as
  `terminal_not_filled` ("the trade did NOT happen"); its shares are in the account and
  nowhere else. (`PollTerminal` after `BrokerFill` and `BrokerKill`.)
* `O/core/trading/execution.py:420` says that an unconfirmed exit is retried "on a later
  cycle"; `loop.py:373` retries it in the rotation pass of the same one.
* `O/core/trading/loop.py:942`: `_run_eod_close` can return True over an order that fills
  between its two reads, or over two failed reads; nothing closes that holding.
* `O/core/trading/execution.py:150`: a status the code does not list ends the poll as "the
  trade did NOT happen" although the broker may be working the order. (`PollTerminal`.)
* `O/core/broker/alpaca.py:314`: a liquidation whose reply is an error is taken for refused;
  if the broker took it, the loop keeps positions that are gone and sells them again.
  (`EodFailed` with `Liquidate`.)
* `O/core/memory/schema.sql:122`: a position seeded again and exited a second time has a
  second file that is marked ingested and never stored, where `ingestion.py:284` promises
  every file. (`StartupCatchesUp` therefore speaks of positions.)
* `O/run_live.py:157-158` says that startup does not rebuild local state; line 466 does.
* `O/run_live.py:94`: two launches at once that both judge a file stale can unlink each
  other's new file and both run. (`MutexUnlessTaken` says that there is no other way.)
* `O/core/trading/execution.py:459` leaves residual shares to a reconciler the live loop
  never calls.

## 6. What is not modelled

Features, and the raw score made of them (free choices in `Publish`); fetching and
normalising market data (I/O and data frames; the fetcher is the set of symbols it
answered); the JSON copies of rankings and their pruning (nothing reads them but
ingestion, which is off the trading path); qualification and regime (not called by the
live loop); reconciliation (a pure comparison with no caller in the live loop);
diagnostics, logs, `LoopState`, events, feature rows and reports beyond the moment they
are written; the arithmetic of ATR stops and sizes, reward/risk and the daily loss limit
(free choices in `Enter`/`PassOver`); `Database.initialize`; the API and scripts
(read-only or run by hand).

Of Maridian: the pages and questions a cycle writes, the job queue `meridian_jobs`
(its failures are swallowed and change nothing else), `reset_meridian` and the pages of
`control.py` but its forced unlock. The copy under `active/Pantheon/apps/maridian` is
older and is not modelled. Apollo imports modules that are not in the repository;
BlackBook is a page over a database, one request at a time, and appears as the source of
journal entries. Vendored, archived and older copies are left out: they are most of the
repository's lines, so the share of it this project covers is small, while it covers
about two fifths of the files of the parts it models and most of their core.

Within what is modelled: the session is one day without a restart (the restart is
`PositionStore`'s, and the daily loss limit that a restart resets is a free choice); a
launch in `PidLock` is modelled up to the running process; a `start()` after `stop()`,
which nobody calls, is left out of `Lifecycle`.

## 7. The plan

Done, in the order of importance they were written in: `FillGate`/`FillConfirm`,
`TradingSession`, `PositionStore`/`TradeLedger`, `EodWindow`, `PidLock`,
`Lifecycle`/`Healthcheck`, `Connection`, `Evolve`, `Ranking`, with the theorems of
section 4. What is left, mostly to prove:

1. Lemmas on what of liveness is safety: that `LaunchEnds` and `ShutdownEnds` have a
   variant as cycles have.
2. The composition of `Lifecycle` with `Healthcheck` as a refinement proof of the second by
   the first, and a bound on the pool of polls.
3. The daily loss limit and reward/risk gates as guards of `Enter`, with the restart that
   resets them.
4. `detect_position_mismatch` over the drift `TradingSession` exhibits.
