------------------------------ MODULE EodWindow ------------------------------
(***************************************************************************)
(* When the trading loop looks at the clock: Scheduler (core/scheduler.py) *)
(* against the end-of-day buffer and the report trigger of                 *)
(* PaperTradingLoop._run_cycle_inner (core/trading/loop.py), over one      *)
(* trading day in minutes.                                                 *)
(*                                                                         *)
(* The scheduler sleeps a full interval AFTER each execution, so a tick    *)
(* drifts off its boundary by as much as the cycles before it took.        *)
(***************************************************************************)
EXTENDS Integers

CONSTANTS
  Interval,    \* settings.RANKING_INTERVAL_MINUTES
  MinBuffer,   \* _MIN_EOD_CLOSE_BUFFER_MINUTES
  MaxRun,      \* the longest a cycle takes, in whole minutes
  Opens,       \* market open
  Close,       \* market close
  Trigger,     \* 4:05 PM
  DayEnd       \* bound: the last minute modelled

ASSUME WindowAssumption ==
  /\ Interval \in Nat \ {0} /\ MinBuffer \in Nat \ {0} /\ MaxRun \in Nat
  /\ {Opens, Close, Trigger, DayEnd} \subseteq Nat \ {0}
  /\ Opens < Close /\ Close < Trigger /\ Trigger <= DayEnd

VARIABLES
  now,       \* the minute
  due,       \* when the running cycle ends, or the sleeping thread wakes
  running,   \* whether a cycle runs
  last,      \* when the last cycle began
  closed,    \* _eod_closed_date = today
  passes,    \* end-of-day passes attempted
  reported   \* _report_generated_date = today

vars == <<now, due, running, last, closed, passes, reported>>

Buffer   == IF Interval > MinBuffer THEN Interval ELSE MinBuffer
IsOpen   == Opens <= now /\ now < Close
InsideBuffer == Close - now < Buffer             \* mutant: off by one
InInterval == Close - now <= Interval            \* mutant: no minimal buffer
InBuffer == Close - now <= Buffer
Spacing == Interval + MaxRun                     \* between the beginnings of two cycles

\* The scheduler is already ticking when the day begins, at some phase that the
\* cycles of the days before have left it with.
Init ==
  /\ now = 0 /\ running = FALSE /\ due \in 0..Interval /\ last = due - Interval
  /\ closed = FALSE /\ passes = 0 /\ reported = FALSE

Minute ==
  /\ now < due /\ now < DayEnd
  /\ now' = now + 1
  /\ UNCHANGED <<due, running, last, closed, passes, reported>>

\* _execute_once: a cycle reads the clock as it starts, and runs for up to MaxRun.
BeginCycle ==
  /\ ~running /\ now = due
  /\ running' = TRUE /\ last' = now
  /\ \E d \in 0..MaxRun : due' = now + d
  /\ UNCHANGED now

\* The market is closed, or the positions are already: the cycle returns before
\* anything below. (The broker is taken to be healthy all day.)
Skip ==
  /\ BeginCycle
  /\ ~IsOpen \/ (InBuffer /\ closed)
  /\ UNCHANGED <<closed, passes, reported>>

\* Mutant: the pass before the check that the market is open.
EodPassAnytime ==
  /\ BeginCycle
  /\ InBuffer /\ ~closed
  /\ closed' \in BOOLEAN
  /\ passes' = passes + 1
  /\ UNCHANGED reported

\* Inside the buffer _run_eod_close runs, and says whether it is to be retried.
EodPass ==
  /\ BeginCycle
  /\ IsOpen /\ InBuffer /\ ~closed
  /\ closed' \in BOOLEAN
  /\ passes' = passes + 1
  /\ UNCHANGED reported

\* Mutant: the report block before the checks that return early.
TradeAnytime ==
  /\ BeginCycle
  /\ reported' = (reported \/ now >= Trigger)
  /\ UNCHANGED <<closed, passes>>

\* Before the buffer, and past the report trigger, the daily report is written.
Trade ==
  /\ BeginCycle
  /\ IsOpen /\ ~InBuffer
  /\ reported' = (reported \/ now >= Trigger)
  /\ UNCHANGED <<closed, passes>>

\* _run_loop: execute, then sleep the whole interval (mutant: and a minute).
EndCycleLate ==
  /\ running /\ now = due
  /\ running' = FALSE /\ due' = now + Interval + 1
  /\ UNCHANGED <<now, last, closed, passes, reported>>

EndCycle ==
  /\ running /\ now = due
  /\ running' = FALSE /\ due' = now + Interval
  /\ UNCHANGED <<now, last, closed, passes, reported>>

Next == Minute \/ Skip \/ EodPass \/ Trade \/ EndCycle

Spec == Init /\ [][Next]_vars

--------------------------------------------------------------------------------
\* The clock, the thread and the day's flags keep their types.
TypeOK ==
  /\ now \in 0..DayEnd /\ running \in BOOLEAN
  /\ due \in Nat /\ last \in Int
  /\ closed \in BOOLEAN /\ passes \in Nat /\ reported \in BOOLEAN

\* Cycles begin no further apart than an interval and the longest cycle.
TickSpacing == now - last <= Spacing

\* When the interval and the longest cycle fit in the buffer together, the market
\* never closes without an end-of-day pass, whatever the phase. (The comment on the
\* buffer says that no tick can miss it, of any interval.)
EodReached ==
  Spacing <= Buffer /\ Close - Opens >= Buffer /\ now >= Close => passes > 0

\* A pass that failed is retried as often as the spacing of the cycles fits in the
\* buffer: when the market closes on a book that no pass could close, at least so
\* many were tried. (loop.py:911 says of False that "Olympus should retry on the
\* next tick": only the passes that fit have a next tick.)
EodRetried ==
  Close - Opens >= Buffer /\ now >= Close /\ ~closed
    => \A k \in 1..Buffer : k * Spacing <= Buffer => passes >= k

\* And no more often than the interval fits: as the buffer is the interval, unless
\* that is below the minimum, a failed pass is not retried that day at all.
RetriesFit == passes > 0 => (passes - 1) * Interval < Buffer

\* No daily report is ever written by the loop: a cycle gets past its early
\* returns only while the market is open, and the trigger lies after the close.
ReportNeverFires == ~reported
===============================================================================
