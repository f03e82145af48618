--------------------------- MODULE EodWindow_proofs ---------------------------
(***************************************************************************)
(* Theorems about EodWindow, for every interval, buffer and cycle length.  *)
(***************************************************************************)
EXTENDS EodWindow, TLAPS

\* When the running cycle, or the sleep after it, has to end.
OnTime ==
  /\ last <= now /\ now <= due
  /\ due <= last + Spacing
  /\ running = TRUE => due <= last + MaxRun
  /\ running = FALSE => due >= last + Interval

\* The minute the buffer begins.
Start == Close - Buffer

\* Without an end-of-day pass so far, the last cycle began before the buffer:
\* one that began inside it would have been a pass, and none began after the
\* close because the one before it lay too close for that.
NoPassYet ==
  /\ closed = TRUE => passes > 0
  /\ Spacing <= Buffer /\ Close - Opens >= Buffer /\ passes = 0 => last < Start

\* While every pass so far failed, each has moved the last cycle on by a spacing at
\* most, as long as one more fits in the buffer.
Retried ==
  Close - Opens >= Buffer /\ closed = FALSE /\ (passes + 1) * Spacing <= Buffer
    => last < Start + passes * Spacing

\* Each pass began an interval at least after the one before it.
Spread ==
  passes > 0 =>
    /\ Start + (passes - 1) * Interval <= last
    /\ (passes - 1) * Interval < Buffer

IInv == TypeOK /\ OnTime /\ NoPassYet /\ Retried /\ Spread /\ ReportNeverFires

\* Products by a count that goes up by one.
LEMMA OneMore ==
  ASSUME NEW n \in Int, NEW m \in Int
  PROVE  (n + 1) * m = n * m + m /\ n * m \in Int
  BY SMT

LEMMA MoreIsMore ==
  ASSUME NEW k \in Nat, NEW n \in Nat, NEW m \in Nat, k <= n
  PROVE  k * m <= n * m
<1> DEFINE d == n - k
<1>1. d \in Nat /\ n = k + d
  OBVIOUS
<1>2. d * m >= 0 /\ d * m \in Int /\ k * m \in Int
  BY <1>1, SMT
<1>3. (k + d) * m = k * m + d * m
  BY <1>1, SMT
<1> QED BY <1>1, <1>2, <1>3

LEMMA InitIInv == Init => IInv
<1> SUFFICES ASSUME Init PROVE IInv
  OBVIOUS
<1> USE WindowAssumption DEF Init
<1>1. TypeOK
  <2>1. now \in 0..DayEnd /\ due \in Nat /\ last \in Int /\ passes \in Nat
    OBVIOUS
  <2>2. running \in BOOLEAN /\ closed \in BOOLEAN /\ reported \in BOOLEAN
    BY Zenon
  <2> QED BY <2>1, <2>2 DEF TypeOK
<1>2. OnTime
  BY DEF OnTime, Spacing
<1>3. NoPassYet
  BY DEF NoPassYet, Start, Buffer
<1>4. Retried
  <2>1. (0 + 1) * Spacing = Spacing /\ 0 * Spacing = 0
    BY SMT DEF Spacing
  <2> QED BY <2>1 DEF Retried, Start, Buffer
<1>5. Spread
  BY DEF Spread
<1>6. ReportNeverFires
  BY Zenon DEF ReportNeverFires
<1> QED BY <1>1, <1>2, <1>3, <1>4, <1>5, <1>6 DEF IInv

\* A cycle begins when the sleep ends, hence within the spacing of the last, and an
\* interval after it at least.
LEMMA BeginOnTime ==
  ASSUME IInv, BeginCycle
  PROVE  /\ OnTime' /\ last' = now /\ now' = now /\ due' \in Nat /\ running' = TRUE
         /\ last + Interval <= now /\ now <= last + Spacing
  BY WindowAssumption DEF IInv, TypeOK, OnTime, BeginCycle, Spacing

\* A cycle that makes no pass leaves what is known of the passes: it began before
\* the buffer, or the day is closed, or no further pass fits.
LEMMA NoPassKept ==
  ASSUME IInv, BeginCycle, closed' = closed, passes' = passes,
         \/ now < Start \/ now < Opens \/ now >= Close \/ closed = TRUE
  PROVE  NoPassYet' /\ Retried' /\ Spread'
<1> USE WindowAssumption DEF IInv, TypeOK
<1>1. /\ last' = now /\ last + Interval <= now /\ now <= last + Spacing
      /\ Buffer \in Nat /\ Start \in Int /\ Spacing \in Nat
  BY BeginOnTime DEF Buffer, Start, Spacing
<1>2. NoPassYet'
  BY <1>1 DEF NoPassYet, Start
<1>3. Retried'
  <2>1. (passes + 1) * Spacing = passes * Spacing + Spacing /\ passes * Spacing \in Int
    BY <1>1, OneMore
  <2>2. 0 <= passes * Spacing
    BY <1>1, <2>1, MoreIsMore, 0 * Spacing = 0
  <2> QED BY <1>1, <2>1, <2>2 DEF Retried, Start
<1>4. Spread'
  <2>1. (passes - 1) * Interval \in Int
    BY OneMore
  <2> QED BY <1>1, <2>1 DEF Spread
<1> QED BY <1>2, <1>3, <1>4

\* A pass comes within the spacing of the cycle before it, and an interval after it
\* at least.
LEMMA PassCounted ==
  ASSUME IInv, EodPass
  PROVE  NoPassYet' /\ Retried' /\ Spread'
<1> USE WindowAssumption DEF IInv, TypeOK
<1>1. /\ last' = now /\ last + Interval <= now /\ now <= last + Spacing
      /\ Buffer \in Nat /\ Start \in Int /\ Spacing \in Nat
      /\ passes' = passes + 1 /\ closed = FALSE /\ Start <= now /\ now < Close
  BY BeginOnTime DEF EodPass, Buffer, Start, Spacing, InBuffer, IsOpen
<1>2. NoPassYet'
  BY <1>1 DEF NoPassYet
<1>3. Retried'
  <2>1. /\ (passes + 1) * Spacing = passes * Spacing + Spacing
        /\ passes * Spacing \in Int
        /\ ((passes + 1) + 1) * Spacing = (passes + 1) * Spacing + Spacing
    BY <1>1, OneMore
  <2> QED BY <1>1, <2>1 DEF Retried, Start
<1>4. Spread'
  <2>1. CASE passes = 0
    <3>1. ((0 + 1) - 1) * Interval = 0
      BY SMT
    <3> QED BY <1>1, <2>1, <3>1 DEF Spread, Start
  <2>2. CASE passes > 0
    <3>1. /\ ((passes - 1) + 1) * Interval = (passes - 1) * Interval + Interval
          /\ (passes - 1) * Interval \in Int
          /\ passes - 1 + 1 = (passes + 1) - 1
      BY OneMore
    <3>2. ((passes + 1) - 1) * Interval = (passes - 1) * Interval + Interval
      BY <3>1
    <3> QED BY <1>1, <2>2, <3>1, <3>2 DEF Spread, Start
  <2> QED BY <2>1, <2>2
<1> QED BY <1>2, <1>3, <1>4

LEMMA NextIInv == IInv /\ [Next]_vars => IInv'
<1> SUFFICES ASSUME IInv, [Next]_vars PROVE IInv'
  OBVIOUS
<1> USE WindowAssumption DEF IInv, TypeOK, ReportNeverFires
<1>1. ASSUME UNCHANGED <<last, closed, passes>> PROVE NoPassYet' /\ Retried' /\ Spread'
  BY <1>1 DEF NoPassYet, Retried, Spread
<1>2. CASE Minute
  <2>1. OnTime'
    BY <1>2 DEF Minute, OnTime
  <2> QED BY <1>1, <1>2, <2>1 DEF Minute
<1>3. CASE Skip
  <2>1. OnTime' /\ last' = now /\ now' = now /\ due' \in Nat /\ running' = TRUE
    BY <1>3, BeginOnTime DEF Skip
  <2>2. NoPassYet' /\ Retried' /\ Spread'
    <3>1. closed' = closed /\ passes' = passes /\ BeginCycle
      BY <1>3 DEF Skip
    <3>2. now < Opens \/ now >= Close \/ closed = TRUE
      BY <1>3 DEF Skip, IsOpen
    <3> QED BY <3>1, <3>2, NoPassKept
  <2> QED BY <1>3, <2>1, <2>2 DEF Skip
<1>4. CASE EodPass
  <2>1. OnTime' /\ last' = now /\ now' = now /\ due' \in Nat /\ running' = TRUE
    BY <1>4, BeginOnTime DEF EodPass
  <2>2. NoPassYet' /\ Retried' /\ Spread'
    BY <1>4, PassCounted
  <2> QED BY <1>4, <2>1, <2>2 DEF EodPass
<1>5. CASE Trade
  <2>1. OnTime' /\ last' = now /\ now' = now /\ due' \in Nat /\ running' = TRUE
    BY <1>5, BeginOnTime DEF Trade
  <2>2. NoPassYet' /\ Retried' /\ Spread'
    <3>1. now < Start
      BY <1>5 DEF Trade, InBuffer, Buffer, Start
    <3>2. closed' = closed /\ passes' = passes /\ BeginCycle
      BY <1>5 DEF Trade
    <3> QED BY <3>1, <3>2, NoPassKept
  <2>3. ~reported'
    <3>1. ~(now >= Trigger)
      BY <1>5 DEF Trade, IsOpen
    <3> QED BY <1>5, <3>1, Zenon DEF Trade
  <2> QED BY <1>5, <2>1, <2>2, <2>3 DEF Trade
<1>6. CASE EndCycle
  <2>1. TypeOK'
    <3>1. now' \in 0..DayEnd /\ due' \in Nat /\ last' \in Int /\ passes' \in Nat
      BY <1>6 DEF EndCycle
    <3>2. running' \in BOOLEAN /\ closed' \in BOOLEAN /\ reported' \in BOOLEAN
      BY <1>6, Zenon DEF EndCycle
    <3> QED BY <3>1, <3>2
  <2>2. OnTime'
    BY <1>6 DEF EndCycle, OnTime, Spacing
  <2>3. NoPassYet' /\ Retried' /\ Spread'
    BY <1>1, <1>6 DEF EndCycle
  <2>4. ReportNeverFires'
    BY <1>6, Zenon DEF EndCycle
  <2> QED BY <2>1, <2>2, <2>3, <2>4
<1>7. CASE UNCHANGED vars
  BY <1>1, <1>7 DEF vars, OnTime
<1> QED BY <1>2, <1>3, <1>4, <1>5, <1>6, <1>7 DEF Next

LEMMA Inductive == Spec => []IInv
  BY InitIInv, NextIInv, PTL DEF Spec

\* The clock and the flags of the day keep their types.
THEOREM TypeCorrect == Spec => []TypeOK
<1>1. IInv => TypeOK
  BY DEF IInv
<1> QED BY <1>1, Inductive, PTL

\* Cycles never begin further apart than one interval plus the longest cycle,
\* at any phase of the scheduler.
THEOREM SpacingBounded == Spec => []TickSpacing
<1>1. IInv => TickSpacing
  BY WindowAssumption DEF IInv, TypeOK, OnTime, TickSpacing, Spacing
<1> QED BY <1>1, Inductive, PTL

\* A buffer that covers one interval plus the longest cycle is never jumped
\* over: the end-of-day pass runs before the market closes. With the buffer of
\* the code, which equals the interval, that asks for cycles of no length.
THEOREM EodNeverMissed == Spec => []EodReached
<1>1. IInv => EodReached
  BY WindowAssumption
     DEF IInv, TypeOK, OnTime, NoPassYet, EodReached, Buffer, Start, Spacing
<1> QED BY <1>1, Inductive, PTL

\* A failed end-of-day pass is retried as often as the spacing of the cycles fits
\* in the buffer, whatever the interval, the cycles' lengths and the phase.
THEOREM RetriesComeInTime == Spec => []EodRetried
<1>1. ASSUME IInv PROVE EodRetried
  <2> USE WindowAssumption DEF IInv, TypeOK
  <2> SUFFICES ASSUME Close - Opens >= Buffer, now >= Close, closed = FALSE,
                      NEW k \in 1..Buffer, k * Spacing <= Buffer
               PROVE  passes >= k
    BY <1>1 DEF EodRetried
  <2>1. Spacing \in Nat /\ Start \in Int /\ Buffer \in Nat /\ k \in Nat
        /\ now <= last + Spacing /\ last \in Int
    BY <1>1 DEF Spacing, Start, Buffer, OnTime
  <2> SUFFICES ASSUME ~(passes >= k) PROVE FALSE
    OBVIOUS
  <2>2. (passes + 1) * Spacing <= k * Spacing
    BY <1>1, <2>1, MoreIsMore
  <2>3. (passes + 1) * Spacing = passes * Spacing + Spacing /\ passes * Spacing \in Int
    BY <1>1, <2>1, OneMore
  <2>4. k * Spacing \in Int
    BY <2>1, OneMore
  <2>5. last < Start + passes * Spacing
    BY <1>1, <2>1, <2>2, <2>3, <2>4 DEF Retried
  <2> QED BY <1>1, <2>1, <2>2, <2>3, <2>4, <2>5 DEF Start
<1> QED BY <1>1, Inductive, PTL

\* And no more often than the interval fits: with the buffer of the code, which
\* equals any interval of ten minutes and more, a failed pass is never retried.
THEOREM RetriesRunOut == Spec => []RetriesFit
<1>1. IInv => RetriesFit
  BY DEF IInv, Spread, RetriesFit
<1> QED BY <1>1, Inductive, PTL

\* The daily report is never written by the loop, at whatever phase it ticks:
\* its trigger lies after the close, where every cycle has already returned.
THEOREM NoReport == Spec => []ReportNeverFires
<1>1. IInv => ReportNeverFires
  BY DEF IInv
<1> QED BY <1>1, Inductive, PTL
===============================================================================
