---------------------------- MODULE TradingSession ----------------------------
(***************************************************************************)
(* PaperTradingLoop (core/trading/loop.py) with its PositionManager and    *)
(* its validate_entry gates, over one trading day: the cycle takes its     *)
(* exits, rotations and entries one call at a time, while the broker works *)
(* every order ever sent, whatever the loop was told about it.             *)
(*                                                                         *)
(* An order call is what FillGate promises and FillConfirm keeps: recorded *)
(* with shares the broker executed, or refused. A price is one unit, so    *)
(* shares and dollars are the same number.                                 *)
(***************************************************************************)
EXTENDS Integers, Sequences, FiniteSets, Functions

CONSTANTS
  Symbols,
  Sector,        \* [Symbols -> sector]; NoSector is get_sector_for_symbol = None
  NoSector,
  MaxOpen,       \* settings.MAX_OPEN_POSITIONS
  LongCap,       \* settings.LONG_MAX_OPEN_POSITIONS
  ShortCap,      \* settings.SHORT_MAX_OPEN_POSITIONS
  SectorLimit,   \* settings.SECTOR_CONCENTRATION_LIMIT
  Equities,      \* bound: what get_account, or its fallback, may give for equity
  MinAvail,      \* _MIN_POSITION_SIZE
  MaxSize,       \* bound: shares a risk budget may ask for
  MaxCycles,     \* bound: scheduler ticks in the day
  QueriesFail    \* whether get_positions / get_open_orders may answer []

ASSUME SessionAssumption ==
  /\ IsFiniteSet(Symbols)
  /\ {MaxOpen, LongCap, ShortCap, SectorLimit} \subseteq Nat
  /\ Equities \subseteq Nat /\ Equities # {}
  /\ {MinAvail, MaxCycles} \subseteq Nat /\ MaxSize \in Nat \ {0}
  /\ QueriesFail \in BOOLEAN

VARIABLES
  pc,        \* where _run_cycle_inner stands
  todo,      \* symbols its current for-loop has still to visit
  ranked,    \* [Symbols -> Sides \cup {0}]: the RankedUniverse of this cycle
  equity,    \* current_equity of this cycle, 0 before it is read
  budget,    \* per_position_budget of this cycle
  room,      \* current_equity - current_gross_exposure - reserved_capital
  exited,    \* symbols _recent_exit_by_symbol still cools down in this cycle
  sawHeld,   \* whether the EOD pass's get_positions() showed anything
  local,     \* [Symbols -> Int]: PositionManager, signed shares, 0 when absent
  eodDone,   \* _eod_closed_date == today
  cycles,    \* ticks so far
  orders,    \* every order sent today, in order
  held,      \* [Symbols -> Int]: signed shares in the broker account
  closing,   \* symbols under a close_all_positions request
  swept,     \* whether such a request has reached the broker today
  window     \* the market clock: far from the close, within the buffer, closed

funds  == <<equity, budget, room>>
loop   == <<pc, todo, ranked, equity, budget, room, exited, sawHeld, cycles>>
broker == <<orders, held, closing, swept>>
vars   == <<pc, todo, ranked, equity, budget, room, exited, sawHeld, cycles,
            local, eodDone, orders, held, closing, swept, window>>

Long  == 1
Short == -1
Sides == {Long, Short}

Steps   == {"idle", "exits", "rotations", "entries", "eod", "eodOrders"}
Windows == {"regular", "buffer", "closed"}

Order == [sym : Symbols, kind : {"enter", "exit"}, side : Sides, qty : 1..MaxSize,
          cycle : 1..MaxCycles, filled : 0..MaxSize, live : BOOLEAN,
          verdict : {"pending", "recorded", "refused"}, booked : 0..MaxSize]

Open          == {s \in Symbols : local[s] # 0}
OnSide(d)     == {s \in Symbols : local[s] * d > 0}
InSector(k)   == {s \in Open : Sector[s] = k}
Abs(n)        == IF n < 0 THEN -n ELSE n
SideUnsigned(n) == Long                              \* mutant: shorts forgotten
Side(n)       == IF n > 0 THEN Long ELSE Short
LiveOn(s)     == {i \in DOMAIN orders : orders[i].sym = s /\ orders[i].live}
Pending       == {i \in DOMAIN orders : orders[i].verdict = "pending"}
GrossExposure == SumFunctionOnSet([s \in Symbols |-> Abs(local[s])], Symbols)

Init ==
  /\ pc = "idle" /\ todo = {} /\ ranked = [s \in Symbols |-> 0]
  /\ equity = 0 /\ budget = 0 /\ room = 0 /\ exited = {} /\ sawHeld = FALSE
  /\ local = [s \in Symbols |-> 0] /\ eodDone = FALSE /\ cycles = 0
  /\ orders = <<>> /\ held = [s \in Symbols |-> 0] /\ closing = {} /\ swept = FALSE
  /\ window = "regular"

--------------------------------------------------------------------------------
\* ExecutionEngine, as the loop sees it.

\* submit_market_order: accepted, or raised with or without the broker having
\* taken the order.
Submit(s, k, d, n) ==
  \E v \in {"pending", "refused"}, l \in BOOLEAN :
    /\ v = "pending" => l
    /\ orders' = Append(orders,
         [sym |-> s, kind |-> k, side |-> d, qty |-> n, cycle |-> cycles,
          filled |-> 0, live |-> l, verdict |-> v, booked |-> 0])

\* enter_position builds the Position, which the loop adds; exit_position
\* builds the TradeRecord, and the caller drops the whole Position and starts
\* the symbol's cooldown, however few shares were confirmed.
Recorded(i) ==
  /\ orders[i].verdict = "pending"
  /\ \E q \in 1..orders[i].filled :
       /\ orders' = [orders EXCEPT ![i].verdict = "recorded", ![i].booked = q]
       /\ LET o == orders[i] IN
          IF o.kind = "enter"
            THEN /\ local' = [local EXCEPT ![o.sym] = o.side * q]
                 /\ room' = room - o.qty
                 /\ UNCHANGED exited
            ELSE /\ local' = [local EXCEPT ![o.sym] = 0]
                 /\ exited' = exited \cup {o.sym}
                 /\ UNCHANGED room
  /\ UNCHANGED <<pc, todo, ranked, equity, budget, sawHeld, cycles,
                 eodDone, held, closing, swept, window>>

\* No confirmed fill: nothing is recorded and the loop moves on.
Refused(i) ==
  /\ orders[i].verdict = "pending"
  /\ orders' = [orders EXCEPT ![i].verdict = "refused"]
  /\ UNCHANGED <<loop, local, eodDone, held, closing, swept, window>>

--------------------------------------------------------------------------------
\* The cycle. A step of its own waits until no call is in flight.

At(p) == pc = p /\ Pending = {}

\* Steps 0-2 give the cycle up: broker unhealthy, clock unreadable, market
\* closed, no fresh ranking, or the day already closed inside the buffer.
SkipCycle ==
  /\ At("idle") /\ cycles < MaxCycles
  /\ cycles' = cycles + 1
  /\ UNCHANGED <<pc, todo, ranked, funds, exited, sawHeld, local, eodDone, broker, window>>

\* Steps 1-5: the ranking is read once, and evaluate_exits lists the positions
\* whose bar touched a stop or a target.
BeginCycle ==
  /\ At("idle") /\ cycles < MaxCycles /\ window = "regular"
  /\ cycles' = cycles + 1
  /\ ranked' \in [Symbols -> Sides \cup {0}]
  /\ \E hit \in SUBSET Open : todo' = hit
  /\ pc' = "exits"
  /\ UNCHANGED <<funds, exited, sawHeld, local, eodDone, broker, window>>

\* Mutant: an exit that is not confirmed is retried within the cycle.
ExitAgain ==
  /\ At(pc) /\ pc \in {"exits", "rotations", "eod"}
  /\ \E s \in todo :
       IF local[s] = 0
         THEN todo' = todo \ {s} /\ UNCHANGED orders
         ELSE Submit(s, "exit", -Side(local[s]), Abs(local[s])) /\ UNCHANGED todo
  /\ UNCHANGED <<pc, ranked, funds, exited, sawHeld, cycles,
                 local, eodDone, held, closing, swept, window>>

\* exit_position for a symbol of the list; Step 6 skips one already gone.
ExitNext ==
  /\ At(pc) /\ pc \in {"exits", "rotations", "eod"}
  /\ \E s \in todo :
       /\ todo' = todo \ {s}
       /\ IF local[s] = 0
            THEN UNCHANGED orders
            ELSE Submit(s, "exit", -Side(local[s]), Abs(local[s]))
  /\ UNCHANGED <<pc, ranked, funds, exited, sawHeld, cycles,
                 local, eodDone, held, closing, swept, window>>

\* Step 6: evaluate_rotations takes every position that lost its side of the
\* ranking, and with a low rank or a stall any other.
BeginRotations ==
  /\ At("exits") /\ todo = {}
  /\ \E list \in SUBSET Open :
       /\ {s \in Open : ranked[s] # Side(local[s])} \subseteq list
       /\ todo' = list
  /\ pc' = "rotations"
  /\ UNCHANGED <<ranked, funds, exited, sawHeld, cycles, local, eodDone, broker, window>>

\* Steps 7-8: candidates are ranked symbols that are not open, less those
\* without a bar or beyond MAX_CANDIDATES_PER_SIDE (all of them, in a sparse
\* ranking). Equity is read anew in every cycle, or replaced by the last paper
\* equity or a default when get_account fails: it may be less than what is already
\* open. Budget and gross exposure are computed once, before the loop.
BeginEntries ==
  /\ At("rotations") /\ todo = {}
  /\ \E c \in SUBSET {s \in Symbols \ Open : ranked[s] # 0}, e \in Equities :
       /\ todo' = c
       /\ equity' = e
       /\ budget' = e \div (IF c = {} THEN 1 ELSE Cardinality(c))
       /\ room' = e - GrossExposure
  /\ pc' = "entries"
  /\ UNCHANGED <<ranked, exited, sawHeld, cycles, local, eodDone, broker, window>>

SideCap(d) == IF d = Long THEN LongCap ELSE ShortCap

\* Mutant: each limit is overrun by one, and the sector is not looked at.
PositionGatesLoose(s, d) ==
  /\ Cardinality(Open) <= MaxOpen
  /\ Cardinality(OnSide(d)) <= SideCap(d)
  /\ s \notin Open

\* The position gates of Step 8 and of validate_entry, on a snapshot of the
\* PositionManager taken for this candidate.
PositionGates(s, d) ==
  /\ Cardinality(Open) < MaxOpen
  /\ Cardinality(OnSide(d)) < SideCap(d)
  /\ s \notin Open
  /\ Sector[s] # NoSector /\ SectorLimit > 0 => Cardinality(InSector(Sector[s])) < SectorLimit

\* Mutant: size is not capped by what is available.
CapitalGatesLoose(n) == room >= MinAvail /\ n <= budget

\* available and size of Step 8: the risk-based size, capped by the budget.
CapitalGates(n) ==
  /\ room >= MinAvail
  /\ n <= budget
  /\ n <= room

\* The re-entry cooldown (mutant: none).
NoCooldown(s) == s \in Symbols
CooledDown(s) == s \notin exited

\* get_open_orders(symbol): [] when there is none, and also when the call fails.
\* Mutant: the orders are not looked at.
NoneAsked(s) == s \in Symbols
NoneReported(s) == LiveOn(s) = {} \/ QueriesFail

\* Long candidates come first in entry_candidates.
NextUp(s) == s \in todo /\ (ranked[s] = Short => \A t \in todo : ranked[t] = Short)

\* Step 8 reaches enter_position: every gate passed.
Enter ==
  /\ At("entries")
  /\ \E s \in todo, n \in 1..MaxSize :
       /\ NextUp(s)
       /\ PositionGates(s, ranked[s])
       /\ CapitalGates(n)
       /\ CooledDown(s)
       /\ NoneReported(s)
       /\ Submit(s, "enter", ranked[s], n)
       /\ todo' = todo \ {s}
  /\ UNCHANGED <<pc, ranked, funds, exited, sawHeld, cycles,
                 local, eodDone, held, closing, swept, window>>

\* A candidate is passed over: by a gate above, or by its price, its stop, its
\* reward/risk or the daily loss. At MAX_OPEN_POSITIONS the loop breaks.
PassOver ==
  /\ At("entries")
  /\ \E s \in todo :
       /\ NextUp(s)
       /\ todo' = IF Cardinality(Open) >= MaxOpen THEN {} ELSE todo \ {s}
  /\ UNCHANGED <<pc, ranked, funds, exited, sawHeld, cycles, local, eodDone, broker, window>>

\* Steps 9-10 only publish diagnostics. The cycle's locals go out of scope. The
\* cooldown counts from the exit to the now_utc taken in Step 2, so within a
\* cycle it never runs out; in a later one it is not relied upon.
EndCycle ==
  /\ At("entries") /\ todo = {}
  /\ pc' = "idle"
  /\ ranked' = [s \in Symbols |-> 0] /\ exited' = {}
  /\ equity' = 0 /\ budget' = 0 /\ room' = 0
  /\ UNCHANGED <<todo, sawHeld, cycles, local, eodDone, broker, window>>

--------------------------------------------------------------------------------
\* _run_eod_close.

\* Inside the buffer, and not done for today (mutant: every tick again).
EodDueAgain == window = "buffer"
EodDue == window = "buffer" /\ ~eodDone

BeginEod ==
  /\ At("idle") /\ cycles < MaxCycles /\ EodDue
  /\ cycles' = cycles + 1
  /\ todo' = Open
  /\ pc' = "eod"
  /\ UNCHANGED <<ranked, funds, exited, sawHeld, local, eodDone, broker, window>>

\* broker_positions = get_positions()
AskPositions ==
  /\ At("eod") /\ todo = {}
  /\ \E truth \in (IF QueriesFail THEN BOOLEAN ELSE {TRUE}) :
       sawHeld' = (truth /\ \E s \in Symbols : held[s] # 0)
  /\ pc' = "eodOrders"
  /\ UNCHANGED <<todo, ranked, funds, exited, cycles, local, eodDone, broker, window>>

SawOrders(truth) == truth /\ (closing # {} \/ \E s \in Symbols : LiveOn(s) # {})

LeaveEod ==
  /\ pc' = "idle" /\ sawHeld' = FALSE /\ exited' = {}
  /\ UNCHANGED <<todo, ranked, funds, cycles, window>>

\* broker_orders = get_open_orders() shows nothing either: return True.
EodClean ==
  /\ At("eodOrders") /\ ~sawHeld
  /\ \E truth \in (IF QueriesFail THEN BOOLEAN ELSE {TRUE}) : ~SawOrders(truth)
  /\ eodDone' = TRUE
  /\ LeaveEod /\ UNCHANGED <<local, broker>>

\* close_all_positions(cancel_orders=True) reaches the broker: it cancels what is
\* open and will sell what is left, or what of it it can.
Liquidate ==
  /\ orders' = [i \in DOMAIN orders |-> [orders[i] EXCEPT !.live = FALSE]]
  /\ \E S \in SUBSET {s \in Symbols : held[s] # 0} : closing' = closing \cup S
  /\ swept' = TRUE
  /\ UNCHANGED held

\* The fail-safe is accepted: every local position is dropped without a record.
EodFailSafe ==
  /\ At("eodOrders") /\ (sawHeld \/ SawOrders(TRUE))
  /\ Liquidate
  /\ local' = [s \in Symbols |-> 0]
  /\ eodDone' = TRUE
  /\ LeaveEod

\* close_all_positions raised, before or after the broker took the request:
\* return False, the next tick retries.
EodFailed ==
  /\ At("eodOrders") /\ (sawHeld \/ SawOrders(TRUE))
  /\ Liquidate \/ UNCHANGED broker
  /\ LeaveEod /\ UNCHANGED <<local, eodDone>>

--------------------------------------------------------------------------------
\* The broker and the clock.

BrokerFill(i) ==
  /\ orders[i].live /\ window # "closed"
  /\ orders' = [orders EXCEPT ![i].filled = @ + 1,
                              ![i].live = orders[i].filled + 1 < orders[i].qty]
  /\ held' = [held EXCEPT ![orders[i].sym] = @ + orders[i].side]
  /\ UNCHANGED <<loop, local, eodDone, closing, swept, window>>

\* Canceled, expired or rejected.
BrokerKill(i) ==
  /\ orders[i].live
  /\ orders' = [orders EXCEPT ![i].live = FALSE]
  /\ UNCHANGED <<loop, local, eodDone, held, closing, swept, window>>

BrokerClose(s) ==
  /\ s \in closing /\ window # "closed"
  /\ closing' = closing \ {s}
  /\ held' = [held EXCEPT ![s] = 0]
  /\ UNCHANGED <<loop, local, eodDone, orders, swept, window>>

Clock ==
  /\ \/ window = "regular" /\ window' = "buffer"
     \/ window = "buffer"  /\ window' = "closed"
  /\ UNCHANGED <<loop, local, eodDone, broker>>

--------------------------------------------------------------------------------
Answer == \E i \in DOMAIN orders : Recorded(i) \/ Refused(i)

CycleStep ==
  \/ Answer \/ ExitNext \/ BeginRotations \/ BeginEntries \/ Enter \/ PassOver
  \/ EndCycle \/ AskPositions \/ EodClean \/ EodFailSafe \/ EodFailed

TickStep == SkipCycle \/ BeginCycle \/ BeginEod

BrokerStep ==
  \/ \E i \in DOMAIN orders : BrokerFill(i) \/ BrokerKill(i)
  \/ \E s \in Symbols : BrokerClose(s)

Next == CycleStep \/ TickStep \/ BrokerStep \/ Clock

Spec == Init /\ [][Next]_vars

--------------------------------------------------------------------------------
\* Every variable of the loop, the position manager and the broker is of its
\* type (room is whatever arithmetic leaves), and only the last order sent can
\* still be waiting for its answer.
TypeOK ==
  /\ pc \in Steps /\ todo \subseteq Symbols
  /\ ranked \in [Symbols -> Sides \cup {0}]
  /\ equity \in Equities \cup {0} /\ budget \in 0..equity
  /\ exited \subseteq Symbols /\ sawHeld \in BOOLEAN
  /\ local \in [Symbols -> -MaxSize..MaxSize] /\ eodDone \in BOOLEAN
  /\ cycles \in 0..MaxCycles
  /\ orders \in Seq(Order) /\ Pending \subseteq {Len(orders)}
  /\ held \in [Symbols -> Int] /\ closing \subseteq Symbols /\ swept \in BOOLEAN
  /\ window \in Windows

\* The caps of config/settings.py hold of the positions themselves, although
\* the gates look at them before the order is sent and the position is added
\* only after the fill is confirmed.
CapsHold ==
  /\ Cardinality(Open) <= MaxOpen
  /\ \A d \in Sides : Cardinality(OnSide(d)) <= SideCap(d)

\* No sector ever holds more positions than its limit, known sectors only.
SectorCapHolds ==
  SectorLimit > 0 =>
    \A k \in {Sector[s] : s \in Symbols} \ {NoSector} :
      Cardinality(InSector(k)) <= SectorLimit

\* Whatever equity the cycle was given, and however far it is below what is open,
\* exposure grows only while it stays within one times that equity, though gross
\* exposure is computed once, before the entries, and sizes are those asked for.
ExposureGrowsWithinEquity ==
  [][GrossExposure' > GrossExposure => GrossExposure' <= equity]_vars

\* What the broker holds beyond the loop's books is exactly what the loop was
\* not told of: all fills of refused and pending orders, entry fills after the
\* accepted ones, and the unfilled part of exits accepted as partial. There is
\* no other source of drift until a liquidation request reaches the broker, be it
\* one the loop takes for failed and whose positions it goes on to sell itself.
Unrecorded(o) ==
  IF o.verdict # "recorded" THEN o.filled
  ELSE IF o.kind = "enter" THEN o.filled - o.booked ELSE o.filled - o.qty

DriftIsUnrecorded ==
  ~swept => \A s \in Symbols :
    held[s] - local[s] =
      SumFunctionOnSet([i \in DOMAIN orders |-> orders[i].side * Unrecorded(orders[i])],
                       {i \in DOMAIN orders : orders[i].sym = s})

\* Once the end-of-day pass has returned True no order is sent for the rest of
\* the day, whichever cycles still run.
EodIsFinal == [][eodDone => Len(orders') = Len(orders)]_vars

\* A cycle that recorded an exit of a symbol does not enter it again: the
\* opposing entry would race a fill that has not settled.
NoReentryInCycle ==
  \A i, j \in DOMAIN orders :
    i < j /\ orders[i].sym = orders[j].sym /\ orders[i].cycle = orders[j].cycle
      /\ orders[i].kind = "exit" /\ orders[i].verdict = "recorded"
    => orders[j].kind = "exit"

\* While the broker's answers can be trusted, an entry never works behind an
\* older order of its symbol, in whichever cycle that one was given up.
NoEntryBehindWorkingOrder ==
  ~QueriesFail => \A s \in Symbols : \A i, j \in LiveOn(s) :
    i < j => orders[j].kind = "exit"

\* How many steps of its own a cycle has left at most: each loop that is still to
\* start may list every symbol, and a symbol costs a call and its answer.
Phase ==
  CASE pc = "exits"                     -> 4 * Cardinality(Symbols) + 3
    [] pc = "rotations"                 -> 2 * Cardinality(Symbols) + 2
    [] pc = "eod"                       -> 2
    [] pc \in {"entries", "eodOrders"} -> 1
    [] pc = "idle"                      -> 0
StepsLeft == Phase + 2 * Cardinality(todo) + Cardinality(Pending)

\* Every loop of a cycle runs out, whatever the calls in it answer and whatever
\* the broker and the clock do meanwhile: each step the cycle takes uses up one of
\* a number fixed by the universe, and nothing else gives any back. Only a call
\* that never returns can keep a cycle from its end.
BudgetSpent ==
  /\ StepsLeft \in Nat
  /\ CycleStep => StepsLeft' < StepsLeft
  /\ pc # "idle" /\ ~CycleStep => StepsLeft' = StepsLeft
CycleRunsOut == [][BudgetSpent]_vars

--------------------------------------------------------------------------------
\* exit_position sends the "counter-side to flatten the position": an exit order
\* never takes the account through flat to the other side.
ExitsFlatten ==
  [][\A i \in DOMAIN orders :
       orders'[i].filled > orders[i].filled /\ orders[i].kind = "exit" =>
         held[orders[i].sym] * orders[i].side < 0]_vars
===============================================================================
