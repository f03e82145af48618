------------------------------ MODULE FillConfirm ------------------------------
(***************************************************************************)
(* ExecutionEngine (core/trading/execution.py): a market order is sent,    *)
(* then polled on the backoff schedule by a task of the shared pool        *)
(* _FILL_POLL_POOL, while the trading thread waits for the task under a    *)
(* hard wall-clock ceiling. Sending has no such ceiling: the request, the  *)
(* broker's taking of the order and the reply are steps of their own.      *)
(*                                                                         *)
(* Three parties interleave: the trading thread (one call at a time), the  *)
(* pool's poll tasks (which outlive a call that hit the ceiling), and the  *)
(* broker, which goes on working an order nobody cancels.                  *)
(***************************************************************************)
EXTENDS Naturals, FiniteSets

CONSTANTS
  Orders,    \* successive enter_position / exit_position calls
  Lot,       \* shares each order asks for
  Workers,   \* max_workers of the pool
  MaxPolls   \* entries of settings.FILL_CONFIRM_BACKOFF

ASSUME FillConfirmAssumption ==
  /\ Lot \in Nat \ {0}
  /\ Workers \in Nat \ {0}
  /\ MaxPolls \in Nat \ {0}

VARIABLES
  status,   \* [Orders -> BrokerStatus]: the order at the broker
  filled,   \* [Orders -> 0..Lot]: shares executed so far
  task,     \* [Orders -> TaskState]: the poll task in the pool
  polls,    \* [Orders -> 0..MaxPolls]: backoff entries left
  seen,     \* [Orders -> 0..Lot]: shares of the last order read, 0 if that
            \* read lacked a price, a quantity or a fill time
  outcome,  \* [Orders -> Outcome]: the _FillOutcome the task returned
  verdict,  \* [Orders -> Verdicts]: what the caller was told
  reason,   \* [Orders -> Reasons]: why
  booked    \* [Orders -> 0..Lot]: size of the Position or TradeRecord built

broker == <<status, filled>>
pool   == <<task, polls, seen, outcome>>
caller == <<verdict, reason, booked>>
vars   == <<status, filled, task, polls, seen, outcome, verdict, reason, booked>>

\* "absent": the broker has not taken the order; "live": it works it, whatever
\* status it reports; "dead": canceled, expired or rejected, after any number of
\* shares.
BrokerStatus == {"absent", "live", "filled", "dead"}
TaskState    == {"none", "queued", "running", "hung", "done", "cancelled"}
Verdicts     == {"none", "sending", "pending", "recorded", "refused"}
Reasons      == {"none", "filled", "accepted_partial_fill", "missing_broker_truth",
                 "terminal_not_filled", "timeout_unconfirmed",
                 "hard_ceiling_exceeded", "submission_failed"}
Outcome      == [qty : 0..Lot, reason : Reasons]

\* qty = 0 encodes _FillOutcome(filled=False).
NotFilled(why) == [qty |-> 0, reason |-> why]

Init ==
  /\ status  = [o \in Orders |-> "absent"]
  /\ filled  = [o \in Orders |-> 0]
  /\ task    = [o \in Orders |-> "none"]
  /\ polls   = [o \in Orders |-> 0]
  /\ seen    = [o \in Orders |-> 0]
  /\ outcome = [o \in Orders |-> NotFilled("none")]
  /\ verdict = [o \in Orders |-> "none"]
  /\ reason  = [o \in Orders |-> "none"]
  /\ booked  = [o \in Orders |-> 0]

--------------------------------------------------------------------------------
\* The trading thread.

CallerFree == \A o \in Orders : verdict[o] \notin {"sending", "pending"}

\* submit_market_order: the trading thread waits, without a timeout of its own.
Send(o) ==
  /\ CallerFree /\ verdict[o] = "none"
  /\ verdict' = [verdict EXCEPT ![o] = "sending"]
  /\ UNCHANGED <<broker, pool, reason, booked>>

\* The reply came with an id, by when the order may have run its whole life;
\* _confirm_fill hands the poll to the pool.
SubmitAccepted(o) ==
  /\ verdict[o] = "sending" /\ status[o] # "absent"
  /\ task'    = [task EXCEPT ![o] = "queued"]
  /\ verdict' = [verdict EXCEPT ![o] = "pending"]
  /\ UNCHANGED <<broker, polls, seen, outcome, reason, booked>>

\* submit_market_order raised: nothing is polled, whether it was the request or
\* the reply that was lost.
SubmitRaised(o) ==
  /\ verdict[o] = "sending"
  /\ verdict' = [verdict EXCEPT ![o] = "refused"]
  /\ reason'  = [reason EXCEPT ![o] = "submission_failed"]
  /\ UNCHANGED <<broker, pool, booked>>

\* The caller is blocked in future.result() (mutant: a late result still counts).
WaitingOrGivenUp(o) == verdict[o] \in {"pending", "refused"}
Waiting(o) == verdict[o] = "pending"

\* future.result() delivered: the outcome decides whether anything is recorded.
Deliver(o) ==
  /\ Waiting(o) /\ task[o] = "done"
  /\ reason' = [reason EXCEPT ![o] = outcome[o].reason]
  /\ IF outcome[o].qty > 0
       THEN /\ verdict' = [verdict EXCEPT ![o] = "recorded"]
            /\ booked'  = [booked EXCEPT ![o] = outcome[o].qty]
       ELSE /\ verdict' = [verdict EXCEPT ![o] = "refused"]
            /\ UNCHANGED booked
  /\ UNCHANGED <<broker, pool>>

\* Future.result(timeout) expired; cancel() only stops a task not yet started.
Ceiling(o) ==
  /\ Waiting(o) /\ task[o] # "done"
  /\ verdict' = [verdict EXCEPT ![o] = "refused"]
  /\ reason'  = [reason EXCEPT ![o] = "hard_ceiling_exceeded"]
  /\ task'    = IF task[o] = "queued" THEN [task EXCEPT ![o] = "cancelled"] ELSE task
  /\ UNCHANGED <<broker, polls, seen, outcome, booked>>

--------------------------------------------------------------------------------
\* The pool.

Busy == {o \in Orders : task[o] \in {"running", "hung"}}

Dispatch(o) ==
  /\ task[o] = "queued" /\ Cardinality(Busy) < Workers
  /\ task'  = [task EXCEPT ![o] = "running"]
  /\ polls' = [polls EXCEPT ![o] = MaxPolls]
  /\ UNCHANGED <<broker, seen, outcome, caller>>

Finish(o, result) ==
  /\ task'    = [task EXCEPT ![o] = "done"]
  /\ outcome' = [outcome EXCEPT ![o] = result]

\* _build_filled_outcome: no price, quantity or fill time means no fill.
Built(qty, complete, why) ==
  IF complete /\ qty > 0 THEN [qty |-> qty, reason |-> why]
                         ELSE NotFilled("missing_broker_truth")

\* Whether the schedule has an entry left.
EntryLeft(o) == polls[o] > 0

\* get_order returned None: the entry of the schedule is spent.
PollNothing(o) ==
  /\ task[o] = "running" /\ EntryLeft(o)
  /\ polls' = [polls EXCEPT ![o] = @ - 1]
  /\ UNCHANGED <<broker, task, seen, outcome, caller>>

PollFilled(o) ==
  /\ task[o] = "running" /\ EntryLeft(o) /\ status[o] = "filled"
  /\ \E complete \in BOOLEAN : Finish(o, Built(filled[o], complete, "filled"))
  /\ UNCHANGED <<broker, polls, seen, caller>>

\* Any status outside _NON_TERMINAL_STATUSES ends the poll: canceled, expired or
\* rejected, but also done_for_day, suspended, calculated or none at all, which
\* the broker may report of an order it goes on working.
PollTerminal(o) ==
  /\ task[o] = "running" /\ EntryLeft(o)
  /\ Finish(o, NotFilled("terminal_not_filled"))
  /\ UNCHANGED <<broker, polls, seen, caller>>

PollLive(o) ==
  /\ task[o] = "running" /\ EntryLeft(o) /\ status[o] = "live"
  /\ \E complete \in BOOLEAN :
       seen' = [seen EXCEPT ![o] = IF complete THEN filled[o] ELSE 0]
  /\ polls' = [polls EXCEPT ![o] = @ - 1]
  /\ UNCHANGED <<broker, task, outcome, caller>>

\* The fill at the end of the schedule (mutants: the size asked for; a partial
\* fill taken before the schedule is spent).
AcceptWhole(o) ==
  IF seen[o] > 0 THEN [qty |-> Lot, reason |-> "accepted_partial_fill"]
                 ELSE NotFilled("timeout_unconfirmed")
AcceptPartial(o) ==
  IF seen[o] > 0 THEN [qty |-> seen[o], reason |-> "accepted_partial_fill"]
                 ELSE NotFilled("timeout_unconfirmed")

SpentOrPartial(o) == polls[o] = 0 \/ seen[o] > 0
Spent(o) == polls[o] = 0

\* The schedule is exhausted: accept the partial fill of the last order read,
\* or give the order up as unconfirmed. Nothing cancels it at the broker.
Exhaust(o) ==
  /\ task[o] = "running" /\ Spent(o)
  /\ Finish(o, AcceptPartial(o))
  /\ UNCHANGED <<broker, polls, seen, caller>>

\* get_order does not return, for now or for good.
Hang(o) ==
  /\ task[o] = "running" /\ EntryLeft(o)
  /\ task' = [task EXCEPT ![o] = "hung"]
  /\ UNCHANGED <<broker, polls, seen, outcome, caller>>

Unhang(o) ==
  /\ task[o] = "hung"
  /\ task' = [task EXCEPT ![o] = "running"]
  /\ UNCHANGED <<broker, polls, seen, outcome, caller>>

--------------------------------------------------------------------------------
\* The broker.

\* The request arrives, while the caller waits or after it has given up.
TakeOrder(o) ==
  /\ status[o] = "absent"
  /\ verdict[o] = "sending" \/ reason[o] = "submission_failed"
  /\ status' = [status EXCEPT ![o] = "live"]
  /\ UNCHANGED <<filled, pool, caller>>

BrokerFill(o) ==
  /\ status[o] = "live"
  /\ filled' = [filled EXCEPT ![o] = @ + 1]
  /\ status' = IF filled[o] + 1 = Lot THEN [status EXCEPT ![o] = "filled"] ELSE status
  /\ UNCHANGED <<pool, caller>>

BrokerKill(o) ==
  /\ status[o] = "live"
  /\ status' = [status EXCEPT ![o] = "dead"]
  /\ UNCHANGED <<filled, pool, caller>>

--------------------------------------------------------------------------------
CallerStep(o) ==
  Send(o) \/ SubmitAccepted(o) \/ SubmitRaised(o) \/ Deliver(o) \/ Ceiling(o)

PoolStep(o) ==
  \/ Dispatch(o) \/ PollNothing(o) \/ PollFilled(o) \/ PollTerminal(o)
  \/ PollLive(o) \/ Exhaust(o) \/ Hang(o) \/ Unhang(o)

BrokerStep(o) == TakeOrder(o) \/ BrokerFill(o) \/ BrokerKill(o)

Next == \E o \in Orders : CallerStep(o) \/ PoolStep(o) \/ BrokerStep(o)

Spec == Init /\ [][Next]_vars

--------------------------------------------------------------------------------
\* Every variable of the engine, its pool and the broker keeps its type.
TypeOK ==
  /\ status  \in [Orders -> BrokerStatus]
  /\ filled  \in [Orders -> 0..Lot]
  /\ task    \in [Orders -> TaskState]
  /\ polls   \in [Orders -> 0..MaxPolls]
  /\ seen    \in [Orders -> 0..Lot]
  /\ outcome \in [Orders -> Outcome]
  /\ verdict \in [Orders -> Verdicts]
  /\ reason  \in [Orders -> Reasons]
  /\ booked  \in [Orders -> 0..Lot]

\* A Position or TradeRecord always has at least one share behind it and never
\* more shares than the broker has executed, although the size comes from a
\* read that may be several polls old by the time the caller sees it.
RecordIsBrokerBacked ==
  \A o \in Orders : verdict[o] = "recorded" => booked[o] \in 1..filled[o]

\* Fewer shares than asked are recorded only once the whole backoff schedule is
\* spent; an order recorded as "filled" is recorded whole.
PartialOnlyAtTheEnd ==
  \A o \in Orders : verdict[o] = "recorded" =>
    /\ reason[o] = "filled" => booked[o] = Lot
    /\ booked[o] < Lot => polls[o] = 0

\* The engine keeps the promise of FillGate, where an order is open from the
\* moment it is sent: its one verdict survives lost replies, late results and
\* whatever the broker does to an order nobody watches any more.
Told == [o \in Orders |-> IF verdict[o] = "sending" THEN "pending" ELSE verdict[o]]
Gate == INSTANCE FillGate WITH verdict <- Told
KeepsGate == Gate!Spec
================================================================================
