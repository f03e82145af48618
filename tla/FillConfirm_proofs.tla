-------------------------- MODULE FillConfirm_proofs --------------------------
(***************************************************************************)
(* Theorems about FillConfirm, for any number of orders, shares, workers   *)
(* and polls: types, the two safety invariants, and the refinement of      *)
(* FillGate.                                                               *)
(***************************************************************************)
EXTENDS FillConfirm, TLAPS

\* An order not yet sent has no trace at the broker, one not yet accepted none in
\* the pool, and a live one still has shares to execute.
Fresh ==
  \A o \in Orders :
    /\ verdict[o] = "none" => status[o] = "absent" /\ reason[o] = "none"
    /\ verdict[o] \in {"none", "sending"} => task[o] = "none"
    /\ status[o] = "absent" => filled[o] = 0
    /\ status[o] = "live" => filled[o] < Lot
    /\ status[o] = "filled" => filled[o] = Lot

\* A read is remembered in seen, then in the outcome of the task, then in the
\* caller's record: each stays within what the broker has executed because
\* executions are never undone.
ReadsAreOld ==
  \A o \in Orders :
    /\ seen[o] <= filled[o]
    /\ outcome[o].qty <= filled[o]

\* What a finished poll says is still true of the order when it is delivered.
OutcomeHonest ==
  \A o \in Orders :
    /\ outcome[o].reason # "none" => task[o] = "done"
    /\ outcome[o].reason = "filled" => outcome[o].qty = Lot
    /\ outcome[o].qty > 0 => outcome[o].reason # "none"
    /\ outcome[o].qty > 0 /\ outcome[o].qty < Lot => polls[o] = 0
    /\ verdict[o] = "recorded" => task[o] = "done"

IInv ==
  /\ TypeOK /\ Fresh /\ ReadsAreOld /\ OutcomeHonest
  /\ RecordIsBrokerBacked /\ PartialOnlyAtTheEnd

--------------------------------------------------------------------------------
\* Before the first call there is nothing to be wrong about.
LEMMA InitIInv == Init => IInv
<1> SUFFICES ASSUME Init PROVE IInv
  OBVIOUS
<1> USE FillConfirmAssumption DEF Init
<1>1. TypeOK
  BY DEF TypeOK, BrokerStatus, TaskState, Verdicts, Reasons, Outcome, NotFilled
<1>2. Fresh /\ ReadsAreOld /\ OutcomeHonest
  BY DEF Fresh, ReadsAreOld, OutcomeHonest, NotFilled
<1>3. RecordIsBrokerBacked /\ PartialOnlyAtTheEnd
  BY DEF RecordIsBrokerBacked, PartialOnlyAtTheEnd
<1> QED BY <1>1, <1>2, <1>3 DEF IInv

\* The trading thread's steps. Deliver is the one that records: it copies an
\* honest outcome into the verdict.
LEMMA CallerKeeps ==
  ASSUME IInv, NEW o \in Orders, CallerStep(o)
  PROVE  IInv'
<1> USE FillConfirmAssumption
    DEF IInv, TypeOK, Fresh, ReadsAreOld, OutcomeHonest, RecordIsBrokerBacked,
        PartialOnlyAtTheEnd, broker, pool, caller
<1>0. CASE Send(o)
  BY <1>0 DEF Send, Verdicts
<1>1. CASE SubmitAccepted(o)
  BY <1>1 DEF SubmitAccepted, TaskState, Verdicts
<1>2. CASE SubmitRaised(o)
  BY <1>2 DEF SubmitRaised, Verdicts, Reasons
<1>3. CASE Deliver(o)
  <2>1. outcome[o].qty \in 0..Lot /\ outcome[o].reason \in Reasons
    BY DEF Outcome
  <2>2. TypeOK'
    BY <1>3, <2>1 DEF Deliver, Verdicts
  <2>3. (Fresh /\ ReadsAreOld /\ OutcomeHonest)'
    BY <1>3 DEF Deliver
  <2>4. (RecordIsBrokerBacked /\ PartialOnlyAtTheEnd)'
    BY <1>3, <2>1 DEF Deliver
  <2> QED BY <2>2, <2>3, <2>4
<1>4. CASE Ceiling(o)
  BY <1>4 DEF Ceiling, Waiting, TaskState, Verdicts, Reasons
<1> QED BY <1>0, <1>1, <1>2, <1>3, <1>4 DEF CallerStep

\* A task that ends with an honest outcome keeps the invariant, whichever poll
\* ended it.
LEMMA FinishKeeps ==
  ASSUME IInv, NEW o \in Orders, NEW r \in Outcome, r.qty <= filled[o],
         r.reason # "none", task[o] = "running",
         r.reason = "filled" => r.qty = Lot,
         r.qty > 0 /\ r.qty < Lot => polls[o] = 0,
         Finish(o, r), UNCHANGED <<broker, polls, seen, caller>>
  PROVE  IInv'
<1> USE FillConfirmAssumption DEF IInv, broker, caller
<1>1. TypeOK'
  BY DEF TypeOK, Finish, TaskState
<1>2. \A p \in Orders : /\ outcome'[p] = IF p = o THEN r ELSE outcome[p]
                        /\ task'[p] = IF p = o THEN "done" ELSE task[p]
  BY DEF Finish, TypeOK
<1>3. (Fresh /\ ReadsAreOld /\ OutcomeHonest)'
  BY <1>2 DEF Fresh, ReadsAreOld, OutcomeHonest
<1>4. (RecordIsBrokerBacked /\ PartialOnlyAtTheEnd)'
  BY DEF RecordIsBrokerBacked, PartialOnlyAtTheEnd
<1> QED BY <1>1, <1>3, <1>4

\* The pool's steps: a task reads the order, ends, or hangs.
LEMMA PoolKeeps ==
  ASSUME IInv, NEW o \in Orders, PoolStep(o)
  PROVE  IInv'
<1> USE FillConfirmAssumption
    DEF IInv, TypeOK, Fresh, ReadsAreOld, OutcomeHonest, RecordIsBrokerBacked,
        PartialOnlyAtTheEnd, broker, caller
<1>0. seen[o] \in 0..Lot /\ filled[o] \in 0..Lot /\ polls[o] \in 0..MaxPolls
  OBVIOUS
<1>1. CASE Dispatch(o)
  BY <1>1 DEF Dispatch, TaskState
<1>2. CASE PollNothing(o)
  BY <1>2 DEF PollNothing, EntryLeft
<1>3. CASE PollFilled(o)
  <2>1. PICK complete \in BOOLEAN : Finish(o, Built(filled[o], complete, "filled"))
    BY <1>3 DEF PollFilled
  <2> DEFINE r == Built(filled[o], complete, "filled")
  <2>2. filled[o] = Lot /\ task[o] = "running"
    BY <1>3 DEF PollFilled
  <2>3. /\ r \in Outcome /\ r.qty <= filled[o] /\ r.reason # "none"
        /\ r.reason = "filled" => r.qty = Lot
        /\ r.qty \in {0, Lot}
    BY <1>0, <2>2 DEF Built, NotFilled, Outcome, Reasons
  <2>4. UNCHANGED <<broker, polls, seen, caller>>
    BY <1>3 DEF PollFilled
  <2> HIDE DEF r
  <2> QED BY <2>1, <2>2, <2>3, <2>4, FinishKeeps DEF r
<1>4. CASE PollTerminal(o)
  <2> DEFINE r == NotFilled("terminal_not_filled")
  <2>1. r \in Outcome /\ r.qty = 0 /\ r.reason = "terminal_not_filled"
    BY DEF NotFilled, Outcome, Reasons
  <2>2. /\ task[o] = "running" /\ Finish(o, r)
        /\ UNCHANGED <<broker, polls, seen, caller>>
    BY <1>4 DEF PollTerminal
  <2> HIDE DEF r
  <2> QED BY <1>0, <2>1, <2>2, FinishKeeps
<1>5. CASE PollLive(o)
  BY <1>5 DEF PollLive, EntryLeft
<1>6. CASE Exhaust(o)
  <2> DEFINE r == IF seen[o] > 0 THEN [qty |-> seen[o], reason |-> "accepted_partial_fill"]
                                 ELSE NotFilled("timeout_unconfirmed")
  <2>1. /\ r \in Outcome /\ r.qty <= filled[o]
        /\ r.reason \in {"accepted_partial_fill", "timeout_unconfirmed"}
    BY <1>0 DEF Outcome, Reasons, NotFilled
  <2>2. /\ Finish(o, r) /\ polls[o] = 0 /\ task[o] = "running"
        /\ UNCHANGED <<broker, polls, seen, caller>>
    BY <1>6 DEF Exhaust, Spent, AcceptPartial
  <2> HIDE DEF r
  <2> QED BY <2>1, <2>2, FinishKeeps
<1>7. CASE Hang(o)
  BY <1>7 DEF Hang, TaskState
<1>8. CASE Unhang(o)
  BY <1>8 DEF Unhang, TaskState
<1> QED BY <1>1, <1>2, <1>3, <1>4, <1>5, <1>6, <1>7, <1>8 DEF PoolStep

\* The broker only adds executions, and only to live orders.
LEMMA BrokerKeeps ==
  ASSUME IInv, NEW o \in Orders, BrokerStep(o)
  PROVE  IInv'
<1> USE FillConfirmAssumption DEF IInv, pool, caller
<1>1. CASE BrokerFill(o)
  <2>1. /\ filled[o] + 1 \in 0..Lot
        /\ \A p \in Orders : filled'[p] = IF p = o THEN filled[o] + 1 ELSE filled[p]
        /\ \A p \in Orders : filled[p] \in 0..Lot
    BY <1>1 DEF BrokerFill, TypeOK, Fresh
  <2>2. TypeOK'
    BY <1>1, <2>1 DEF BrokerFill, TypeOK, BrokerStatus
  <2>3. Fresh'
    BY <1>1, <2>1 DEF BrokerFill, TypeOK, Fresh
  <2>4. ReadsAreOld'
    <3>1. \A p \in Orders : outcome[p].qty \in 0..Lot /\ seen[p] \in 0..Lot
      BY DEF TypeOK, Outcome
    <3> QED BY <1>1, <2>1, <3>1 DEF BrokerFill, ReadsAreOld
  <2>5. OutcomeHonest'
    BY <1>1, <2>1 DEF BrokerFill, TypeOK, OutcomeHonest
  <2>6. RecordIsBrokerBacked' /\ PartialOnlyAtTheEnd'
    BY <1>1, <2>1 DEF BrokerFill, RecordIsBrokerBacked, PartialOnlyAtTheEnd, TypeOK
  <2> QED BY <2>2, <2>3, <2>4, <2>5, <2>6
<1>2. CASE BrokerKill(o)
  BY <1>2 DEF BrokerKill, TypeOK, BrokerStatus, Fresh, ReadsAreOld, OutcomeHonest,
     RecordIsBrokerBacked, PartialOnlyAtTheEnd
<1>3. CASE TakeOrder(o)
  BY <1>3 DEF TakeOrder, TypeOK, BrokerStatus, Fresh, ReadsAreOld, OutcomeHonest,
     RecordIsBrokerBacked, PartialOnlyAtTheEnd
<1> QED BY <1>1, <1>2, <1>3 DEF BrokerStep

\* All three parties together.
LEMMA NextIInv == IInv /\ [Next]_vars => IInv'
<1>1. ASSUME IInv, UNCHANGED vars PROVE IInv'
  BY <1>1 DEF IInv, TypeOK, Fresh, ReadsAreOld, OutcomeHonest, RecordIsBrokerBacked,
     PartialOnlyAtTheEnd, vars
<1> QED BY <1>1, CallerKeeps, PoolKeeps, BrokerKeeps DEF Next

--------------------------------------------------------------------------------
\* Every variable keeps its type, for any number of orders, shares, workers and
\* polls.
THEOREM TypeCorrect == Spec => []TypeOK
<1>1. IInv => TypeOK
  BY DEF IInv
<1> QED BY <1>1, InitIInv, NextIInv, PTL DEF Spec

\* No Position or TradeRecord is built with more shares than the broker has
\* executed, and none with no share at all (execution.py, _build_filled_outcome
\* and its callers), whatever the interleaving of polls, fills and time-outs.
THEOREM FillsAreReal == Spec => []RecordIsBrokerBacked
<1>1. IInv => RecordIsBrokerBacked
  BY DEF IInv
<1> QED BY <1>1, InitIInv, NextIInv, PTL DEF Spec

\* A partial fill is accepted only when the backoff schedule is spent, and what is
\* recorded as filled is recorded whole (execution.py, _poll_order).
THEOREM PartialsAreLast == Spec => []PartialOnlyAtTheEnd
<1>1. IInv => PartialOnlyAtTheEnd
  BY DEF IInv
<1> QED BY <1>1, InitIInv, NextIInv, PTL DEF Spec

--------------------------------------------------------------------------------
\* Telling the caller something new about one order changes Told in one place.
LEMMA ToldChanges ==
  ASSUME TypeOK, NEW o \in Orders, NEW v, verdict' = [verdict EXCEPT ![o] = v]
  PROVE  Told' = [Told EXCEPT ![o] = IF v = "sending" THEN "pending" ELSE v]
BY DEF TypeOK, Told

\* A step of the trading thread opens, refuses or records one order, or learns
\* that an open one was accepted.
LEMMA CallerRefines ==
  ASSUME IInv, NEW o \in Orders, CallerStep(o)
  PROVE  [Gate!Next]_<<filled, Told, booked>>
<1> USE DEF Gate!Next, pool, broker
<1>a. TypeOK
  BY DEF IInv
<1>b. Told[o] = IF verdict[o] = "sending" THEN "pending" ELSE verdict[o]
  BY DEF Told
<1>0. CASE Send(o)
  <2>1. Told' = [Told EXCEPT ![o] = "pending"]
    BY <1>0, <1>a, ToldChanges DEF Send
  <2> QED BY <1>0, <1>b, <2>1 DEF Send, Gate!Open
<1>1. CASE SubmitAccepted(o)
  <2>1. Told' = [Told EXCEPT ![o] = "pending"] /\ Told[o] = "pending"
    BY <1>1, <1>a, <1>b, ToldChanges DEF SubmitAccepted
  <2>2. Told' = Told
    BY <2>1 DEF Told
  <2> QED BY <1>1, <2>2 DEF SubmitAccepted
<1>2. CASE SubmitRaised(o)
  <2>1. Told' = [Told EXCEPT ![o] = "refused"]
    BY <1>2, <1>a, ToldChanges DEF SubmitRaised
  <2> QED BY <1>2, <1>b, <2>1 DEF SubmitRaised, Gate!Refuse
<1>3. CASE Deliver(o) /\ outcome[o].qty > 0
  <2>1. outcome[o].qty \in 1..filled[o]
    BY <1>3 DEF IInv, TypeOK, Outcome, ReadsAreOld
  <2>2. Told' = [Told EXCEPT ![o] = "recorded"]
    BY <1>3, <1>a, ToldChanges DEF Deliver
  <2>3. Gate!Record(o)
    BY <1>3, <1>b, <2>1, <2>2 DEF Deliver, Waiting, Gate!Record
  <2> QED BY <2>3
<1>4. CASE Deliver(o) /\ ~(outcome[o].qty > 0)
  <2>1. Told' = [Told EXCEPT ![o] = "refused"]
    BY <1>4, <1>a, ToldChanges DEF Deliver
  <2> QED BY <1>4, <1>b, <2>1 DEF Deliver, Waiting, Gate!Refuse
<1>5. CASE Ceiling(o)
  <2>1. Told' = [Told EXCEPT ![o] = "refused"]
    BY <1>5, <1>a, ToldChanges DEF Ceiling
  <2> QED BY <1>5, <1>b, <2>1 DEF Ceiling, Waiting, Gate!Refuse
<1> QED BY <1>0, <1>1, <1>2, <1>3, <1>4, <1>5 DEF CallerStep

\* The pool never touches what FillGate speaks of, and the broker only executes.
LEMMA OthersRefine ==
  ASSUME IInv, NEW o \in Orders, PoolStep(o) \/ BrokerStep(o)
  PROVE  [Gate!Next]_<<filled, Told, booked>>
<1>0. UNCHANGED verdict => UNCHANGED Told
  BY DEF Told
<1>1. CASE PoolStep(o)
  BY <1>0, <1>1 DEF PoolStep, Dispatch, PollNothing, PollFilled, PollTerminal, PollLive,
     Exhaust, Hang, Unhang, broker, caller
<1>2. CASE BrokerFill(o)
  <2>1. filled[o] + 1 \in 0..Lot /\ filled[o] + 1 > filled[o]
    BY <1>2, FillConfirmAssumption DEF BrokerFill, IInv, TypeOK, Fresh
  <2>2. Gate!Execute(o)
    BY <1>0, <1>2, <2>1 DEF BrokerFill, Gate!Execute, caller
  <2> QED BY <2>2 DEF Gate!Next
<1>3. CASE BrokerKill(o) \/ TakeOrder(o)
  BY <1>0, <1>3 DEF BrokerKill, TakeOrder, caller
<1> QED BY <1>1, <1>2, <1>3 DEF BrokerStep

\* The engine, its pool and the broker together implement FillGate: one verdict
\* per order, never changed, and shares booked only against executed shares,
\* whether or not the reply to the submission ever arrives.
THEOREM KeepsFillGate == Spec => KeepsGate
<1>1. Init => Gate!Init
  BY DEF Init, Gate!Init, Told
<1>2. IInv /\ [Next]_vars => [Gate!Next]_<<filled, Told, booked>>
  <2>1. ASSUME UNCHANGED vars PROVE UNCHANGED <<filled, Told, booked>>
    BY <2>1 DEF vars, Told
  <2> QED BY <2>1, CallerRefines, OthersRefine DEF Next
<1>3. Gate!gateVars = <<filled, Told, booked>>
  BY DEF Gate!gateVars
<1> QED BY <1>1, <1>2, <1>3, InitIInv, NextIInv, PTL DEF Spec, KeepsGate, Gate!Spec, Gate!gateVars
===============================================================================
