------------------------------- MODULE FillGate -------------------------------
(***************************************************************************)
(* What the execution engine promises about every order it sends: the      *)
(* caller gets one verdict, the verdict never changes, and shares are      *)
(* booked only against shares the broker has already executed.             *)
(*                                                                         *)
(* core/trading/execution.py states the promise in its module docstring;   *)
(* FillConfirm is the mechanism and is checked, and proved, to keep it.    *)
(***************************************************************************)
EXTENDS Naturals

CONSTANTS
  Orders,  \* the order submissions of one engine
  Lot      \* shares each order asks for

VARIABLES
  filled,   \* [Orders -> 0..Lot]: shares the broker has executed
  verdict,  \* [Orders -> Verdicts]: what the caller was told
  booked    \* [Orders -> 0..Lot]: shares written to a Position or TradeRecord

gateVars == <<filled, verdict, booked>>

Verdicts == {"none", "pending", "recorded", "refused"}

Init ==
  /\ filled  = [o \in Orders |-> 0]
  /\ verdict = [o \in Orders |-> "none"]
  /\ booked  = [o \in Orders |-> 0]

\* The broker executes some more of the order, whether or not anyone watches.
Execute(o) ==
  /\ \E q \in 0..Lot : q > filled[o] /\ filled' = [filled EXCEPT ![o] = q]
  /\ UNCHANGED <<verdict, booked>>

Open(o) ==
  /\ verdict[o] = "none"
  /\ verdict' = [verdict EXCEPT ![o] = "pending"]
  /\ UNCHANGED <<filled, booked>>

\* A submission that fails outright is refused without ever being pending.
Refuse(o) ==
  /\ verdict[o] \in {"none", "pending"}
  /\ verdict' = [verdict EXCEPT ![o] = "refused"]
  /\ UNCHANGED <<filled, booked>>

Record(o) ==
  /\ verdict[o] = "pending"
  /\ \E q \in 1..filled[o] : booked' = [booked EXCEPT ![o] = q]
  /\ verdict' = [verdict EXCEPT ![o] = "recorded"]
  /\ UNCHANGED filled

Next == \E o \in Orders : Execute(o) \/ Open(o) \/ Refuse(o) \/ Record(o)

Spec == Init /\ [][Next]_gateVars
===============================================================================
