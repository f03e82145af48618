CONSTANTS
  Orders = {o1, o2}
  Lot = 3
  Workers = 1
  MaxPolls = 3
SPECIFICATION Spec
INVARIANTS RecordIsBrokerBacked PartialOnlyAtTheEnd
PROPERTIES KeepsGate
CHECK_DEADLOCK FALSE
