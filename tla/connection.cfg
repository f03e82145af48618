CONSTANTS
  o1 = o1
  o2 = o2
  o3 = o3
  o4 = o4
  Ops <- FourOps
  MaxCommits = 2
SPECIFICATION Spec
SYMMETRY Symmetry
INVARIANTS OkIsDurable FailedWriteLeavesNothing OnlyFailuresHoldTransactions
CHECK_DEADLOCK FALSE
