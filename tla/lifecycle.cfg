CONSTANTS
  MaxRankings = 3
  MaxCycles = 3
  MaxOrders = 1
SPECIFICATION FairSpec
INVARIANTS TypeOK OrdersAccounted ShutdownIsQuiet
PROPERTIES ConsumedIsRecorded ShutdownEnds CycleEndsUnlessBrokerHangs
CHECK_DEADLOCK FALSE
