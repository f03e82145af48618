CONSTANTS
  Interval = 4
  MinBuffer = 12
  MaxRun = 2
  Opens = 2
  Close = 20
  Trigger = 22
  DayEnd = 30
SPECIFICATION Spec
INVARIANTS TickSpacing EodReached EodRetried RetriesFit ReportNeverFires

CHECK_DEADLOCK FALSE
