CONSTANTS
  p1 = p1
  p2 = p2
  None = None
  Positions <- TwoPositions
  Symbol <- MCSymbol
  Slot <- MCSlot
  MaxExits = 2
  DbFails = TRUE
  RowsAge = TRUE
SPECIFICATION Spec
INVARIANTS OneTradePerPosition MarkedMeansStored RowGoneMeansTraded StartupCatchesUp
PROPERTY KeepsLedger
