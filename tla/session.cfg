CONSTANTS
  a = a
  b = b
  c = c
  tech = tech
  NoSector = NoSector
  Symbols <- TwoSymbols
  Sector <- TwoSectors
  MaxOpen = 2
  LongCap = 1
  ShortCap = 1
  SectorLimit = 2
  Equities = {1, 3}
  MinAvail = 1
  MaxSize = 2
  MaxCycles = 2
  QueriesFail = FALSE
SPECIFICATION Spec
INVARIANTS DriftIsUnrecorded NoReentryInCycle NoEntryBehindWorkingOrder
PROPERTIES ExposureGrowsWithinEquity
CHECK_DEADLOCK FALSE
