CONSTANTS
  a = a
  b = b
  c = c
  tech = tech
  NoSector = NoSector
  Symbols <- OneSymbol
  Sector <- OneSector
  MaxOpen = 1
  LongCap = 1
  ShortCap = 1
  SectorLimit = 1
  Equities = {2}
  MinAvail = 1
  MaxSize = 1
  MaxCycles = 3
  QueriesFail = TRUE
SPECIFICATION Spec
PROPERTIES EodIsFinal CycleRunsOut
CHECK_DEADLOCK FALSE
