CONSTANTS
  a = a
  b = b
  c = c
  tech = tech
  NoSector = NoSector
  Symbols <- ThreeSymbols
  Sector <- ThreeSectors
  MaxOpen = 2
  LongCap = 1
  ShortCap = 2
  SectorLimit = 1
  Equities = {3}
  MinAvail = 1
  MaxSize = 2
  MaxCycles = 1
  QueriesFail = FALSE
SPECIFICATION Spec
INVARIANTS CapsHold SectorCapHolds

CHECK_DEADLOCK FALSE
