CONSTANTS
  p1 = p1
  p2 = p2
  p3 = p3
  Launches <- ThreeLaunches
  Entries = {1, 2, 3}
  Short = {1}
  MaxEntries = 1
SPECIFICATION Spec
SYMMETRY Symmetry
INVARIANTS ProcessedIsExtracted StateReadable
PROPERTY StateGrows
CHECK_DEADLOCK FALSE
