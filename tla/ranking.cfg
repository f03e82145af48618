CONSTANTS
  Universe = 2
  RefreshEvery = 2
  LongThreshold = 60
  ShortThreshold = 40
  MaxCandidates = 1
  Scores = {0, 3, 5}
  MaxCycles = 4
  MaxDays = 1
  MaxCrashes = 1
SPECIFICATION Spec
INVARIANTS BarsWithinRefresh BarsOfTheirDay RankingIsBalanced
CHECK_DEADLOCK FALSE
