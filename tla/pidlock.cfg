CONSTANTS
  Procs = {p1, p2, p3, p4}
  None = None
SPECIFICATION FairLockSpec
INVARIANTS SerialMutex RunnerIsNamed MutexUnlessTaken
PROPERTIES LaunchEnds
CHECK_DEADLOCK FALSE
