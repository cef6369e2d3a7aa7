SPECIFICATION FairSpec
CONSTANTS
  N = 2
  LANES = 2
  RING = 1
  RRMOD = 3
  MaxJobs = 3
  MaxInits = 1
INVARIANTS NeverTwice NothingLost DrainedAtShutdown
PROPERTIES OnlyNewcomersFault RingsChangeUnderLock UrgentFirst ImplementsExecutor EveryJobRuns ShutdownReturns
CHECK_DEADLOCK FALSE
