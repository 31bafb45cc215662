SPECIFICATION FairSpec
CONSTANTS
  MaxStops = 2
  Signals = TRUE
INVARIANTS
  TypeOK
  CleanupIsLive
  InterruptedNotCompleted
  FailureNotCompleted
  CompletedRanToEnd
PROPERTIES
  TaskEnds
