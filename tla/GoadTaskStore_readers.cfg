SPECIFICATION Spec
CONSTANTS
  i1 = i1
  s1 = s1
  Global = global
  MaxId = 2
  MaxTasks = 1
  Instances <- NoInstances
  Subs <- OneReader
  MaxLines = 2
  MaxBoots = 1
  SyncEvery = 2
  Outcomes <- Faults
  Lossy = FALSE
CHECK_DEADLOCK FALSE
INVARIANTS
  TypeOK
  LiveReader
PROPERTY
  RestartFindsEveryLog
