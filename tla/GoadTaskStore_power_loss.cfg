SPECIFICATION Spec
CONSTANTS
  i1 = i1
  s1 = s1
  Global = global
  MaxId = 2
  MaxTasks = 1
  Instances <- OneInstance
  Subs <- OneReader
  MaxLines = 2
  MaxBoots = 1
  SyncEvery = 2
  Outcomes <- NoFaults
  Lossy = TRUE
CHECK_DEADLOCK FALSE
INVARIANT
  LaunchedAtMostOnce
PROPERTIES
  RestartFindsEveryLog
  SurvivesPowerLoss
