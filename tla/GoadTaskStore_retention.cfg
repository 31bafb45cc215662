SPECIFICATION Spec
CONSTANTS
  i1 = i1
  s1 = s1
  Global = global
  MaxId = 3
  MaxTasks = 2
  Instances <- OneInstance
  Subs <- NoReaders
  MaxLines = 2
  MaxBoots = 2
  SyncEvery = 2
  Outcomes <- NoFaults
  Lossy = FALSE
CHECK_DEADLOCK FALSE
INVARIANTS
  RowsMatchMemory
  EvictionLeavesNoLog
  RetainsNewest
  ReplayComplete
PROPERTY
  ImplementsLifecycle
