SPECIFICATION FairSpec
CONSTANTS
  MaxStops = 0
  Signals = FALSE
PROPERTY
  EveryTaskEnds
