SPECIFICATION Spec
CONSTANTS
  MaxStops = 1
  Signals = FALSE
INVARIANT
  StoppedCommandEnds
