SPECIFICATION Spec
CONSTANTS
  MaxOps = 2
  MaxServed = 2
  MaxBoots = 0
  Unclean = FALSE
INVARIANTS
  TypeOK
  OneInProgress
  OneAutomaticStop
PROPERTY
  ImplementsRangeOps
