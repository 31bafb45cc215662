SPECIFICATION FairSpec
CONSTANTS
  MaxOps = 1
  MaxServed = 2
  MaxBoots = 1
  Unclean = TRUE
INVARIANT
  SuccessIsReal
PROPERTY
  TimedOutSettles
