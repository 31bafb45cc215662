SPECIFICATION FairSpec
CONSTANTS
  alice = alice
  bob = bob
  p1 = p1
  MaxDeploys = 2
  Operators <- TwoOperators
  Pages <- OnePage
  MaxBoots = 1
  Discards = TRUE
  UnlinkFails = FALSE
CHECK_DEADLOCK FALSE
INVARIANTS
  TypeOK
  TakenOnce
  OwnRulesOnly
PROPERTY
  RulesReachRange
