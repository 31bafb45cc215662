SPECIFICATION FairSpec
CONSTANTS
  Users <- TwoUsers
  Host <- TheHost
  Root <- TheRoot
  Others <- HostAndRoot
  Ranges <- TwoRanges
  MaxDeploys = 2
  UserOf <- AnnThenBob
  RangeOf <- OneEach
  Wizards <- First
  MaxWs = 1
  MaxBoots = 1
CHECK_DEADLOCK FALSE
INVARIANTS
  TypeOK
  ThirdPartyUntouched
  OwnNeverPassedOver
  RowHasFile
PROPERTIES
  ImplementsOwnership
  LinkageEnds
