SPECIFICATION FairSpec
CONSTANTS
  Fetches = {f1, f2}
  MaxChanges = 2
  Groups = {{"prefetch"}, {"admin", "vms"}}
INVARIANTS TypeOK FlagHasFetch OneRevalidation RefreshIsFresh
PROPERTY Converges
