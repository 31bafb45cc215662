SPECIFICATION Spec
CONSTANTS
  Fetches = {f1, f2}
  MaxChanges = 2
  Groups = {{"prefetch"}, {"admin", "vms"}}
INVARIANT FreshAfterMutation
