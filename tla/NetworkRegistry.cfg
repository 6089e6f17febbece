SPECIFICATION Spec
CONSTANTS
  Loaders = {l1, l2}
  PathCallers = {p1, p2}
  DefaultOwners = {l1}
  FrontEnds = {"launcher", "parallel"}
  MaxInstances = 3
INVARIANTS TypeOK NoUseAfterFree NoLeak IdsExclusive
PROPERTY DeletionEnds
CHECK_DEADLOCK FALSE
