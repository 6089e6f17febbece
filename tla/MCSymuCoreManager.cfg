SPECIFICATION MCSpec
CONSTANTS
  Flow = flow
  Clients = {c1, c2}
  FlowOps = {"ComputePaths", "ComputeCost", "UpdateCosts", "ExcludeType", "Step"}
  ClientOps = {"ComputePaths", "ComputeCost"}
  Types = {car}
  Addresses = {a1, a2}
  m_nbMaxReaders = 2
  MaxNetwork = 2
  MaxInstant = 1
  MaxCalls = 2
  FlowCalls = 3
INVARIANTS ReadsBuiltGraph
PROPERTIES StableWhileRead EveryCallReturns
CHECK_DEADLOCK FALSE
