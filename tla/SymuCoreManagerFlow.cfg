SPECIFICATION Spec
CONSTANTS
  Flow = flow
  Clients = {}
  FlowOps = {"ComputePaths", "ComputeCost", "UpdateCosts", "ForbidLinks", "ExcludeType", "Step"}
  ClientOps = {}
  Types = {car, bus}
  Addresses = {a1, a2, a3}
  m_nbMaxReaders = 1
  MaxNetwork = 2
  MaxInstant = 2
INVARIANTS CostsDateFromAssignment FreshGraph
CHECK_DEADLOCK FALSE
