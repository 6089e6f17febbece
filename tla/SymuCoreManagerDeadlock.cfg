SPECIFICATION Spec
CONSTANTS
  Flow = flow
  Clients = {c1}
  FlowOps = {"ForbidLinks"}
  ClientOps = {"ComputeCost"}
  Types = {car}
  Addresses = {a1}
  m_nbMaxReaders = 2
  MaxNetwork = 2
  MaxInstant = 0
INVARIANT NoDeadlock
CHECK_DEADLOCK FALSE
