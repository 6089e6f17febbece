CONSTANTS
  E1 = E1
  E2 = E2
  J = J
  J1 = J1
  J2 = J2
  X = X
  Nodes <- ChainNodes
  Links = {1, 2, 3, 4}
  MicroLinks = {}
  Up <- ChainUp
  Down <- ChainDown
  Routes <- ChainRoutes
  TravelTime <- One
  Wave <- Waves
  Storage <- Storages
  Headway = 2
  ExitHeadway = 5
  TimeStep = 2
  Duration = 120
  LastCreation = 4
  Demands <- ChainDemands
SPECIFICATION Spec
INVARIANTS OnePlace EventHasArrival NoNodeForgotten HeadwayKept StorageKept
PROPERTY NetworkEmpties
CHECK_DEADLOCK FALSE
