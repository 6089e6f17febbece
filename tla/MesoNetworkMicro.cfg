CONSTANTS
  E1 = E1
  E2 = E2
  J = J
  J1 = J1
  J2 = J2
  X = X
  Nodes <- MergeNodes
  Links = {1, 2, 3}
  MicroLinks = {3}
  Up <- MergeUp
  Down <- MergeDown
  Routes <- MergeRoutes
  TravelTime <- One
  Wave <- Three
  Storage <- Two
  Headway = 2
  ExitHeadway = 5
  TimeStep = 2
  Duration = 60
  LastCreation = 4
  Demands <- MergeDemands
SPECIFICATION Spec
INVARIANT NoNodeForgotten
CHECK_DEADLOCK FALSE
