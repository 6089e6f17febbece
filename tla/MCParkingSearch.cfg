SPECIFICATION Spec
CONSTANTS
  Vehicles = 2
  Links <- MCLinks
  Near = {"a", "c"}
  Exits = {"in"}
  Capacity <- MCCapacity
  Park = "park"
  Access = {"b"}
  Leaving = {"c"}
  Approach = {"a"}
  StockMax = 1
  Path <- MCPath
  Gate = "in"
  MaxCrossed = 3
  ReroutingPeriod = 2
  WideningDelay = 1
  UpdateGoalPeriod = 2
  MaxSearch = 1
  MaxGoal = 1
  MaxWaiting = 1
INVARIANTS FlagsMatchTrip
PROPERTIES  FullOnlyPastCheck OnePlacePerExit SearchEnds
