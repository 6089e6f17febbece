SPECIFICATION Spec
CONSTANTS
  Buses = {b1}
  Plan <- ThreeSequences
  VertMin = 1
  Rouge = 1
  TravelTimes = {2, 6}
  LookAheads = {0, 5}
  LineEnds = {2}
INVARIANT ReturnPlanKept
CHECK_DEADLOCK FALSE
