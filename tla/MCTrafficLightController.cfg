SPECIFICATION Spec
CONSTANTS
  Buses = {b1, b2}
  Plan <- ThreeSequences
  VertMin = 1
  Rouge = 1
  TravelTimes = {2, 6}
  LookAheads = {0, 5}
  LineEnds = {2}
INVARIANTS BusesServed 
PROPERTIES ReturnsInPhase PriorityGivenBack
