SPECIFICATION Spec
CONSTANTS
  p = p
  q = q
  Vehicles = {v1, v2}
  Points = {p, q}
  Exit = Exit
  Places <- MCPlaces
  OffLane = {p}
  Plan <- MCPlan
  MaxOrder = 3
INVARIANTS LoadsFollowLegs OrdersServed NoPlaceLost
PROPERTY ToursEnd
CHECK_DEADLOCK FALSE
