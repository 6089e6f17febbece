SPECIFICATION Spec
CONSTANTS
  LastStep = 4
  DureeSimu = 4
  Periods = {1, 2, 3, 4}
  NbItMax = 2
  ExitGap = 2
  MaxVehicles = 2
  MaxRollbacks = 3
  MaxSnapshots = 2
  MaxClientRollbacks = 2
INVARIANTS FleetsMatchNetwork OneSnapshot OutputComplete
PROPERTIES ImplementsTimeline FilesOnlyGrow SimulationEnds
CHECK_DEADLOCK FALSE
