SPECIFICATION Spec
CONSTANTS
  MinLevel = 1
  Depth = 4
  Criteria = {5}
  RefineError = 1
  CoarsenError = 1
  Mass <- Masses
  InitialEnergy <- Energies
  NumRanks = 1
  Fronts <- Moving
  Quantum <- HalfALeaf
  Flows <- Siblings
  MaxPasses = 1
  MaxTransfers = 0
CHECK_DEADLOCK FALSE
INVARIANTS
  DistanceRuns
