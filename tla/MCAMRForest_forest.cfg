SPECIFICATION Spec
CONSTANTS
  MinLevel = 1
  Depth = 4
  Criteria = {1, 5}
  RefineError = 1
  CoarsenError = 1
  Mass <- Masses
  InitialEnergy <- Energies
  NumRanks = 2
  Fronts <- Moving
  Quantum <- HalfALeaf
  Flows <- Siblings
  MaxPasses = 4
  MaxTransfers = 1
CHECK_DEADLOCK FALSE
INVARIANTS
  LevelsBounded
  BalancedWhenUsed
  OneLevelPerPass
  NoFlap
  GapsOfTwo
  Conserved
  RestoredByBalance
  CutFamiliesAreNew
