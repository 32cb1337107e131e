SPECIFICATION Spec
CONSTANTS
  MinLevel = 1
  Depth = 3
  Criteria = {1}
  RefineError = 1
  CoarsenError = 1
  Mass <- Masses
  InitialEnergy <- Energies
  NumRanks = 1
  Fronts <- Crossing
  Quantum <- HalfALeaf
  Flows <- Siblings
  MaxPasses = 5
  MaxTransfers = 1
INVARIANT EnergiesAgreeGlobally
