SPECIFICATION Spec
CONSTANTS
  Depth = 3
  NumRanks = 1
  Drift = 0
  Forests <- MCForests
  Problems <- MCProblems
  Solvers = {"GridAligned", "Rotated"}
  Gamma <- MCGamma
  TimeStep = 2
INVARIANTS
  TwoHalvesAtBoundary
  WallsHold
  NothingSingular
  ForcesMeet
  MeshStaysWhole
  EnergyKept
  EnergiesAddUp
  MastersMatch
\* A run ends with its stage.
CHECK_DEADLOCK FALSE
