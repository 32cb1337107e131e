SPECIFICATION Spec
CONSTANTS
  Depth = 3
  NumRanks = 3
  Forests <- SixteenLeaves
  Drift = 2
  MaxStages = 1
  MaxRemeshes = 0
INVARIANTS
  HangingForcesCancel
CHECK_DEADLOCK FALSE
