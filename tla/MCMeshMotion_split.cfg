SPECIFICATION Spec
CONSTANTS
  Depth = 3
  NumRanks = 3
  Forests <- SixteenLeaves
  Drift = 2
  Fields <- Carried
  MaxSteps = 3
  MaxAdapts = 0
  MaxChanges = 0
INVARIANTS
  PointsMeet
CHECK_DEADLOCK FALSE
