SPECIFICATION Spec
CONSTANTS
  Depth = 2
  NumRanks = 2
  Forests <- TwoLevels
  Drift = 1
  Fields <- Several
  MaxSteps = 5
  MaxAdapts = 3
  MaxChanges = 0
INVARIANTS
  PointsMeet
  MiddlesHold
CHECK_DEADLOCK FALSE
