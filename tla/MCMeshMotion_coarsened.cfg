SPECIFICATION Spec
CONSTANTS
  Depth = 2
  NumRanks = 1
  Forests <- TwoBelow
  Drift = 0
  Fields <- Moving
  MaxSteps = 5
  MaxAdapts = 1
  MaxChanges = 1
INVARIANTS
  MiddlesHold
CHECK_DEADLOCK FALSE
