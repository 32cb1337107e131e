SPECIFICATION Spec
CONSTANTS
  Depth = 2
  NumRanks = 3
  Forests <- TwoLevels
  Drift = 3
  MaxStages = 2
  MaxRemeshes = 1
INVARIANTS
  HangingEdgesFit
  EdgesCovered
  SharedCornersAgree
  OneSumPerHangingPoint
  HangingForcesCancel
  ConstrainedWhereHanging
CHECK_DEADLOCK FALSE
