SPECIFICATION Spec
CONSTANTS
  l1 = l1
  l2 = l2
  Leaf = {l1, l2}
SYMMETRY MCSymmetry
INVARIANTS
  AcceptedIsUsable
  PredictSeesNumbers
  SolverSeesNumbers
\* An aborted job stops.
CHECK_DEADLOCK FALSE
