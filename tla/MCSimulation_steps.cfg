SPECIFICATION FairSpec
CONSTANTS
  r1 = r1
  r2 = r2
  r3 = r3
  Rank <- TwoRanks
  Adjacencies <- TwoAdjacencies
  EndTime = 5
  MaxTimeStep = 5
  InitialDt = 1
  LocalDts <- MixedSteps
  EqualDt = FALSE
  RefinePeriod = 2
  RepartitionPeriod = 4
  RefineCoarsenTime = 0
  WriteIntervalStep = 3
  WriteIntervalTime = 4
  RunRiemann = TRUE
  CheckIdempotence = FALSE
  MaxAborts = 1
INVARIANTS
  TypeOK
  OutputsAgree
  LastStepWritten
PROPERTIES
  Terminates
  CommonClock
