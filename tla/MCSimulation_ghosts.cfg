SPECIFICATION Spec
CONSTANTS
  r1 = r1
  r2 = r2
  r3 = r3
  Rank <- ThreeRanks
  Adjacencies <- ThreeAdjacencies
  EndTime = 4
  MaxTimeStep = 4
  InitialDt = 1
  LocalDts <- ShortSteps
  EqualDt = TRUE
  RefinePeriod = 3
  RepartitionPeriod = 4
  RefineCoarsenTime = 0
  WriteIntervalStep = 3
  WriteIntervalTime = 2
  RunRiemann = TRUE
  CheckIdempotence = TRUE
  MaxAborts = 0
INVARIANTS
  SessionUsable
  StageReadsFresh
  StaleByOneAccept
  MessagesMatch
  ChannelsBounded
  PublishedStampsAgree
  OldStampsRejected
