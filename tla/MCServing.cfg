CONSTANTS
  Requests = {r1, r2, r3}
  SeqIdOf <- DistinctIds
  Sizes <- AllSizes
  HostSizes <- SomeSizes
  DriverLimit = 10
  TotalPages = 6
  PageTokens = 2
  MaxBatch = 2
  r1 = r1
  r2 = r2
  r3 = r3
SPECIFICATION FairServing
INVARIANTS
  TypeOK
  PagesAccounted
  QueuesConsistent
  NextSlotMapped
  TokensDelivered
  StuckOnlyOversized
  EmptyBatchMeansDone
  DriverStopsRight
PROPERTIES
  ServiceSpec
  StepReturns
  AcceptedFinishes
