SPECIFICATION SFairSpec
CONSTANTS
  Ids = {1, 2}
  Precedes <- MCPrecedes
  Handlers = {h1, h2}
  Limits = {0, 2}
  MaxRequests = 3
  MaxCrashes = 1
INVARIANTS
  STypeOK
  QueuedOnce
  AckMeansStored
  ProcessedOncePerArrival
PROPERTY
  ConsumerDrains
