SPECIFICATION DroprSpec
CONSTANTS
  Messages = {m1, m2}
  Peers = {p1}
  PeerOf <- MCPeerOf
  PrioOf <- MCPrioOf
  PeerRank <- MCPeerRank
  Stamps <- MCStamps
  MaxPerSend = 1
  MaxPerLife = 2
  TokenLimit = 1
  ClockRaces = FALSE
  MaxKills = 1
  Down = {}
  Handlers = {h1, h2}
  Limits = {0}
  MaxRequests = 2
  MaxCrashes = 0
SYMMETRY HandlerSymmetry
INVARIANTS
  SentMeansStored
  DuplicatesNeedAbandonment
PROPERTY
  KeepsPromise
