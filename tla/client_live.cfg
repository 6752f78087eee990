SPECIFICATION CFairSpec
CONSTANTS
  m1 = m1
  m2 = m2
  m3 = m3
  p1 = p1
  p2 = p2
  Messages = {m1, m2, m3}
  Peers = {p1, p2}
  PeerOf <- MCPeerOf
  PrioOf <- MCPrioOf
  PeerRank <- MCPeerRank
  Stamps <- MCStamps
  MaxPerSend = 2
  MaxPerLife = 2
  TokenLimit = 1
  ClockRaces = FALSE
  MaxKills = 0
  Down = {p1}
PROPERTY EventuallySent
