SPECIFICATION FreshSpec
CONSTANTS
  x1 = x1  x2 = x2  y1 = y1  y2 = y2  alice = alice  bob = bob
  kx = kx  ky = ky  p1 = p1  p2 = p2
  Event = {y1, y2}
  PubKey = {alice, bob}
  Coord = {ky}
  NoEvent = NoEvent
  NoCoord = NoCoord
  Community = {}
  signer <- MCSigner
  createdAt <- MCCreatedAt
  idRank <- MCRank
  coordOf <- MCCoordOf
  ownTags <- MCNone
  eTargets <- MCNone
  aTargets <- MCNone
  coordAuthor <- MCCoordAuthor
  collection <- MCCollection
  Caller = {p1}
  BatchSize = 2
  Failing = FALSE
  QueueSize = 1
  MaxStarts = 2
  MaxRuns = 1
INVARIANT NoSkew
CHECK_DEADLOCK FALSE
