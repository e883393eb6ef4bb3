SPECIFICATION Spec
CONSTANTS
  x1 = x1  x2 = x2  y1 = y1  y2 = y2  alice = alice  bob = bob
  kx = kx  ky = ky  p1 = p1  p2 = p2
  Event = {x1, x2, y1, y2}
  PubKey = {alice, bob}
  Coord = {kx, ky}
  NoEvent = NoEvent
  NoCoord = NoCoord
  Community = {}
  signer <- MCSigner
  createdAt <- MCCreatedAt
  idRank <- MCRank
  coordOf <- MCCoordOf
  ownTags <- MCNone
  eTargets <- MCNone
  aTargets <- MCNone
  coordAuthor <- MCCoordAuthor
  collection <- MCCollection
  Caller = {p1}
  BatchSize = 1
  Failing = TRUE
  QueueSize = 1
  MaxStarts = 1
  MaxRuns = 1
INVARIANTS RebuiltRight
PROPERTY GCSparesStored
CHECK_DEADLOCK FALSE
