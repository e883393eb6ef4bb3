SPECIFICATION ServeSpec
CONSTANTS
  v1 = v1  v2 = v2  u1 = u1  del = del  old = old  alice = alice  bob = bob
  kc = kc  kd = kd  cm = cm  cn = cn  p1 = p1  p2 = p2
  Event = {v1, v2, del, old}
  PubKey = {alice}
  Coord = {kc}
  NoEvent = NoEvent
  NoCoord = NoCoord
  Community = {}
  signer <- MCSigner
  createdAt <- MCCreatedAt
  idRank <- MCRank
  coordOf <- MCCoordOf
  ownTags <- MCNoTags
  eTargets <- MCETargets
  aTargets <- MCATargets
  coordAuthor <- MCCoordAuthor
  collection <- MCAmb
  Caller = {p1, p2}
  BoltBufSize = 1
  BoltMaxRetries = 1
  TSBufSize = 1
  TSBatchSize = 2
  MaxStarts = 2
  MaxRestarts = 0
SYMMETRY AnyCaller
INVARIANTS TypeOK BoltSealed
PROPERTY DeletionIsFinal
CHECK_DEADLOCK FALSE
