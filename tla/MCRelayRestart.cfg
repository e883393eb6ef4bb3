SPECIFICATION Spec
CONSTANTS
  v1 = v1  v2 = v2  u1 = u1  del = del  old = old  alice = alice  bob = bob
  kc = kc  kd = kd  cm = cm  cn = cn  p1 = p1  p2 = p2
  Event = {v1, u1}
  PubKey = {alice, bob}
  Coord = {kc, kd}
  NoEvent = NoEvent
  NoCoord = NoCoord
  Community = {}
  signer <- MCSigner
  createdAt <- MCCreatedAt
  idRank <- MCRank
  coordOf <- MCCoordOf
  ownTags <- MCNoTags
  eTargets <- MCETargets
  aTargets <- MCATargets
  coordAuthor <- MCCoordAuthor
  collection <- MCMixed
  Caller = {p1, p2}
  BoltBufSize = 1
  BoltMaxRetries = 1
  TSBufSize = 1
  TSBatchSize = 2
  MaxStarts = 2
  MaxRestarts = 1
SYMMETRY AnyCaller
INVARIANTS BoltSealed IndexSealed
CHECK_DEADLOCK FALSE
