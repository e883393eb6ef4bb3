SPECIFICATION TSSpec
CONSTANTS
  v1 = v1  v2 = v2  u1 = u1  del = del  old = old  alice = alice  bob = bob
  kc = kc  kd = kd  cm = cm  cn = cn  p1 = p1  p2 = p2
  Event = {v1, v2}
  PubKey = {alice}
  Coord = {kc}
  NoEvent = NoEvent
  NoCoord = NoCoord
  Community = {}
  signer <- MCSigner
  createdAt <- MCCreatedAt
  idRank <- MCRank
  coordOf <- MCCoordOf
  ownTags <- MCNoTags
  eTargets <- MCNoETargets
  aTargets <- MCNoATargets
  coordAuthor <- MCCoordAuthor
  collection <- MCAmb
  Caller = {p1}
  TSBufSize = 1
  TSBatchSize = 2
INVARIANTS TSTypeOK PendingExact PatchNotClobbered
PROPERTIES WritesInOrderPerDocument BatchFlushed TSCloseReturns
