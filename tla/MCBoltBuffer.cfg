SPECIFICATION BoltSpec
CONSTANTS
  v1 = v1  v2 = v2  u1 = u1  del = del  old = old  alice = alice  bob = bob
  kc = kc  kd = kd  cm = cm  cn = cn  p1 = p1  p2 = p2
  Event = {v1, v2}
  PubKey = {alice}
  Coord = {kc}
  NoEvent = NoEvent
  NoCoord = NoCoord
  Community = {}
  signer <- MCSigner
  createdAt <- MCCreatedAt
  idRank <- MCRank
  coordOf <- MCCoordOf
  ownTags <- MCNoTags
  eTargets <- MCNoETargets
  aTargets <- MCNoATargets
  coordAuthor <- MCCoordAuthor
  collection <- MCAmb
  Caller = {p1}
  BoltBufSize = 1
  BoltMaxRetries = 2
INVARIANTS BoltTypeOK OnlyRacersLost
PROPERTIES WritesInOrder CloseReturns SenderReleased
