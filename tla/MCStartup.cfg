SPECIFICATION FairSpec
CONSTANTS
  v1 = v1  v2 = v2  w1 = w1  d1 = d1  d2 = d2  alice = alice  kc = kc  kd = kd
  Event = {v1, v2, w1, d1, d2}
  PubKey = {alice}
  Coord = {kc, kd}
  NoEvent = NoEvent
  NoCoord = NoCoord
  Community = {}
  Caller = {}
  signer <- MCSigner
  createdAt <- MCCreatedAt
  idRank <- MCRank
  coordOf <- MCCoordOf
  ownTags <- MCNone
  eTargets <- MCNone
  aTargets <- MCATargets
  coordAuthor <- MCCoordAuthor
  collection <- MCAmb
  Legacy = {v1, v2, d1}
  PageSize = 1
  MaxBoots = 2
  MaxFailures = 1
  MaxRequests = 1
INVARIANTS MarkerHonest MarkedMeansPurged
PROPERTIES HydrationCompletes BackfillCompletes
CHECK_DEADLOCK FALSE
