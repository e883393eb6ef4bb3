SPECIFICATION FairSpec
CONSTANTS
  v1 = v1  v2 = v2  s1 = s1  s2 = s2  alice = alice  bob = bob
  kk = kk  l1 = l1  kc = kc  cm = cm  cn = cn  p1 = p1  p2 = p2  r1 = r1  r2 = r2
  Event = {v2, s1}
  Share = {s1}
  PubKey = {alice, bob}
  Coord = {kc}
  NoEvent = NoEvent
  NoCoord = NoCoord
  Community = {cm, cn}
  signer <- MCSigner
  createdAt <- MCCreatedAt
  idRank <- MCRank
  coordOf <- MCCoordOf
  ownTags <- MCOwnTags
  eTargets <- MCNoETargets
  aTargets <- MCNoETargets
  coordAuthor <- MCCoordAuthor
  collection <- MCStructured
  refersTo <- MCRefersTo
  into <- MCInto
  kindOf <- MCKindOf
  Kind = {kk}
  List = {l1}
  NoList = NoList
  owner <- MCOwner
  Unresolved = Unresolved
  NoDefinition = NoDefinition
  Definitions <- MCDefinitions
  Joining = {bob}
  Refresher = {loop}
  loop = loop
  Caller = {p1}
  Recon = {r1}
  sweeper = sweeper
  MaxFailures = 1
  QueueSize = 1
  MaxStarts = 3
INVARIANTS OnlyVouched
PROPERTY SharedConverges
