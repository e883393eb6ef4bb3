SPECIFICATION FairSpec
CONSTANTS
  cc = cc  m1 = m1  m2 = m2  m2b = m2b  m3 = m3  m4 = m4  mp = mp  mq = mq  mr = mr  k3 = k3  k4 = k4
  owner = owner  helper = helper  paul = paul  nora = nora  scheme = scheme  r1 = r1  r2 = r2
  keyC = keyC  keyH = keyH  keyN = keyN  keyP = keyP  e1 = e1  e2 = e2  e3 = e3  amb = amb  wiki = wiki  q1 = q1  q2 = q2
  Concept = {1, 2, 3, 4, 5, 31, 34}
  MaxDepth = 2
  MaxResults = 4
  Note = {cc, m1, m2, m2b, m3, m4, mp, mq, mr, k3, k4}
  note <- MCNote
  NoNote = NoNote
  Relays <- MCRelays
  InitialNotes <- MCInitialNotes
  Keys <- MCKeys
  source <- MCSource
  Defaults = {keyC}
  NoKey = NoKey
  Query = {q1, q2}
  Refresher = Refresher
  PageSize = 3
  MaxOnDemandSources = 1
  MaxFailedSources = 1
  MaxCachedGraphs = 1
  MaxOnDemandLoads = 1
  Moving <- MCMoving
  MaxFailures = 1
  Doc = {e1, e2, e3}
  NoDoc = NoDoc
  Collections <- MCCollections
  AMB = amb
  Hanging = {wiki}
  collectionOf <- MCCollectionOf
  concepts <- MCConcepts
  AnyField = AnyField
  InitialDocs = {e1, e3}
  Filters <- MCFilters
  Changing = {e1, e2}
  MaxLimit = 1
  MaxConceptFilters = 1
INVARIANTS NothingLost PagingComplete CachesBounded ExpansionAsDocumented
CHECK_DEADLOCK FALSE
PROPERTIES ExpandedByWhatIsLoaded RequestEnds ProducerEnds DefaultsConverge
