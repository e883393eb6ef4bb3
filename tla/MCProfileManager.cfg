SPECIFICATION Spec
CONSTANTS
  a1 = a1  a2 = a2  h1 = h1  u1 = u1  u2 = u2
  Author = {a1, a2}
  keyRank <- MCKeyRank
  Handler = {h1}
  seeder = seeder
  poller = poller
  Urls <- MCUrls
  Answers <- MCAnswers
  MaxDirectoryChanges = 2
  Known = {a1}
  BatchSize = 1
  HasFallback = TRUE
  MaxEnqueues = 2
  Apart = TRUE
  MaxRestarts = 1
INVARIANTS NoLostWakeup MembersHandedOn
PROPERTIES PollLoopEnds AuthorAskedFor
