SPECIFICATION FairSpec
CONSTANTS
  p = p  k = k  a1 = a1  a2 = a2
  PubKey = {p}
  Ref = {k}
  Handler = {a1, a2}
  Loop = Loop
  NoRef = NoRef
  StaticAdmin = {}
  Requests <- MCRequests
  Databases <- MCDatabases
  MaxCalls = 2
  MaxChanges = 1
  MaxFailures = 1
  MaxRestarts = 2
INVARIANTS AllowedIsVouched
PROPERTY AllowlistConverges
