SPECIFICATION Spec
CONSTANTS
  i1 = i1
  i2 = i2
  w1 = w1
  w2 = w2
  p1 = p1
  Items = {i1}
  Processes = {p1}
  Threads = {w1, w2}
  Home <- MCHome
  MaxAttempts = 2
  LeaseTime = 1
  Delays = {NoDelay}
  NoDelay = NoDelay
  PurgeStatuses <- MCPurgeStatuses
  MaxDepth = 1
  MaxTime = 1
  FaultsUntil = 1
  ReleasesUntil = 1
  ClaimIds <- MCClaimIds
INVARIANT ClaimStandsForTry
PROPERTIES EndedIsFrozen WritesUnderClaim
SYMMETRY Symmetric
CHECK_DEADLOCK FALSE
