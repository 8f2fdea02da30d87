SPECIFICATION FairSpec
CONSTANTS
  i1 = i1
  i2 = i2
  w1 = w1
  w2 = w2
  p1 = p1
  Items = {i1}
  Processes = {p1}
  Threads = {w1}
  Home <- MCHome
  MaxAttempts = 2
  LeaseTime = 1
  Delays = {NoDelay, 1}
  NoDelay = NoDelay
  PurgeStatuses <- MCPurgeStatuses
  MaxDepth = 1
  MaxTime = 3
  FaultsUntil = 2
  ReleasesUntil = 1
  ClaimIds <- MCClaimIds
PROPERTY ImplementsHandouts
PROPERTY EveryItemEnds
CHECK_DEADLOCK FALSE
