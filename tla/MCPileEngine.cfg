SPECIFICATION Spec
CONSTANTS
  i1 = i1
  i2 = i2
  w1 = w1
  w2 = w2
  p1 = p1
  Items = {i1, i2}
  Processes = {p1}
  Threads = {w1}
  Home <- MCHome
  MaxAttempts = 1
  LeaseTime = 1
  Delays = {NoDelay}
  NoDelay = NoDelay
  PurgeStatuses <- MCPurgeStatuses
  MaxDepth = 2
  MaxTime = 1
  FaultsUntil = 0
  ReleasesUntil = 1
  ClaimIds <- MCClaimIds
INVARIANT TypeOK
PROPERTY BlockSettlesItem
SYMMETRY Symmetric
CHECK_DEADLOCK FALSE
