SPECIFICATION FairSpec
CONSTANTS
  s1 = s1
  w1 = w1
  w2 = w2
  p1 = p1
  p2 = p2
  c1 = c1
  c2 = c2
  Schedulers = {s1}
  Processes = {p1, p2}
  Workers = {w1, w2}
  Home <- MCHome
  Builders = {p1}
  Distributions = {"constant", "varying"}
  IntervalsOf <- MCIntervalsOf
  Policies = {"skip", "once", "replay"}
  ClaimIds <- MCClaimIds
  LeaseTime = 1
  Clients = {c1}
  Calls <- CreateCalls
  Moves = {2}
  PurgeAges = {0}
  NoScheduler = NoScheduler
  AsStored = AsStored
  MaxTime = 3
  FaultsUntil = 2
  EditsUntil = 1
PROPERTIES NoBacklog DeadlineMovesOn
CHECK_DEADLOCK FALSE
