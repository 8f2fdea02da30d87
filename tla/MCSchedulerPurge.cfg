SPECIFICATION Spec
CONSTANTS
  s1 = s1
  w1 = w1
  w2 = w2
  p1 = p1
  p2 = p2
  c1 = c1
  c2 = c2
  Schedulers = {s1}
  Processes = {p1, p2}
  Workers = {w1, w2}
  Home <- MCHome
  Builders = {p1, p2}
  Distributions = {"constant"}
  IntervalsOf <- MCIntervalsOf
  Policies = {"once"}
  ClaimIds <- MCClaimIds
  LeaseTime = 1
  Clients = {c1}
  Calls <- CreateCalls
  Moves = {}
  PurgeAges = {1}
  NoScheduler = NoScheduler
  AsStored = AsStored
  MaxTime = 3
  FaultsUntil = 3
  EditsUntil = 1
INVARIANT BeatOnce
CHECK_DEADLOCK FALSE
