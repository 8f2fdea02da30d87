SPECIFICATION Spec
CONSTANTS
  s1 = s1
  w1 = w1
  w2 = w2
  p1 = p1
  p2 = p2
  c1 = c1
  c2 = c2
  Schedulers = {s1}
  Processes = {p1}
  Workers = {w1, w2}
  Home <- SharedHome
  Builders = {p1}
  Distributions = {"constant"}
  IntervalsOf <- MCIntervalsOf
  Policies = {"replay"}
  ClaimIds <- MCClaimIds
  LeaseTime = 1
  Clients = {c1, c2}
  Calls <- MCCalls
  Moves = {2}
  PurgeAges = {}
  NoScheduler = NoScheduler
  AsStored = AsStored
  MaxTime = 2
  FaultsUntil = 2
  EditsUntil = 1
SYMMETRY Symmetric
INVARIANTS TypeOK EmittedWhenDue ClaimableAtDeadline NoBeatLost
PROPERTY HandMoveStands
CHECK_DEADLOCK FALSE
