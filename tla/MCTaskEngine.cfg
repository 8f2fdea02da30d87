SPECIFICATION FairSpec
CONSTANTS
  t1 = t1
  w1 = w1
  w2 = w2
  p1 = p1
  p2 = p2
  Tasks = {t1}
  Processes = {p1, p2}
  Workers = {w1, w2}
  Home <- MCHome
  Names = {"sync", "mail"}
  FunctionsOf <- MCFunctionsOf
  TimedNames = {"sync"}
  SkipAfter <- MCSkipAfter
  NoLimit = NoLimit
  Keys = {"k"}
  NoKey = NoKey
  NoTask = NoTask
  Deadlines = {0, 1}
  LeaseTime = 1
  PurgeRequests <- MCPurgeRequests
  MaxTime = 3
  FaultsUntil = 3
INVARIANTS TypeOK AtMostOnce OutcomeFitsRuns OneTaskPerKey ClaimStandsWhileRunning
PROPERTIES EndedIsFrozen LiveClaimIsSafe ImplementsWorkOnce EveryTaskEnds
CHECK_DEADLOCK FALSE
