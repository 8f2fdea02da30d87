SPECIFICATION ClientSpec
CONSTANTS
  t1 = t1
  t2 = t2
  w1 = w1
  p1 = p1
  c1 = c1
  c2 = c2
  Tasks = {t1, t2}
  Clients = {c1}
  Calls <- SaveCalls
  Processes = {p1}
  Workers = {w1}
  Home <- MCHome
  Names = {"sync"}
  FunctionsOf <- MCFunctionsOf
  TimedNames = {}
  SkipAfter <- MCSkipAfter
  NoLimit = NoLimit
  Keys = {"k"}
  NoKey = NoKey
  NoTask = NoTask
  Deadlines = {0, 1}
  LeaseTime = 2
  MaxSaves = 2
  PurgeRequests <- MCPurgeRequests
  MaxTime = 1
  FaultsUntil = 0
PROPERTIES CopyPutsNothingBack
CHECK_DEADLOCK FALSE
