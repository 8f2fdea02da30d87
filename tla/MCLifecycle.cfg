SPECIFICATION FairSpec
CONSTANTS
  te = te
  se = se
  t1 = t1
  t2 = t2
  s1 = s1
  a1 = a1
  a2 = a2
  Engines = {te, se}
  TaskEngines = {te}
  Workers = {t1, t2}
  EngineOf <- MCEngineOf
  Watchers = {a1, a2}
  RetireAfter = 2
  MaxRuns = 2
  MaxSignals = 2
INVARIANTS TypeOK CheckedInWhileWorking DrainedMeansDrained LimitIsSeen
PROPERTY StopEndsRun
CHECK_DEADLOCK FALSE
