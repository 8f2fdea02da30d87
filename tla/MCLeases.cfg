SPECIFICATION FairSpec
CONSTANTS
  c1 = c1
  c2 = c2
  c3 = c3
  a = a
  b = b
  Calls = {c1, c2, c3}
  Timed = {c1}
  Idents = {a, b}
  ClaimIds = {1, 2}
  None = None
  MaxDepth = 2
INVARIANTS TypeOK HeldHasRenewer StopHitsItsOwn OnlyLateOutlives StoppedHoldsNothing
PROPERTY HeldIsRenewed
CHECK_DEADLOCK FALSE
