SPECIFICATION Spec
CONSTANTS
  p1 = p1
  p2 = p2
  Processes = {p1, p2}
  VersionOf <- MCVersionOf
  Unchecked = {p2}
  Interval = 1
  StaleAfter = 2
  Ages = {0, 3}
  MaxTime = 4
  FaultsUntil = 1
  MaxUpgrades = 2
INVARIANTS TypeOK MixedOnlyUnseen BeatingIsSeen UpgradeIsWhole
CHECK_DEADLOCK FALSE
