CONSTANTS
  Connections = {c1, c2, c3}
  Names = {n1, n2}
  Unheld = Unheld
  MaxCrashes = 1
SPECIFICATION FairLockSpec
INVARIANT LockInv
PROPERTIES MutexSpec DeadHolderReleases WaitsOnlyForTurnover
CHECK_DEADLOCK FALSE
