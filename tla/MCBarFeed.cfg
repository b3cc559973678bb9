CONSTANTS
  Clients = {c1, c2}
  Nobody = Nobody
  MaxBars = 2
  MaxFeeds = 2
  IdleLimit = 2
SPECIFICATION FairSpec
INVARIANTS FeedInv NoLostWakeup
PROPERTY WaitersMoveOn
CHECK_DEADLOCK FALSE
