SPECIFICATION Spec
CONSTANTS
  Requests = {1, 2}
  GTC = GTC
  Groups <- MixedGroups
  OrderSize = 2
  Percent = 100
  MaxTime = 3
INVARIANTS MarketInv GroupNeverReversed NothingLeftAfterExit
PROPERTIES SyncReturns ImplementsGroupLife
