SPECIFICATION MCSpec
CONSTANTS
  Requests = {1, 2}
  GTC = GTC
  Groups <- MixedGroups
  OrderSize = 1
  Percent = 100
  MaxTime = 5
INVARIANTS TraderInv FiledIsTrue TraderKeepsContract
PROPERTY ClosedIsFiled
