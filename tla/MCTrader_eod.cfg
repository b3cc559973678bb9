SPECIFICATION TSpec
CONSTANTS
  Requests = {1}
  GTC = GTC
  Groups <- EodGroups
  OrderSize = 1
  Percent = 100
  MaxTime = 4
INVARIANTS NoErroneousRequest
