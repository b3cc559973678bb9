CONSTANTS
  MaxOrders = 4
  MaxChanges = 1
  MaxTimeouts = 1
SPECIFICATION FairSpec
INVARIANTS OrdersInv BracketIsWhole ViewIsTrue
PROPERTY FillIsSeen
CHECK_DEADLOCK FALSE
