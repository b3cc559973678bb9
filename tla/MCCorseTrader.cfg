SPECIFICATION FairSpec
CONSTANTS
  MaxOrders = 2
  MaxNights = 1
  Gap = TRUE
INVARIANTS CorseInv StoppedIsFlat
PROPERTY FillIsNoticed
CHECK_DEADLOCK FALSE
