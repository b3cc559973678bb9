SPECIFICATION FairConnectionSpec
CONSTANTS
  Requesters = {a, b, c}
  MaxConnections = 2
  MaxTimes = 2
INVARIANT ConnectionInv
PROPERTIES FalseMeansSilence ChecksReturn
CHECK_DEADLOCK FALSE
