CONSTANTS
  MaxBars = 5
  MayStop = TRUE
  MayFail = TRUE
SPECIFICATION FairSpec
INVARIANT StreamInv
PROPERTIES HiddenBarSurfaces StopIsTold
