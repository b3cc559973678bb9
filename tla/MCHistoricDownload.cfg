SPECIFICATION DownloadSpec
CONSTANTS
  Bars <- Days
  Ends <- Twice
  First = 0
  Big = 8
  Small = 4
  Lookback = 5
  LastDay = {2, 3}
  MaxPacing = 2
  MayFail = TRUE
  Verbose = {TRUE,FALSE}
  Seconds = FALSE
  Limit = 3
  Window = 6
  Spacing = 2
  DayLength = 12
  Patience = 3
  Pause = 7
INVARIANTS PacksFit PacingKept
PROPERTY PacedDownloadEnds
CHECK_DEADLOCK FALSE
