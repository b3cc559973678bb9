SPECIFICATION Spec
CONSTANTS
  DayLength = 8
  OpenIsCloseLast = TRUE
  OpenFromFuture = FALSE
  OpenFromFirstDataInBar = TRUE
  Duration = 2
  HistorySize = 1
  LiveSize = 1
  MaxTime = 13
  Intervals <- TwoIntervals
INVARIANTS FeederFits IntervalsFit RaisesWhenEarly
PROPERTY HistoryKept
CHECK_DEADLOCK FALSE
