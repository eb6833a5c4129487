SPECIFICATION FairDaySpec
CONSTANTS
  None = None
  TargetLaps = 1
  MinCrossingInterval = 3
  MaxTime = 16
  ParamValues <- AllParamValues
  InitialParam = "red"
  SimRestarts = FALSE
  TrackLength = 12
  Speeds <- Moving
  Tolerance = 2
  MaxCommands = 2
PROPERTIES OneCrossingPerVisit NoVisitMissed NoLapUnderBlack RaceIsFinished
CHECK_DEADLOCK FALSE
