SPECIFICATION Spec
CONSTANTS
  None = None
  TargetLaps = 1
  MinCrossingInterval = 2
  MaxTime = 4
  ParamValues <- MCParamValues
  InitialParam = "yellow"
  SimRestarts = TRUE
INVARIANTS TypeOK LapLog CrossingsSpaced EndIsLastCrossing RaisesOnlyWithoutStart
PROPERTIES CompletedLapsSaved ImplementsLog
CHECK_DEADLOCK FALSE
