SPECIFICATION Spec
CONSTANTS
  None = None
  TargetLaps = 2
  MinCrossingInterval = 2
  MaxTime = 8
  ParamValues <- MCParamValues
  InitialParam = "yellow"
  SimRestarts = FALSE
CHECK_DEADLOCK FALSE
PROPERTY InterruptSavesLaps
