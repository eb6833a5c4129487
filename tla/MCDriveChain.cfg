SPECIFICATION FairChainSpec
CONSTANTS
  None = None
  Plugins <- MCPlugins
  Exported <- MCExported
  FlagTimeout = 1
  MaxAge = 3
  BrakeAcceleration <- MinusTwo
  MaxAccel = 1
  MaxDecel <- MinusOne
  AccelStep = 1
  DecelStep = 1
  MaxSteering = 1
  DesiredAccel <- MCDesiredAccel
  DesiredSteering <- MCDesiredSteering
  PathKinds <- MCPathKinds
  ShownFlags <- MCShownFlags
  MaxDelay = 0
  MaxShows = 1
  NoControl = NoControl
  max_accel = 1
  max_decel <- MinusTwo
  HighestGear = 2
  QueueDepth = 2
  EngineSpeeds <- MCEngineSpeeds
INVARIANTS TypeOK StaleFlagBrakes CommandLimits FlagIsObeyed BrakeReachesSimulator
PROPERTIES AccelGradual GreenDrives StopReachesSimulator
CHECK_DEADLOCK FALSE
