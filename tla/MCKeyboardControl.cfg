SPECIFICATION Spec
CONSTANTS
  None = None
  FlagTimeout = 1
  MaxAge = 4
  MaxThrottle = 2
  MaxBrake = 2
  MaxSteering = 1
  MaxGear = 2
  SaveWaypoints = TRUE
  KeySets <- MCKeySets
  ReceivedFlags <- MCFlags
  SteeringBound = 2
  MaxFixes = 2
  MaxWaypoints = 2
INVARIANTS StaleFlagReleases OneLateKey WaypointsInOrder
CHECK_DEADLOCK FALSE
