SPECIFICATION FairSpec
CONSTANTS
  None = None
  Commands <- MCCommands
  Orientations = {north, south}
  StepsPerReport = 2
PROPERTIES OrientationIsRecent SteeringSettles ShiftSettles
CHECK_DEADLOCK FALSE
