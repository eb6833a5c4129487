SPECIFICATION Spec
CONSTANTS
  None = None
  Position <- Track
  Point <- Track
  Distance <- TrackDistance
  SearchRadius = 5
  CsvFiles <- GoodFiles
INVARIANT PlannerSurvivesLap
CHECK_DEADLOCK FALSE
