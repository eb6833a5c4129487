SPECIFICATION FairSpec
CONSTANTS
  None = None
  Position <- Track
  Point <- Track
  Distance <- TrackDistance
  SearchRadius = 5
  CsvFiles <- AllFiles
PROPERTIES LocalPathReaches EmptyOnlyWhenShort PathFollowsCar
CHECK_DEADLOCK FALSE
