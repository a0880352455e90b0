SPECIFICATION LiveSpec
CONSTANTS
  b1 = b1
  b2 = b2
  b3 = b3
  Blocks = {b1, b2, b3}
  Len <- MCLen
  Cap = 5
  Batch = 2
  Compact = {b2}
  NoLocation = NoLocation
  LastSegment = 4
  MaxEnds = 2
  MaxFails = 1
INVARIANTS
  LocationsTrue
  CountAgrees
  TailFramed
PROPERTY
  AllLocated
CHECK_DEADLOCK FALSE
