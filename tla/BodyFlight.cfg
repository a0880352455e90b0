SPECIFICATION FetchFairSpec
CONSTANTS
  Heights <- MCHeights
  Never <- MCNever
  Peer = {p, q, r}
  PerPeer = 2
  Stall = 2
  None = None
INVARIANTS
  EachHeightOnce
  LandedIsWhole
PROPERTIES
  FlightEnds
CHECK_DEADLOCK FALSE
