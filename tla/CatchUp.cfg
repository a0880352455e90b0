SPECIFICATION FairSpec
CONSTANTS
  MaxKey = 2
  Steady = {2}
  MaxHeight = 1
  Cool = 1
  Long = 2
  Deadline = 2
  None = None
INVARIANTS
  LieCostsOnce
PROPERTIES
  RateCapped
  CatchUpEnds
  ClaimLetGo
  FollowsUnless
CHECK_DEADLOCK FALSE
