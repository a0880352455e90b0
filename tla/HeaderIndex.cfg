SPECIFICATION Spec
CONSTANTS
  Block <- MixedBlock
  Genesis = "g"
  Parent <- MixedParent
  Height <- MixedHeight
  Work <- MixedWork
  Chain <- MixedChain
  None = "none"
  MaxHeight = 3
  Bad <- BadB1
  MaxCrashes = 1
INVARIANTS IndexFollowsTip MostWorkFollowed NoGap
PROPERTIES WorkGivenUpOnlyToAMark
