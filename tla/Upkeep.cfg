SPECIFICATION Spec
CONSTANTS
  Block <- MCBlock
  Genesis = "g"
  Parent <- MCParent
  Height <- MCHeight
  Work <- MCWork
  Chain <- MCChain
  None = None
  MaxHeight = 3
  Run = {"follow", "prune", "reindex"}
  Nobody = Nobody
  Below = {1, 2}
  UndoWindow = 2
  MaxSegment = 1
  MaxMoves = 2
INVARIANTS
  PruneTidies
  ReindexFinds
PROPERTY PruneKeepsAbove
