SPECIFICATION Spec
CONSTANTS
  Block <- MCBlock
  Genesis = "g"
  Parent <- MCParent
  Height <- MCHeight
  Work <- MCWork
  Chain <- MCChain
  None = None
  MaxHeight = 4
  Coin <- MCCoin
  Made <- OnceMade
  Kept <- OnceKept
  Spends <- OnceSpends
  CoinsAt <- OnceCoinsAt
  Sound <- MCSound
  Bad = {}
  UndoWindow = 2
  FlushAbove = 3
  ChunkSize = 3
  Turns = TRUE
  MaxTroubles = 2
PROPERTIES LedgerKept
CHECK_DEADLOCK FALSE
