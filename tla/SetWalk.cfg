SPECIFICATION FairSpec
CONSTANTS
  Block <- MCBlock
  Genesis = "g"
  Parent <- MCParent
  Height <- MCHeight
  Work <- MCWork
  Chain <- MCChain
  None = None
  MaxHeight = 4
  Coin <- MCCoin
  Made <- OnceMade
  Kept <- OnceKept
  Spends <- OnceSpends
  CoinsAt <- OnceCoinsAt
  Sound <- MCSound
  Bad = {}
  UndoWindow = 2
  FlushAbove = 3
  ChunkSize = 3
  Turns = FALSE
  MaxTroubles = 3
INVARIANTS ViewIsTheLedger UndoInWindow
PROPERTIES LedgerKept RefusalIsJust ReachesTheTip
CHECK_DEADLOCK FALSE
