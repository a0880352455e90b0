SPECIFICATION FairSpec
CONSTANTS
  Block <- MCBlock
  Genesis = "g"
  Parent <- MCParent
  Height <- MCHeight
  Work <- MCWork
  Chain <- MCChain
  None = None
  MaxHeight = 3
  Tx <- MCTx
  Coin <- MCCoin
  Inputs <- MCInputs
  Size <- MCSize
  Rate <- MCRate
  Txid <- MCTxid
  Standard <- MCTx
  Cap = 3
  RelayFloor = 0
  Increment = 1
  NoTx = NoTx
  TxOf <- MCTxOf
  Maker <- MCMaker
  Maturity = 2
  UndoWindow = 2
  MaxMoves = 2
  ShortId <- MCShortId
  Compacts <- MCCompacts
  Answers <- MCAnswers
  Deadline = 0
INVARIANTS GoneIsOwed PoolIsTrue
PROPERTIES BackOrUnfit EvictedPayLeast RebuildEnds
CHECK_DEADLOCK FALSE
