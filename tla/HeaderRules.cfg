SPECIFICATION RulesSpec
CONSTANTS
  Byte = 4
  Digits = 2
  MaxSize = 4
  Interval = 3
  Timespan = 8
  Late = 2
  Network = {"Mainnet", "Testnet", "Regtest"}
  Limit <- Limits
  Window = 3
  Ahead = 2
  Now = 45
  Start = 20
  Times = {22, 24, 46, 47, 48}
  Offered <- Bits
  Hash = 1
  TopHeight = 6
  MaxHeld = 6
  Threshold = 10
  CsvHeight <- CsvFrom
  LockTimes = {3, 22, 24, 46}
  Waits = {1, 2, 4}
INVARIANTS
  RulesKept
  EasyOnlyWhenLate
  PackedIsLargest
  ProofWeighs
  LocksOpenForGood
CHECK_DEADLOCK FALSE
