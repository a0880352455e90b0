SPECIFICATION FairSpec
CONSTANTS
    MaxKeys = 2
    Candidate = {x}
    Caller = {c}
    InboundCap = 1
    TargetPeers = 2
    SparedLimit = 1
    ServedCap = 2
    PerTurn = 1
    ByteLimit = 3
    Watermark = 2
    BlockSize <- Blocks
    MaxDeaf = 1
INVARIANTS OneOutcome
PROPERTIES ServingFits GreetingEnds EveryoneServed
CHECK_DEADLOCK FALSE
