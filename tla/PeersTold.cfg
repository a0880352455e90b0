SPECIFICATION Spec
CONSTANTS
    MaxKeys = 3
    Candidate = {x}
    Caller = {c}
    InboundCap = 1
    TargetPeers = 2
    SparedLimit = 1
    ServedCap = 2
    PerTurn = 1
    ByteLimit = 3
    Watermark = 2
    BlockSize <- Blocks
    MaxDeaf = 1
INVARIANTS OneFaultOnePeer
CHECK_DEADLOCK FALSE
