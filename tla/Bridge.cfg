SPECIFICATION BridgeSpec
CONSTANTS
    NumFaults = 1
    ConstFactor = 3
    TotalTEE = 2
    FixedLeaderMode = FALSE
    FixedLeader = 0
    LastCount = 8
    Blocks <- MCBlocks
    Accums <- MCAccums
    Proofs <- MCProofs
    Justs <- MCJusts
    Thread <- MCPeer
    Calls <- MCEveryCall
    OCalls <- MCOCalls
    LastOther = 4
INVARIANTS
    TypeOK
    NonEquivocation
    NewViewTruthful
    LockIsPrepared
    NoLeak
    StubMeetsWrapper
PROPERTIES
    NeverBack
    ImplementsChecker
CHECK_DEADLOCK FALSE
