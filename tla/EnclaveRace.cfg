SPECIFICATION BridgeSpec
CONSTANTS
    NumFaults = 1
    ConstFactor = 3
    TotalTEE = 2
    FixedLeaderMode = FALSE
    FixedLeader = 0
    LastCount = 5
    Blocks <- MCBlocks
    Accums <- MCAccums
    Proofs <- MCProofs
    Justs <- MCJusts
    Thread <- MCPeerAndClient
    Calls <- MCStartCalls
    OCalls <- MCOCalls
    LastOther = 0
INVARIANT
    NonEquivocation
CHECK_DEADLOCK FALSE
