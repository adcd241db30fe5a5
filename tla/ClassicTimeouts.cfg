SPECIFICATION PromptSpec
CONSTANTS
    NumFaults = 1
    ConstFactor = 3
    TotalTEE = 3
    FixedLeaderMode = TRUE
    FixedLeader = 3
    Damysus = FALSE
    MaxViews = 3
    MaxTimeouts = 5
    MaxView = 5
    Crashes = {{0}}
INVARIANTS
    FinalIsExtended
    LockNeverBlocks
    SafetyInvariant
CHECK_DEADLOCK FALSE
