SPECIFICATION PromptSpec
CONSTANTS
    NumFaults = 1
    ConstFactor = 2
    TotalTEE = 3
    FixedLeaderMode = FALSE
    FixedLeader = 0
    SGX = FALSE
    MaxViews = 7
    MaxTimeouts = 3
    MaxView = 5
    Impatient <- ForkTimers
INVARIANT SameLog
CHECK_DEADLOCK FALSE
