SPECIFICATION PromptSpec
CONSTANTS
    NumFaults = 1
    ConstFactor = 2
    TotalTEE = 3
    FixedLeaderMode = FALSE
    FixedLeader = 0
    Damysus = TRUE
    MaxViews = 2
    MaxTimeouts = 0
    MaxView = 0
    Crashes = {{}}
INVARIANT
    Agreement
CHECK_DEADLOCK FALSE
