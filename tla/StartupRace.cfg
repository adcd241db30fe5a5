SPECIFICATION FairLateSpec
CONSTANTS
    NumFaults = 1
    ConstFactor = 3
    TotalTEE = 2
    FixedLeaderMode = TRUE
    FixedLeader = 0
    Damysus = FALSE
    MaxViews = 1
    MaxTimeouts = 0
    MaxView = 3
    Crashes = {{}}
PROPERTY
    EveryoneExecutes
CHECK_DEADLOCK FALSE
