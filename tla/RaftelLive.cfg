SPECIFICATION FairPatientSpec
CONSTANTS
    NumFaults = 1
    ConstFactor = 3
    TotalTEE = 2
    FixedLeaderMode = FALSE
    FixedLeader = 0
    Damysus = FALSE
    MaxViews = 2
    MaxTimeouts = 6
    MaxView = 6
    Crashes = {{2, 3}, {0}, {2}, {3}}
PROPERTY
    EveryoneExecutes
CHECK_DEADLOCK FALSE
