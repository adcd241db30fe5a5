SPECIFICATION BlameSpec
CONSTANTS
    NumFaults = 1
    ConstFactor = 3
    TotalTEE = 3
    FixedLeaderMode = FALSE
    FixedLeader = 0
    Damysus = FALSE
    MaxViews = 6
    MaxTimeouts = 2
    MaxView = 3
    Crashes = {{}}
    FreeFrom = 6
INVARIANTS
    OneProposalPerView
    Agreement
CHECK_DEADLOCK FALSE
