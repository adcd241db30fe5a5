SPECIFICATION PromptSpec
CONSTANTS
    NumFaults = 1
    ConstFactor = 3
    TotalTEE = 0
    FixedLeaderMode = FALSE
    FixedLeader = 0
    MaxViews = 5
    MaxTimeouts = 5
    MaxView = 5
    Crashed = {3}
INVARIANTS
    TypeOK
    Agreement
    LockedIsExtended
    TrustedInStep
    NeverStalls
PROPERTY
    ImplementsReplicatedLog
CHECK_DEADLOCK FALSE
