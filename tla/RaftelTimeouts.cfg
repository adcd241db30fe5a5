SPECIFICATION LateSpec
CONSTANTS
    NumFaults = 1
    ConstFactor = 3
    TotalTEE = 3
    FixedLeaderMode = FALSE
    FixedLeader = 0
    Damysus = FALSE
    MaxViews = 2
    MaxTimeouts = 4
    MaxView = 5
    Crashes = {{0}}
INVARIANTS
    TypeOK
    Agreement
    NewViewReportsPrepared
    FinalIsExtended
    ExecutedIsFinal
    TrustedInStep
    GapsAreTimeouts
PROPERTY
    ImplementsReplicatedLog
CHECK_DEADLOCK FALSE
