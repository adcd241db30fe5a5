SPECIFICATION LateSpec
CONSTANTS
    NumFaults = 1
    ConstFactor = 2
    TotalTEE = 3
    FixedLeaderMode = FALSE
    FixedLeader = 0
    SGX = FALSE
    MaxViews = 4
    MaxTimeouts = 3
    MaxView = 4
    Impatient <- Anyone
INVARIANTS
    TypeOK
    NoGaps
    CertifiedParentIsExtended
    ExecutedIsCertified
    NeverStalls
PROPERTY
    ImplementsReplicatedLog
CHECK_DEADLOCK FALSE
