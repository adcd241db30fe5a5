SPECIFICATION Spec
CONSTANTS
    NumFaults = 1
    Replica = {r1, r2}
    Key = {"k"}
    MaxData = 2
    MaxReply = 1
    Client = {c1}
    NumInstances = 2
    Requests <- MCRequests
    BlockSize = 2
    Proposers = {r1, r2}
    MaxAbandoned = 1
    MaxMissed = 2
SYMMETRY Symmetry
INVARIANTS
    TypeOK
    NoneLostOrDoubled
    AppliedOnce
    AnswersAgree
    TimeoutWithinTwice
    EveryoneAnswered
CHECK_DEADLOCK FALSE
