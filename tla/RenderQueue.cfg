SPECIFICATION Spec
CONSTANTS
    Jobs = {j1, j2, j3}
    Processes = {p1, p2}
    p1 = p1
    p2 = p2
    Caller <- MCCaller
    Worker = worker
    Concurrency = 1
    QueueLimit = 1
    MaxConnections = 2
    MaxCrashes = 1
INVARIANTS
    TypeOK
    AnsweredAsRecorded
    NoSlotLost
PROPERTY
    EveryJobEnds
CHECK_DEADLOCK FALSE
