SPECIFICATION FairSpec
CONSTANTS
    s1 = s1
    w1 = w1
    a1 = a1
    c1 = c1
    c2 = c2
    None = None
    Sources <- OneSource
    WorkerThreads <- OneWorker
    ApiThreads <- OneApi
    Configs <- OneConfig
    Items <- OneItem
    FailureThreshold = 1
    DropPercent = 80
    MaxRuns = 2
INVARIANTS
    TypeOK
    ExclusiveCrawl
    RowOwnership
PROPERTIES
    OnlyAdminActivates
    LockReturned
    RunsEnd
CHECK_DEADLOCK FALSE
