SPECIFICATION Spec
CONSTANTS
    s1 = s1
    w1 = w1
    a1 = a1
    c1 = c1
    c2 = c2
    None = None
    Sources <- OneSource
    WorkerThreads <- OneWorker
    ApiThreads <- OneApi
    Configs <- OneConfig
    Items <- FewItems
    FailureThreshold = 2
    DropPercent = 80
    MaxRuns = 3
PROPERTY FailureDisables
CHECK_DEADLOCK FALSE
