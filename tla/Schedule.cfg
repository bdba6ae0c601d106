SPECIFICATION Spec
CONSTANTS
    s1 = s1
    dispatch = dispatch
    t1 = t1
    t2 = t2
    Refresh = refresh
    None = None
    Sources <- OneSource
    OtherJobs <- OneOther
    Interval <- EveryMinute
    MaxJitter = 5
    Period <- Periods
    Grace = 0
    Pool <- TwoThreads
    MayRestart = TRUE
INVARIANTS
    TypeOK
    InstancesAccounted
    OneInstance
PROPERTIES
    CrawlSpacing
