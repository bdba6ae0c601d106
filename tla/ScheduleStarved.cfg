SPECIFICATION FairSpec
CONSTANTS
    s1 = s1
    dispatch = dispatch
    t1 = t1
    t2 = t2
    Refresh = refresh
    None = None
    Sources <- OneSource
    OtherJobs <- OneOther
    Interval <- EveryTwoMinutes
    MaxJitter = 5
    Period <- Periods
    Grace = 0
    Pool <- TwoThreads
    MayRestart = FALSE
PROPERTIES
    CrawledRepeatedly
