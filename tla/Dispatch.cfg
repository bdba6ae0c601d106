SPECIFICATION Spec
CONSTANTS
    w1 = w1
    a1 = a1
    n1 = n1
    p1 = p1
    kakao = kakao
    push = push
    e1 = e1
    WorkerDispatchers <- OneWorker
    ApiDispatchers <- OneApi
    Notifiers <- OneNotifier
    Postings <- OnePosting
    Channels <- BothChannels
    Kakao = kakao
    WebPush = push
    Endpoints <- OneEndpoint
    Day = 4
    DispatchHour = 1
    QuietSettings <- AroundTheDispatch
    Lookback = 1
    Keep = 1
    RetryAttempts = 2
    FailureLimit = 2
    CrawlTime = 1
    DispatchTime = 0
    MaxTime = 2
    MayCrash = TRUE
CONSTRAINT EarlyNotices
INVARIANTS
    TypeOK
    SentIsAcknowledged
    QuietHoursKept
PROPERTIES
    KeepsLedger
    DeferredToQuietEnd
    LimitDeactivates
CHECK_DEADLOCK FALSE
