SPECIFICATION FairSpec
CONSTANTS
    a1 = a1
    Daily = daily
    Senders <- OneSender
    InWorker <- JustDaily
    MaxTokens = 2
    MayCrash = TRUE
INVARIANTS
    TypeOK
    NotifiedMeansSent
PROPERTIES
    LossIsShown
    BannerClears
