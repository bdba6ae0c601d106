SPECIFICATION FairSpec
CONSTANTS
    p1 = p1
    p2 = p2
    NoPage = NoPage
    Absent = Absent
    NoTag = NoTag
    None = None
    Crawlers <- Registered
    Postings <- TwoPostings
    Pages <- SixPages
    Tagged <- TaggedPages
    Attempts = 2
    DropPercent = 80
    CloseAfter = 2
INVARIANTS
    TypeOK
    
PROPERTIES
    UnreadListClosesNothing
    FollowsListing
    CrawlEnds
