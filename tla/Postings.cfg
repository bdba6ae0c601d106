SPECIFICATION Spec
CONSTANTS
    p1 = p1
    k1 = k1
    k2 = k2
    data = data
    internship = internship
    analyst = analyst
    sales = sales
    Blank = blank
    NoWording = unworded
    Ids <- OnePosting
    Contents <- TwoContents
    Deadline <- DayBefore
    Keywords <- TwoKeywords
    Wordings <- TwoWordings
    Term <- OwnTerms
    Excludes <- JustInternship
    Primary <- JustData
    Defaults <- JustData
    Finds <- WhereFound
    CloseAfter = 3
    Lookback = 1
    MaxBatch = 2
    MaxRevisions = 1
    MaxDay = 2
SYMMETRY AnyKeyword
INVARIANTS
    TypeOK
    ClosedAfterMisses
    RevisionChain
    EvidenceCurrent
PROPERTIES
    FollowsListing
    CountsAgree
CHECK_DEADLOCK FALSE
