---------------------------- MODULE SiteCrawlProofs ----------------------------
(***************************************************************************)
(* Proofs about SiteCrawl for every set of crawlers, pages and postings,   *)
(* every number of attempts and misses, and every ratio of a drop.         *)
(***************************************************************************)
EXTENDS SiteCrawl, FiniteSetTheorems, TLAPS

Pcs == {"idle", "preparing", "requesting", "parsing", "finishing", "failing"}

Config == [valid : BOOLEAN, tag : Tags]

Crawl == [pc : Pcs, config : Config, attempts : 0..(Attempts - 1),
          page : Pages \cup {NoPage}, items : SUBSET Postings,
          error : Errors, recorded : BOOLEAN, before : Nat \cup {None}]

Row == [known : BOOLEAN, open : BOOLEAN, missing : 0..CloseAfter]

Runs == [status : {"none", "running", "success", "partial", "failed"},
         error : {"none", "collection_drop", "parser", "rate_limit",
                  "authentication", "network", "schema", "unknown"}]

Parsed(page) == page \in Pages /\ page.kind \notin Parsing.raises

\* What a crawl holds at each point, before it is recorded.
CrawlInv ==
    /\ crawl.pc \in {"preparing", "requesting"} =>
         crawl.page = NoPage /\ crawl.items = {} /\ crawl.error = "none"
    /\ crawl.pc = "parsing" =>
         crawl.page \in Pages /\ crawl.items = {} /\ crawl.error = "none"
    /\ crawl.pc = "finishing" =>
         \/ crawl.error # "none"
         \/ crawl.page = NoPage /\ crawl.items = {}
         \/ Parsed(crawl.page) /\ crawl.items = Items(crawl.page)

\* A closed posting may be at the limit, an open one is below it.
RowInv == \A p \in Postings : posting[p].open => posting[p].missing < CloseAfter

Collectible(tag) == tag \in Tagged /\ Parsed(tag)

\* A posting that a recorded list has named.
Handled(p) == posting[p].known \/ p \in turnedDown

Known(tag) == Collectible(tag) => \A p \in Items(tag) : Handled(p)

\* The tag that a crawl is about to store stands for what has been collected
\* or for what it is about to record.
TagInv ==
    crawl.pc \in {"preparing", "requesting", "parsing", "finishing"} =>
        \/ Known(crawl.config.tag)
        \/ /\ crawl.pc \in {"parsing", "finishing"}
           /\ crawl.config.tag = crawl.page
           /\ crawl.pc = "finishing" => crawl.items = Items(crawl.page)

IInv ==
    /\ TypeOK
    /\ CrawlInv
    /\ RowInv
    /\ TagInv
    /\ SkippedWasCollected

-----------------------------------------------------------------------------
(* Types. *)

LEMMA TypeParts ==
    TypeOK <=> /\ crawler \in Crawlers
               /\ keyed \in BOOLEAN
               /\ site \in Pages
               /\ config \in Config
               /\ baseline \in Nat \cup {None}
               /\ posting \in [Postings -> Row]
               /\ turnedDown \subseteq Postings
               /\ crawl \in Crawl
               /\ run \in Runs
BY DEF TypeOK, Pcs, Config, Crawl, Row, Runs

LEMMA TypePartsNext ==
    TypeOK' <=> /\ crawler' \in Crawlers
                /\ keyed' \in BOOLEAN
                /\ site' \in Pages
                /\ config' \in Config
                /\ baseline' \in Nat \cup {None}
                /\ posting' \in [Postings -> Row]
                /\ turnedDown' \subseteq Postings
                /\ crawl' \in Crawl
                /\ run' \in Runs
BY DEF TypeOK, Pcs, Config, Crawl, Row, Runs

\* What SkippedWasCollected says of a tag.
LEMMA SkippedIsKnown == SkippedWasCollected <=> Known(config.tag)
BY SiteConstantsOK DEF SkippedWasCollected, Known, Handled, Collectible, Parsed

LEMMA IdleFacts ==
    /\ Idle \in Crawl
    /\ Idle.pc = "idle"
    /\ Idle.page = NoPage
    /\ Idle.items = {}
    /\ Idle.error = "none"
BY SiteConstantsOK DEF Idle, Crawl, Pcs, Config, Tags, Errors

LEMMA CrawlFields ==
    ASSUME NEW c \in Crawl
    PROVE  /\ c.pc \in Pcs
           /\ c.config \in Config
           /\ c.config.tag \in Tags
           /\ c.page \in Pages \cup {NoPage}
           /\ c.items \in SUBSET Postings
           /\ c.error \in Errors
BY DEF Crawl, Config

\* Only a page that comes with a tag is ever stored as one.
LEMMA RememberedFacts ==
    ASSUME NEW c \in Config, NEW page \in Pages
    PROVE  /\ Remembered(c, page) \in Config
           /\ \/ Remembered(c, page) = c
              \/ Remembered(c, page).tag = page
              \/ Remembered(c, page).tag = NoTag
BY DEF Remembered, TagOf, Config, Tags

LEMMA NoTagIsKnown ==
    /\ Known(Absent)
    /\ Known(NoTag)
BY SiteConstantsOK DEF Known, Handled, Collectible, Parsed

LEMMA ItemsType ==
    ASSUME NEW page \in Pages
    PROVE  Items(page) \in SUBSET Postings
<1>1. \A r \in page.records : r.posting \in Postings
  BY SiteConstantsOK DEF Record
<1>2. QED
  BY <1>1 DEF Items

\* The rows after a result.
LEMMA CollectedFacts ==
    ASSUME TypeOK, RowInv, NEW items \in SUBSET Postings,
           NEW wanted \in SUBSET items, NEW complete \in BOOLEAN
    PROVE  /\ Collected(items, wanted, complete) \in [Postings -> Row]
           /\ \A p \in Postings :
                LET row == Collected(items, wanted, complete)[p] IN
                /\ row.open => row.missing < CloseAfter
                /\ p \in wanted \/ (posting[p].known /\ p \notin items) => row.known
                /\ row.missing > posting[p].missing => complete /\ p \notin items
<1> USE SiteConstantsOK
<1>1. ASSUME NEW row \in Row, row.open => row.missing < CloseAfter
      PROVE  /\ Listed(row) \in Row /\ Listed(row).known
             /\ Listed(row).open => Listed(row).missing < CloseAfter
             /\ ~(Listed(row).missing > row.missing)
             /\ Missed(row) \in Row
             /\ Missed(row).known = row.known
             /\ Missed(row).open => Missed(row).missing < CloseAfter
  <2>1. /\ Listed(row) \in Row /\ Listed(row).known
        /\ Listed(row).open => Listed(row).missing < CloseAfter
        /\ ~(Listed(row).missing > row.missing)
    BY <1>1 DEF Listed, Row
  <2>2. CASE ~row.open
    BY <1>1, <2>1, <2>2 DEF Missed
  <2>3. CASE row.open
    <3>1. /\ row.missing + 1 \in 0..CloseAfter
          /\ (row.missing + 1 < CloseAfter) \in BOOLEAN
      BY <1>1, <2>3 DEF Row
    <3> DEFINE new == [row EXCEPT !.missing = row.missing + 1,
                                  !.open = row.missing + 1 < CloseAfter]
    <3>2. Missed(row) = new
      BY <1>1, <2>3 DEF Missed, Row
    <3>3. /\ new \in Row
          /\ new.known = row.known
          /\ new.open = (row.missing + 1 < CloseAfter)
          /\ new.missing = row.missing + 1
      BY <1>1, <3>1 DEF Row
    <3>4. QED
      BY <2>1, <3>2, <3>3
  <2>4. QED
    BY <2>2, <2>3
<1>2. posting \in [Postings -> Row]
  BY TypeParts
<1>3. ASSUME NEW p \in Postings
      PROVE  LET row == Collected(items, wanted, complete)[p] IN
             /\ row \in Row
             /\ row.open => row.missing < CloseAfter
             /\ p \in wanted \/ (posting[p].known /\ p \notin items) => row.known
             /\ row.missing > posting[p].missing => complete /\ p \notin items
  <2>1. posting[p] \in Row /\ (posting[p].open => posting[p].missing < CloseAfter)
    BY <1>2 DEF RowInv
  <2>2. posting[p].missing \in 0..CloseAfter
    BY <2>1 DEF Row
  <2>3. CASE p \in wanted
    BY <1>1, <2>1, <2>3 DEF Collected
  <2>4. CASE p \in items \ wanted
    <3>1. Collected(items, wanted, complete)[p] = Unseen
      BY <2>4 DEF Collected
    <3>2. Unseen \in Row /\ ~Unseen.open /\ Unseen.missing = 0
      BY DEF Unseen, Row
    <3>3. QED
      BY <2>2, <2>4, <3>1, <3>2
  <2>5. CASE p \notin items /\ complete
    BY <1>1, <2>1, <2>5 DEF Collected
  <2>6. CASE p \notin items /\ ~complete
    BY <2>1, <2>2, <2>6 DEF Collected
  <2>7. QED
    BY <2>3, <2>4, <2>5, <2>6
<1>4. QED
  BY <1>3 DEF Collected

-----------------------------------------------------------------------------
(* The invariant. *)

LEMMA InitInv == Init => IInv
<1> SUFFICES ASSUME Init PROVE IInv
  OBVIOUS
<1> USE SiteConstantsOK
<1>1. Unseen \in Row /\ ~Unseen.open
  BY DEF Unseen, Row
<1>2. config \in Config /\ config.tag = Absent
  BY DEF Init, Config, Tags
<1>3. TypeOK
  BY <1>1, <1>2, IdleFacts, TypeParts DEF Init, Runs
<1>4. CrawlInv /\ TagInv
  BY IdleFacts DEF Init, CrawlInv, TagInv
<1>5. RowInv
  BY <1>1 DEF Init, RowInv
<1>6. SkippedWasCollected
  BY <1>2, NoTagIsKnown, SkippedIsKnown
<1>7. QED
  BY <1>3, <1>4, <1>5, <1>6 DEF IInv

\* A step that touches only the crawl, or the site.
LEMMA CrawlStep ==
    ASSUME IInv, crawl' \in Crawl, site' \in Pages,
           UNCHANGED <<crawler, keyed, config, baseline, posting, turnedDown, run>>,
           CrawlInv', TagInv'
    PROVE  IInv'
<1>1. TypeOK'
  BY TypeParts, TypePartsNext DEF IInv
<1>2. RowInv'
  BY DEF IInv, RowInv
<1>3. SkippedWasCollected'
  BY DEF IInv, SkippedWasCollected, Items, Understood, Parsing
<1>4. QED
  BY <1>1, <1>2, <1>3 DEF IInv

LEMMA BeginInv == IInv /\ Begin => IInv'
<1> SUFFICES ASSUME IInv, Begin PROVE IInv'
  OBVIOUS
<1> DEFINE c == [Idle EXCEPT !.pc = "preparing", !.config = config]
<1>1. /\ crawl' = c
      /\ run' = [status |-> "running", error |-> "none"]
      /\ UNCHANGED <<crawler, keyed, site, config, baseline, posting, turnedDown>>
  BY DEF Begin, deployment, table
<1>2. config \in Config
  BY TypeParts DEF IInv
<1>3. /\ c \in Crawl /\ c.pc = "preparing" /\ c.config = config
      /\ c.page = NoPage /\ c.items = {} /\ c.error = "none"
  BY <1>2, IdleFacts DEF Crawl, Pcs
<1> HIDE DEF c
<1>4. TypeOK'
  BY <1>1, <1>3, TypeParts, TypePartsNext DEF IInv, Runs
<1>5. CrawlInv'
  BY <1>1, <1>3 DEF CrawlInv
<1>6. Known(config.tag)'
  BY <1>1, SkippedIsKnown
     DEF IInv, Known, Handled, Collectible, Parsed, Items, Understood, Parsing
<1>7. TagInv'
  BY <1>1, <1>3, <1>6 DEF TagInv, Known, Handled, Collectible, Parsed, Items, Understood, Parsing
<1>8. RowInv' /\ SkippedWasCollected'
  BY <1>1 DEF IInv, RowInv, SkippedWasCollected, Items, Understood, Parsing
<1>9. QED
  BY <1>4, <1>5, <1>7, <1>8 DEF IInv

\* Nothing that decides what a tag stands for changes with the crawl.
LEMMA KnownStays ==
    ASSUME UNCHANGED <<crawler, posting, turnedDown>>, NEW tag
    PROVE  /\ Known(tag) => Known(tag)'
           /\ Items(tag)' = Items(tag)
BY DEF Known, Handled, Collectible, Parsed, Items, Understood, Parsing

\* A crawl that gives up before it has read a page.
LEMMA StopsEmpty ==
    ASSUME IInv, NEW c \in Crawl, crawl' = c,
           UNCHANGED <<crawler, keyed, site, config, baseline, posting, turnedDown, run>>,
           c.config = crawl.config, c.page = crawl.page, c.items = crawl.items,
           crawl.pc \in {"preparing", "requesting"},
           \/ c.pc = "finishing"
           \/ c.pc = "requesting" /\ c.error = "none"
           \/ c.pc = "failing"
    PROVE  IInv'
<1>1. crawl.page = NoPage /\ crawl.items = {}
  BY DEF IInv, CrawlInv
<1>2. CrawlInv'
  BY <1>1 DEF CrawlInv
<1>3. Known(crawl.config.tag)
  BY DEF IInv, TagInv
<1>4. TagInv'
  BY <1>3, KnownStays DEF TagInv
<1>5. site' \in Pages
  BY TypeParts DEF IInv
<1>6. QED
  BY <1>2, <1>4, <1>5, CrawlStep

LEMMA PrepareInv == IInv /\ Prepare => IInv'
<1> SUFFICES ASSUME IInv, Prepare PROVE IInv'
  OBVIOUS
<1> USE DEF deployment, stored, table
<1>1. crawl \in Crawl
  BY TypeParts DEF IInv
<1>2. crawl.pc = "preparing" /\ crawl.error = "none"
  BY DEF IInv, CrawlInv, Prepare, At
<1>3. \E p \in {"failing", "finishing", "requesting"}, e \in {"credential", "schema", "none"} :
         /\ crawl' = [crawl EXCEPT !.pc = p, !.error = e]
         /\ p = "requesting" => e = "none"
  <2>1. CASE crawl' = [crawl EXCEPT !.pc = "failing", !.error = "credential"]
    BY <2>1
  <2>2. CASE crawl' = [crawl EXCEPT !.pc = "finishing", !.error = "schema"]
    BY <2>2
  <2>3. CASE crawl' = [crawl EXCEPT !.pc = "requesting"]
    <3>1. [crawl EXCEPT !.pc = "requesting"] =
            [crawl EXCEPT !.pc = "requesting", !.error = "none"]
      BY <1>1, <1>2 DEF Crawl
    <3>2. QED
      BY <2>3, <3>1
  <2>4. QED
    BY <2>1, <2>2, <2>3 DEF Prepare
<1>4. UNCHANGED <<crawler, keyed, site, config, baseline, posting, turnedDown, run>>
  BY DEF Prepare
<1>5. PICK p \in {"failing", "finishing", "requesting"},
           e \in {"credential", "schema", "none"} :
             /\ crawl' = [crawl EXCEPT !.pc = p, !.error = e]
             /\ p = "requesting" => e = "none"
  BY <1>3
<1> DEFINE c == [crawl EXCEPT !.pc = p, !.error = e]
<1>6. /\ c \in Crawl /\ c.pc = p /\ c.error = e
      /\ c.config = crawl.config /\ c.page = crawl.page
      /\ c.items = crawl.items
      /\ crawl' = c
  BY <1>1, <1>5 DEF Crawl, Pcs, Errors
<1> HIDE DEF c
<1>7. /\ crawl.pc \in {"preparing", "requesting"}
      /\ \/ c.pc = "finishing"
         \/ c.pc = "requesting" /\ c.error = "none"
         \/ c.pc = "failing"
  BY <1>2, <1>5, <1>6
<1>8. QED
  BY <1>4, <1>6, <1>7, StopsEmpty

LEMMA ReceiveInv == IInv /\ Receive => IInv'
<1> SUFFICES ASSUME IInv, Receive PROVE IInv'
  OBVIOUS
<1> USE DEF deployment, stored, table
<1> DEFINE k == Remembered(crawl.config, site)
           c == [crawl EXCEPT !.pc = "parsing", !.page = site, !.config = k]
<1>1. /\ crawl' = c
      /\ crawl.pc = "requesting"
      /\ UNCHANGED <<crawler, keyed, site, config, baseline, posting, turnedDown, run>>
  BY DEF Receive, At
<1>2. crawl \in Crawl /\ site \in Pages
  BY TypeParts DEF IInv
<1>3. /\ k \in Config
      /\ k = crawl.config \/ k.tag = site \/ k.tag = NoTag
  BY <1>2, CrawlFields, RememberedFacts
<1>4. Known(crawl.config.tag) /\ crawl.items = {} /\ crawl.error = "none"
  BY <1>1 DEF IInv, TagInv, CrawlInv
<1> HIDE DEF k
<1>5. /\ c \in Crawl /\ c.pc = "parsing" /\ c.page = site
      /\ c.config = k /\ c.items = {} /\ c.error = "none"
  BY <1>2, <1>3, <1>4 DEF Crawl, Pcs
<1> HIDE DEF c
<1>6. CrawlInv'
  BY <1>1, <1>2, <1>5 DEF CrawlInv
<1>7. Known(k.tag) \/ k.tag = site
  BY <1>3, <1>4, NoTagIsKnown
<1>8. TagInv'
  BY <1>1, <1>5, <1>7, KnownStays DEF TagInv
<1>9. QED
  BY <1>1, <1>2, <1>5, <1>6, <1>8, CrawlStep

LEMMA NotModifiedInv == IInv /\ NotModified => IInv'
<1> SUFFICES ASSUME IInv, NotModified PROVE IInv'
  OBVIOUS
<1> DEFINE c == [crawl EXCEPT !.pc = "finishing"]
<1>1. crawl \in Crawl
  BY TypeParts DEF IInv
<1>2. /\ c \in Crawl /\ c.pc = "finishing"
      /\ c.config = crawl.config /\ c.page = crawl.page /\ c.items = crawl.items
  BY <1>1 DEF Crawl, Pcs
<1>3. /\ crawl' = c /\ crawl.pc = "requesting"
      /\ UNCHANGED <<crawler, keyed, site, config, baseline, posting, turnedDown, run>>
  BY DEF NotModified, At, deployment, stored, table
<1> HIDE DEF c
<1>4. QED
  BY <1>2, <1>3, StopsEmpty

LEMMA RequestFailsInv ==
    ASSUME IInv, NEW error \in Errors, RequestFails(error) \/ RequestRefused(error)
    PROVE  IInv'
<1> USE DEF deployment, stored, table
<1>1. /\ crawl \in Crawl
      /\ crawl.pc = "requesting"
      /\ crawl.error = "none"
      /\ UNCHANGED <<crawler, keyed, site, config, baseline, posting, turnedDown, run>>
  BY TypeParts DEF IInv, CrawlInv, RequestFails, RequestRefused, At
<1>2. CASE crawl' = [crawl EXCEPT !.pc = "finishing", !.error = error]
  <2> DEFINE c == [crawl EXCEPT !.pc = "finishing", !.error = error]
  <2>1. /\ c \in Crawl /\ c.pc = "finishing"
        /\ c.config = crawl.config /\ c.page = crawl.page /\ c.items = crawl.items
    BY <1>1 DEF Crawl, Pcs
  <2>2. crawl' = c
    BY <1>2
  <2> HIDE DEF c
  <2>3. QED
    BY <1>1, <2>1, <2>2, StopsEmpty
<1>3. CASE /\ Counted(crawl.attempts) < Attempts
           /\ crawl' = [crawl EXCEPT !.attempts = Counted(crawl.attempts)]
  <2> DEFINE n == Counted(crawl.attempts)
             c == [crawl EXCEPT !.attempts = n]
  <2>1. n \in 0..(Attempts - 1)
    BY <1>1, <1>3, SiteConstantsOK DEF Counted, Crawl
  <2> HIDE DEF n
  <2>2. /\ c \in Crawl /\ c.pc = "requesting" /\ c.error = "none"
        /\ c.config = crawl.config /\ c.page = crawl.page /\ c.items = crawl.items
    BY <1>1, <2>1 DEF Crawl
  <2>3. crawl' = c
    BY <1>3 DEF n
  <2> HIDE DEF c
  <2>4. QED
    BY <1>1, <2>2, <2>3, StopsEmpty
<1>4. QED
  BY <1>2, <1>3 DEF RequestFails, RequestRefused

LEMMA ParseInv == IInv /\ Parse => IInv'
<1> SUFFICES ASSUME IInv, Parse PROVE IInv'
  OBVIOUS
<1> USE DEF deployment, stored, table
<1>1. /\ crawl \in Crawl
      /\ site \in Pages
      /\ crawl.pc = "parsing"
      /\ crawl.page \in Pages
      /\ crawl.items = {}
      /\ crawl.error = "none"
      /\ UNCHANGED <<crawler, keyed, site, config, baseline, posting, turnedDown, run>>
  BY TypeParts DEF IInv, CrawlInv, Parse, At
<1>2. Known(crawl.config.tag) \/ crawl.config.tag = crawl.page
  BY <1>1 DEF IInv, TagInv
<1>3. CASE /\ crawl.page.kind \in Parsing.raises
           /\ crawl' = [crawl EXCEPT !.pc = "finishing", !.error = "schema"]
  <2>1. /\ crawl' \in Crawl /\ crawl'.pc = "finishing" /\ crawl'.error # "none"
        /\ crawl'.config = crawl.config
    BY <1>1, <1>3 DEF Crawl, Pcs, Errors
  <2>2. Known(crawl.config.tag)
    BY <1>2, <1>3 DEF Known, Handled, Collectible, Parsed
  <2>3. CrawlInv' /\ TagInv'
    BY <1>1, <2>1, <2>2, KnownStays DEF CrawlInv, TagInv
  <2>4. QED
    BY <1>1, <2>1, <2>3, CrawlStep
<1>4. CASE /\ crawl.page.kind \notin Parsing.raises
           /\ crawl' = [crawl EXCEPT !.pc = "finishing", !.items = Items(crawl.page)]
  <2>1. Items(crawl.page) \in SUBSET Postings
    BY <1>1, ItemsType
  <2>2. /\ crawl' \in Crawl /\ crawl'.pc = "finishing" /\ crawl'.error = "none"
        /\ crawl'.config = crawl.config /\ crawl'.page = crawl.page
        /\ crawl'.items = Items(crawl.page)
    BY <1>1, <1>4, <2>1 DEF Crawl, Pcs
  <2>3. Parsed(crawl.page)'
    BY <1>1, <1>4, <2>2 DEF Parsed, Parsing
  <2>4. crawl'.items = Items(crawl.page)'
    BY <1>1, <2>2 DEF Items, Understood, Parsing
  <2>5. CrawlInv'
    BY <2>2, <2>3, <2>4 DEF CrawlInv
  <2>6. TagInv'
    BY <1>1, <1>2, <2>2, <2>4, KnownStays DEF TagInv
  <2>7. QED
    BY <1>1, <2>2, <2>5, <2>6, CrawlStep
<1>5. QED
  BY <1>3, <1>4 DEF Parse

\* A list whose postings are not fewer by the ratio than those of the last
\* success: without any, there was nothing to compare with.
LEMMA NothingIsDropped ==
    ASSUME baseline \in Nat \cup {None}, ~Dropped(0)
    PROVE  baseline \in {None, 0}
<1> SUFFICES ASSUME baseline \in Nat, baseline > 0, baseline # None
             PROVE  Dropped(0)
  BY SiteConstantsOK
<1>1. ASSUME NEW b \in Nat, NEW d \in 0..100
      PROVE  100 * (b - 0) >= b * d
  <2>1. b * (100 - d) >= 0
    BY <1>1
  <2>2. b * (100 - d) = 100 * b - b * d
    BY <1>1
  <2>3. QED
    BY <1>1, <2>1, <2>2
<1>2. QED
  BY <1>1, SiteConstantsOK DEF Dropped

\* What is recorded, whether or not the commit is answered.
LEMMA SaveFacts ==
    ASSUME IInv, crawl.pc = "finishing", SaveResult, UNCHANGED crawler
    PROVE  /\ config' \in Config
           /\ baseline' \in Nat \cup {None}
           /\ posting' \in [Postings -> Row]
           /\ turnedDown' \subseteq Postings
           /\ run' \in Runs
           /\ RowInv'
           /\ SkippedWasCollected'
           /\ \A p \in Postings :
                posting'[p].missing > posting[p].missing =>
                    \/ Reads(crawl.page) /\ p \notin Items(crawl.page)
                    \/ baseline \in {None, 0}
<1> DEFINE n == Cardinality(crawl.items)
           partial == Dropped(n) \/ crawl.error # "none"
           complete == ~partial
<1> USE SiteConstantsOK
<1>1. /\ crawl \in Crawl
      /\ baseline \in Nat \cup {None}
      /\ posting \in [Postings -> Row]
      /\ turnedDown \subseteq Postings
      /\ crawl.items \in SUBSET Postings
      /\ TypeOK
      /\ RowInv
  BY TypeParts, CrawlFields DEF IInv
<1>2. n \in Nat
  BY <1>1, FS_Subset, FS_CardinalityType
<1> PICK wanted \in SUBSET crawl.items :
      /\ posting' = Collected(crawl.items, wanted, complete)
      /\ turnedDown' = (turnedDown \ wanted) \cup (crawl.items \ wanted)
  BY DEF SaveResult
<1>3. /\ complete \in BOOLEAN
      /\ wanted \in SUBSET crawl.items
      /\ posting' = Collected(crawl.items, wanted, complete)
      /\ turnedDown' = (turnedDown \ wanted) \cup (crawl.items \ wanted)
      /\ baseline' \in {baseline, n}
      /\ config' = crawl.config
  BY DEF SaveResult
<1>4. run' \in Runs
  BY DEF SaveResult, Runs
<1> HIDE DEF complete
<1>5. /\ posting' \in [Postings -> Row]
      /\ \A p \in Postings :
           /\ posting'[p].open => posting'[p].missing < CloseAfter
           /\ p \in wanted \/ (posting[p].known /\ p \notin crawl.items) =>
                posting'[p].known
           /\ posting'[p].missing > posting[p].missing =>
                complete /\ p \notin crawl.items
  BY <1>1, <1>3, CollectedFacts
<1>6. ASSUME NEW tag, tag = crawl.config.tag
      PROVE  Known(tag)'
  <2>1. SUFFICES ASSUME Collectible(tag)', NEW p \in Items(tag)'
                 PROVE  Handled(p)'
    BY DEF Known
  <2>2. /\ Collectible(tag)
        /\ p \in Items(tag)
    BY <2>1 DEF Collectible, Parsed, Items, Understood, Parsing
  <2>3. p \in Postings
    BY <2>2, ItemsType DEF Collectible, Parsed
  <2>4. posting[p].known \/ p \in turnedDown \/ p \in crawl.items
    BY <1>6, <2>2 DEF IInv, TagInv, Known, Handled
  <2>5. posting'[p].known \/ p \in turnedDown'
    BY <1>3, <1>5, <2>3, <2>4
  <2>6. QED
    BY <2>5 DEF Handled
<1>7. SkippedWasCollected'
  BY <1>3, <1>6, SiteConstantsOK
     DEF SkippedWasCollected, Known, Handled, Collectible, Parsed, Items, Understood, Parsing
<1>8. ASSUME NEW p \in Postings, posting'[p].missing > posting[p].missing,
             baseline \notin {None, 0}
      PROVE  Reads(crawl.page) /\ p \notin Items(crawl.page)
  <2>1. ~Dropped(n) /\ crawl.error = "none" /\ p \notin crawl.items
    BY <1>5, <1>8 DEF complete
  <2>2. n # 0
    BY <1>1, <1>8, <2>1, NothingIsDropped
  <2>3. crawl.items # {}
    BY <2>2, FS_EmptySet
  <2>4. Parsed(crawl.page) /\ crawl.items = Items(crawl.page)
    BY <2>1, <2>3 DEF IInv, CrawlInv
  <2>5. crawl.page.kind \notin Parsing.blank
    BY <2>3, <2>4 DEF Items
  <2>6. QED
    BY <2>1, <2>4, <2>5 DEF Reads, Parsed
<1>9. QED
  BY <1>1, <1>2, <1>3, <1>4, <1>5, <1>7, <1>8, CrawlFields DEF RowInv

LEMMA FinishInv == IInv /\ (Finish \/ FinishUnanswered) => IInv'
<1> SUFFICES ASSUME IInv, Finish \/ FinishUnanswered PROVE IInv'
  OBVIOUS
<1>1. /\ crawl.pc = "finishing"
      /\ SaveResult
      /\ UNCHANGED <<crawler, keyed, site>>
  BY DEF Finish, FinishUnanswered, At, deployment
<1>2. /\ config' \in Config
      /\ baseline' \in Nat \cup {None}
      /\ posting' \in [Postings -> Row]
      /\ turnedDown' \subseteq Postings
      /\ run' \in Runs
      /\ RowInv'
      /\ SkippedWasCollected'
  BY <1>1, SaveFacts
<1>3. crawl' \in Crawl /\ crawl'.pc \in {"idle", "failing"}
  <2>1. crawl \in Crawl /\ baseline \in Nat \cup {None}
    BY TypeParts DEF IInv
  <2>2. CASE Finish
    BY <2>2, IdleFacts DEF Finish
  <2>3. CASE FinishUnanswered
    BY <2>1, <2>3 DEF FinishUnanswered, Crawl, Pcs, Errors, Permanent
  <2>4. QED
    BY <2>2, <2>3
<1>4. TypeOK'
  BY <1>1, <1>2, <1>3, TypeParts, TypePartsNext DEF IInv
<1>5. CrawlInv' /\ TagInv'
  BY <1>3 DEF CrawlInv, TagInv
<1>6. QED
  BY <1>2, <1>4, <1>5 DEF IInv

\* A crawl that ends, or is about to, without being recorded.
LEMMA EndsInv ==
    ASSUME IInv, crawl' \in Crawl, crawl'.pc \in {"idle", "failing"},
           baseline' \in Nat \cup {None}, run' \in Runs,
           UNCHANGED <<crawler, keyed, site, config, posting, turnedDown>>
    PROVE  IInv'
<1>1. TypeOK'
  BY TypeParts, TypePartsNext DEF IInv
<1>2. CrawlInv' /\ TagInv'
  BY DEF CrawlInv, TagInv
<1>3. RowInv' /\ SkippedWasCollected'
  BY DEF IInv, RowInv, SkippedWasCollected, Items, Understood, Parsing
<1>4. QED
  BY <1>1, <1>2, <1>3 DEF IInv

LEMMA FailuresInv == IInv /\ (FinishRaises \/ MarkFailed \/ Crash) => IInv'
<1> SUFFICES ASSUME IInv, FinishRaises \/ MarkFailed \/ Crash PROVE IInv'
  OBVIOUS
<1> USE DEF deployment, stored, table
<1>1. /\ crawl \in Crawl
      /\ baseline \in Nat \cup {None}
      /\ run \in Runs
  BY TypeParts DEF IInv
<1>2. CASE FinishRaises
  <2>1. crawl' \in Crawl /\ crawl'.pc = "failing"
    <3>1. PICK error \in {"schema", "other"} :
            crawl' = [crawl EXCEPT !.pc = "failing", !.error = error]
      BY <1>2 DEF FinishRaises
    <3>2. QED
      BY <1>1, <3>1 DEF Crawl, Pcs, Errors, Permanent
  <2>2. QED
    BY <1>1, <1>2, <2>1, EndsInv DEF FinishRaises
<1>3. CASE MarkFailed
  <2>1. run' \in Runs
    <3>1. Classified(crawl.error) \in
            {"rate_limit", "authentication", "network", "schema", "unknown"}
      BY DEF Classified
    <3>2. QED
      BY <1>3, <3>1 DEF MarkFailed, Runs
  <2>2. baseline' \in Nat \cup {None}
    BY <1>1, <1>3 DEF MarkFailed, Crawl
  <2>3. UNCHANGED <<crawler, keyed, site, config, posting, turnedDown>> /\ crawl' = Idle
    BY <1>3 DEF MarkFailed, FailedConfig
  <2>4. QED
    BY <2>1, <2>2, <2>3, EndsInv, IdleFacts
<1>4. CASE Crash
  BY <1>1, <1>4, EndsInv, IdleFacts DEF Crash
<1>5. QED
  BY <1>2, <1>3, <1>4

\* What the retention does to the table.
LEMMA RetentionFacts ==
    ASSUME TypeOK, RowInv, Retain
    PROVE  /\ posting' \in [Postings -> Row]
           /\ turnedDown' \subseteq Postings
           /\ RowInv'
           /\ \A p \in Postings : Handled(p) => Handled(p)'
           /\ \A p \in Postings : posting'[p] \in {posting[p], Unseen}
<1>1. PICK old \in SUBSET {p \in Postings : posting[p].known} :
        /\ posting' = [p \in Postings |-> IF p \in old THEN Unseen ELSE posting[p]]
        /\ turnedDown' = turnedDown \cup old
  BY DEF Retain
<1>2. posting \in [Postings -> Row] /\ turnedDown \subseteq Postings
  BY TypeParts
<1>3. Unseen \in Row /\ ~Unseen.open
  BY SiteConstantsOK DEF Unseen, Row
<1>4. posting' \in [Postings -> Row] /\ turnedDown' \subseteq Postings
  BY <1>1, <1>2, <1>3
<1>5. RowInv'
  BY <1>1, <1>3 DEF RowInv
<1>6. ASSUME NEW p \in Postings, Handled(p)
      PROVE  Handled(p)'
  BY <1>1, <1>6 DEF Handled
<1>7. QED
  BY <1>1, <1>4, <1>5, <1>6

LEMMA EnvironmentInv ==
    IInv /\ (SiteChanges \/ AdminSave \/ Retain \/ UNCHANGED vars) => IInv'
<1> SUFFICES ASSUME IInv, SiteChanges \/ AdminSave \/ Retain \/ UNCHANGED vars
             PROVE  IInv'
  OBVIOUS
<1> USE DEF deployment, stored, table
<1>1. CASE SiteChanges \/ UNCHANGED vars
  <2>1. /\ site' \in Pages
        /\ UNCHANGED <<crawler, keyed, config, baseline, posting, turnedDown, crawl, run>>
    BY <1>1, TypeParts DEF IInv, SiteChanges, vars
  <2>2. CrawlInv' /\ TagInv'
    BY <2>1, KnownStays
       DEF IInv, CrawlInv, TagInv, Parsed, Items, Understood, Parsing
  <2>3. crawl' \in Crawl
    BY <2>1, TypeParts DEF IInv
  <2>4. QED
    BY <2>1, <2>2, <2>3, CrawlStep
<1>2. CASE AdminSave
  <2>1. PICK valid \in BOOLEAN, tag \in {Absent, NoTag, config.tag} :
          config' = [valid |-> valid, tag |-> tag]
    BY <1>2 DEF AdminSave
  <2>2. config \in Config /\ config.tag \in Tags
    BY TypeParts DEF IInv, Config
  <2>3. config' \in Config /\ config'.tag = tag
    BY <2>1, <2>2 DEF Config, Tags
  <2>4. UNCHANGED <<crawler, keyed, site, baseline, posting, turnedDown, crawl, run>>
    BY <1>2 DEF AdminSave
  <2>5. TypeOK'
    BY <2>3, <2>4, TypeParts, TypePartsNext DEF IInv
  <2>6. CrawlInv' /\ TagInv' /\ RowInv'
    BY <2>4, KnownStays
       DEF IInv, CrawlInv, TagInv, RowInv, Parsed, Items, Understood, Parsing
  <2>7. Known(tag)
    BY <2>1, NoTagIsKnown, SkippedIsKnown DEF IInv
  <2>8. SkippedWasCollected'
    BY <2>3, <2>4, <2>7, SiteConstantsOK
       DEF SkippedWasCollected, Known, Handled, Collectible, Parsed, Items, Understood, Parsing
  <2>9. QED
    BY <2>5, <2>6, <2>8 DEF IInv
<1>3. CASE Retain
  <2>1. UNCHANGED <<crawler, keyed, site, config, run>>
    BY <1>3 DEF Retain
  <2>2. /\ baseline' \in Nat \cup {None}
        /\ crawl' \in Crawl
        /\ crawl' = crawl \/ crawl' = [crawl EXCEPT !.before = None]
    BY <1>3, TypeParts DEF IInv, Retain, Crawl
  <2>3. /\ crawl'.pc = crawl.pc /\ crawl'.page = crawl.page
        /\ crawl'.items = crawl.items /\ crawl'.error = crawl.error
        /\ crawl'.config = crawl.config
    BY <2>2, TypeParts DEF IInv, Crawl
  <2>4. /\ posting' \in [Postings -> Row]
        /\ turnedDown' \subseteq Postings
        /\ RowInv'
        /\ \A p \in Postings : Handled(p) => Handled(p)'
    BY <1>3, RetentionFacts DEF IInv
  <2>5. TypeOK'
    BY <2>1, <2>2, <2>4, TypeParts, TypePartsNext DEF IInv
  <2>6. CrawlInv'
    BY <2>1, <2>3
       DEF IInv, CrawlInv, Parsed, Items, Understood, Parsing
  <2>7. ASSUME NEW tag, Known(tag)
        PROVE  Known(tag)'
    <3>1. Items(tag)' = Items(tag) /\ (Collectible(tag)' <=> Collectible(tag))
      BY <2>1 DEF Collectible, Parsed, Items, Understood, Parsing
    <3>2. Collectible(tag) => Items(tag) \in SUBSET Postings
      BY ItemsType DEF Collectible, Parsed
    <3>3. QED
      BY <2>4, <2>7, <3>1, <3>2 DEF Known
  <2>8. TagInv'
    BY <2>1, <2>3, <2>7 DEF IInv, TagInv, Items, Understood, Parsing
  <2>9. Known(config.tag)
    BY SkippedIsKnown DEF IInv
  <2>10. SkippedWasCollected'
    BY <2>1, <2>7, <2>9, SiteConstantsOK
       DEF SkippedWasCollected, Known, Handled, Collectible, Parsed, Items, Understood, Parsing
  <2>11. QED
    BY <2>4, <2>5, <2>6, <2>8, <2>10 DEF IInv
<1>4. QED
  BY <1>1, <1>2, <1>3

LEMMA NextInv == IInv /\ [Next]_vars => IInv'
<1> SUFFICES ASSUME IInv, [Next]_vars PROVE IInv'
  OBVIOUS
<1>1. Transient \cup Permanent \subseteq Errors
  BY DEF Errors
<1>2. CASE Proceed
  BY <1>1, <1>2, PrepareInv, ReceiveInv, NotModifiedInv, RequestFailsInv,
     ParseInv, FinishInv, FailuresInv DEF Proceed
<1>3. QED
  BY <1>2, BeginInv, FailuresInv, EnvironmentInv DEF Next

-----------------------------------------------------------------------------
(* The theorems. *)

\* What a crawl holds is what it has read of the site, and nothing before it
\* has read it; a tag stands for a page that has been collected or is about
\* to be recorded.
THEOREM Invariance == Spec => []IInv
<1>1. QED
  BY InitInv, NextInv, PTL DEF Spec

\* Every variable stays in its type: attempts below the limit, misses up to
\* the number that closes a posting.
THEOREM TypeCorrect == Spec => []TypeOK
<1>1. IInv => TypeOK
  BY DEF IInv
<1>2. QED
  BY <1>1, Invariance, PTL

\* Whatever a 304 answer makes a crawl skip has been recorded: it is in the
\* table, or was turned down by the keywords, or has been deleted for its age.
THEOREM NothingSkipped == Spec => []SkippedWasCollected
<1>1. IInv => SkippedWasCollected
  BY DEF IInv
<1>2. QED
  BY <1>1, Invariance, PTL

\* A crawl that has read no list counts against no posting while there is a
\* successful run with postings to compare with.
THEOREM UnreadIsHarmless == Spec => UnreadListClosesNothing
<1> DEFINE Harmless ==
      \A p \in Postings :
        posting'[p].missing > posting[p].missing =>
            \/ Reads(crawl.page) /\ p \notin Items(crawl.page)
            \/ baseline \in {None, 0}
<1>1. IInv /\ [Next]_vars => [Harmless]_vars
  <2> SUFFICES ASSUME IInv, Next PROVE Harmless
    OBVIOUS
  <2>1. CASE Finish \/ FinishUnanswered
    <3>1. crawl.pc = "finishing" /\ SaveResult /\ UNCHANGED crawler
      BY <2>1 DEF Finish, FinishUnanswered, At, deployment
    <3>2. QED
      BY <3>1, SaveFacts
  <2>2. CASE UNCHANGED posting
    <3>1. ASSUME NEW p \in Postings
          PROVE  ~(posting'[p].missing > posting[p].missing)
      <4>1. posting[p].missing \in Int
        BY TypeParts DEF IInv, Row
      <4>2. QED
        BY <2>2, <4>1
    <3>2. QED
      BY <3>1
  <2>3. CASE Retain
    <3>1. ASSUME NEW p \in Postings
          PROVE  ~(posting'[p].missing > posting[p].missing)
      <4>1. posting[p].missing \in 0..CloseAfter /\ Unseen.missing = 0
        BY TypeParts DEF IInv, Row, Unseen
      <4>2. posting'[p] \in {posting[p], Unseen}
        BY <2>3, RetentionFacts DEF IInv
      <4>3. QED
        BY <4>1, <4>2, SiteConstantsOK
    <3>2. QED
      BY <3>1
  <2>4. QED
    BY <2>1, <2>2, <2>3
       DEF Next, Proceed, Begin, Prepare, Receive, NotModified, RequestFails,
           RequestRefused, Parse, FinishRaises, MarkFailed, Crash, SiteChanges,
           AdminSave, stored, table
<1>2. QED
  BY <1>1, Invariance, PTL DEF Spec, UnreadListClosesNothing

-----------------------------------------------------------------------------
(* The refinement of SourceListing. *)

LEMMA ShownFacts ==
    ASSUME NEW row \in Row
    PROVE  /\ ~row.known => Shown(row) = Listing!Unlisted
           /\ row.known /\ row.open => Shown(row) = Listing!Open(row.missing)
           /\ row.known /\ ~row.open => Shown(row) = Listing!Closed
BY DEF Shown, Row, Listing!Unlisted, Listing!Open, Listing!Closed

LEMMA ListingMissed ==
    ASSUME NEW n \in Nat
    PROVE  /\ n + 1 < CloseAfter => Listing!Missed(Listing!Open(n)) = Listing!Open(n + 1)
           /\ ~(n + 1 < CloseAfter) => Listing!Missed(Listing!Open(n)) = Listing!Closed
<1> DEFINE l == Listing!Open(n)
<1>1. l.state = "open" /\ l.missed = n
  BY DEF Listing!Open
<1>2. CloseAfter \in Nat
  BY SiteConstantsOK
<1> HIDE DEF l
<1>3. n + 1 < CloseAfter => Listing!Missed(l) = Listing!Open(n + 1)
  BY <1>1, <1>2 DEF Listing!Missed
<1>4. ~(n + 1 < CloseAfter) => Listing!Missed(l) = Listing!Closed
  BY <1>1, <1>2 DEF Listing!Missed
<1>5. QED
  BY <1>3, <1>4 DEF l

\* A list that names a posting, and a complete one that does not.
LEMMA ListedFacts ==
    ASSUME NEW row \in Row, row.open => row.missing < CloseAfter
    PROVE  /\ Shown(Listed(row)) = Listing!Open(0)
           /\ Shown(Missed(row)) = Listing!Missed(Shown(row))
<1> USE SiteConstantsOK
<1>1. Shown(Listed(row)) = Listing!Open(0)
  BY DEF Listed, Shown, Listing!Open
<1>2. Shown(Missed(row)) = Listing!Missed(Shown(row))
  <2>1. CASE ~row.open
    <3>1. Missed(row) = row
      BY <2>1 DEF Missed
    <3>2. Shown(row) \in {Listing!Unlisted, Listing!Closed}
      BY <2>1, ShownFacts DEF Row
    <3>3. Listing!Missed(Shown(row)) = Shown(row)
      BY <3>2 DEF Listing!Missed, Listing!Unlisted, Listing!Closed
    <3>4. QED
      BY <3>1, <3>3
  <2>2. CASE row.open
    <3> DEFINE new == [row EXCEPT !.missing = row.missing + 1,
                                  !.open = row.missing + 1 < CloseAfter]
    <3>1. Missed(row) = new
      BY <2>2 DEF Missed, Row
    <3>2. /\ row.missing + 1 \in 0..CloseAfter
          /\ (row.missing + 1 < CloseAfter) \in BOOLEAN
      BY <2>2 DEF Row
    <3>3. /\ new \in Row
          /\ new.known = row.known
          /\ new.open = (row.missing + 1 < CloseAfter)
          /\ new.missing = row.missing + 1
      BY <3>2 DEF Row
    <3> HIDE DEF new
    <3>4. CASE ~row.known
      <4>1. Shown(new) = Listing!Unlisted /\ Shown(row) = Listing!Unlisted
        BY <3>3, <3>4, ShownFacts
      <4>2. Listing!Missed(Listing!Unlisted) = Listing!Unlisted
        BY DEF Listing!Missed, Listing!Unlisted
      <4>3. QED
        BY <3>1, <4>1, <4>2
    <3>5. CASE row.known
      <4>1. Shown(row) = Listing!Open(row.missing)
        BY <2>2, <3>5, ShownFacts
      <4>2. CASE row.missing + 1 < CloseAfter
        <5>1. Shown(new) = Listing!Open(row.missing + 1)
          BY <3>3, <3>5, <4>2, ShownFacts
        <5>2. Listing!Missed(Listing!Open(row.missing)) = Listing!Open(row.missing + 1)
          BY <4>2, ListingMissed DEF Row
        <5>3. QED
          BY <3>1, <4>1, <5>1, <5>2
      <4>3. CASE ~(row.missing + 1 < CloseAfter)
        <5>1. Shown(new) = Listing!Closed
          BY <3>3, <3>5, <4>3, ShownFacts
        <5>2. Listing!Missed(Listing!Open(row.missing)) = Listing!Closed
          BY <4>3, ListingMissed DEF Row
        <5>3. QED
          BY <3>1, <4>1, <5>1, <5>2
      <4>4. QED
        BY <4>2, <4>3
    <3>6. QED
      BY <3>4, <3>5
  <2>3. QED
    BY <2>1, <2>2 DEF Row
<1>3. QED
  BY <1>1, <1>2

\* What is recorded is a list, also if the commit is not answered.
LEMMA SaveLists ==
    ASSUME IInv, SaveResult
    PROVE  Listing!Next
<1> DEFINE complete == ~(Dropped(Cardinality(crawl.items)) \/ crawl.error # "none")
           items == crawl.items
<1>1. PICK wanted \in SUBSET items : posting' = Collected(items, wanted, complete)
  BY DEF SaveResult
<1>2. /\ items \in SUBSET Postings
      /\ wanted \in SUBSET items
      /\ posting \in [Postings -> Row]
      /\ complete \in BOOLEAN
  BY <1>1, TypeParts, CrawlFields DEF IInv
<1> HIDE DEF complete, items
<1>3. ASSUME NEW p \in Postings
      PROVE  Life'[p] = IF p \in wanted THEN Listing!Open(0)
                        ELSE IF p \in items THEN Listing!Unlisted
                        ELSE IF complete THEN Listing!Missed(Life[p])
                        ELSE Life[p]
  <2>1. Life[p] = Shown(posting[p]) /\ Life'[p] = Shown(posting'[p])
    BY DEF Life
  <2>2. posting[p] \in Row /\ (posting[p].open => posting[p].missing < CloseAfter)
    BY <1>2 DEF IInv, RowInv
  <2>3. posting'[p] = IF p \in wanted THEN Listed(posting[p])
                      ELSE IF p \in items THEN Unseen
                      ELSE IF complete THEN Missed(posting[p])
                      ELSE posting[p]
    BY <1>1 DEF Collected
  <2>4. /\ Shown(Listed(posting[p])) = Listing!Open(0)
        /\ Shown(Missed(posting[p])) = Listing!Missed(Shown(posting[p]))
    BY <2>2, ListedFacts
  <2>5. Shown(Unseen) = Listing!Unlisted
    BY DEF Shown, Unseen, Listing!Unlisted
  <2>6. QED
    BY <2>1, <2>3, <2>4, <2>5
<1>4. Listing!List(items, wanted, complete)
  <2>1. Life' = [p \in Postings |-> Life'[p]]
    BY DEF Life
  <2>2. Life' = [p \in Postings |->
                   CASE p \in wanted -> Listing!Open(0)
                     [] p \in items \ wanted -> Listing!Unlisted
                     [] p \notin items /\ complete -> Listing!Missed(Life[p])
                     [] OTHER -> Life[p]]
    BY <1>2, <1>3, <2>1
  <2>3. QED
    BY <2>2 DEF Listing!List
<1>5. QED
  BY <1>1, <1>2, <1>4 DEF Listing!Next

\* The retention takes rows away.
LEMMA RetainLists ==
    ASSUME IInv, Retain
    PROVE  Listing!Next
<1>1. PICK old \in SUBSET {p \in Postings : posting[p].known} :
        posting' = [p \in Postings |-> IF p \in old THEN Unseen ELSE posting[p]]
  BY DEF Retain
<1>2. old \in SUBSET Postings
  BY <1>1
<1>3. Shown(Unseen) = Listing!Unlisted
  BY DEF Shown, Unseen, Listing!Unlisted
<1>4. ASSUME NEW p \in Postings
      PROVE  Life'[p] = IF p \in old THEN Listing!Unlisted ELSE Life[p]
  BY <1>1, <1>3 DEF Life
<1>5. Life' = [p \in Postings |->
                 CASE p \in old -> Listing!Unlisted
                   [] p \in {} \ old -> Listing!Stripped
                   [] OTHER -> Life[p]]
  <2>1. Life' = [p \in Postings |-> Life'[p]]
    BY DEF Life
  <2>2. QED
    BY <1>4, <2>1
<1>6. Listing!Retain(old, {})
  BY <1>5 DEF Listing!Retain
<1>7. QED
  BY <1>2, <1>6 DEF Listing!Next

LEMMA ListingStep == IInv /\ [Next]_vars => [Listing!Next]_Life
<1> SUFFICES ASSUME IInv, [Next]_vars PROVE [Listing!Next]_Life
  OBVIOUS
<1>1. CASE Finish \/ FinishUnanswered
  BY <1>1, SaveLists DEF Finish, FinishUnanswered
<1>2. CASE UNCHANGED posting
  BY <1>2 DEF Life
<1>3. CASE Retain
  BY <1>3, RetainLists
<1>4. QED
  BY <1>1, <1>2, <1>3
     DEF Next, Proceed, Begin, Prepare, Receive, NotModified, RequestFails,
         RequestRefused, Parse, FinishRaises, MarkFailed, Crash, SiteChanges,
         AdminSave, stored, table, vars

\* The crawls of a source implement the listing: whatever becomes of a crawl,
\* the table changes by whole lists, and by the retention's deletions.
THEOREM Implements == Spec => FollowsListing
<1>1. Init => Listing!Init
  <2>1. ASSUME Init
        PROVE  Listing!Init
    <3>1. posting = [p \in Postings |-> Unseen]
      BY <2>1 DEF Init
    <3>2. Shown(Unseen) = Listing!Unlisted
      BY DEF Shown, Unseen, Listing!Unlisted
    <3>3. QED
      BY <3>1, <3>2 DEF Listing!Init, Life
  <2>2. QED
    BY <2>1
<1>2. QED
  BY <1>1, Invariance, ListingStep, PTL DEF Spec, FollowsListing, Listing!Spec

=============================================================================
