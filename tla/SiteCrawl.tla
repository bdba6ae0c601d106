------------------------------- MODULE SiteCrawl -------------------------------
(***************************************************************************)
(* What happens to one source inside one crawl after another: the request  *)
(* with its retries (HttpClient of src/app/crawlers/http.py), the five     *)
(* crawlers (src/app/crawlers/), the template that turns their errors into *)
(* a partial result (BaseCrawler.run), the conditional requests whose tags *)
(* are kept in sources.config, and the judgement of the result against the *)
(* last successful run (CrawlExecutionService._finish_run).                *)
(*                                                                         *)
(* CrawlExecution models how crawls of one source exclude each other, and  *)
(* leaves the result of a crawl open.  Here one crawl runs at a time and   *)
(* its result is computed from what the site shows.  Every crawler reads   *)
(* a single page of its site.                                              *)
(***************************************************************************)
EXTENDS Integers, FiniteSets

CONSTANTS
    Crawlers,     \* the crawlers a source may name, of Registered
    Postings,     \* ids of table job_postings
    Pages,        \* what the list page of the site may be
    Tagged,       \* those of them that come with an ETag
    NoPage,       \* nothing has been read
    Absent,       \* config has no "_http_cache"
    NoTag,        \* ... or one without an ETag for the list page
    None,         \* no successful run
    Attempts,     \* stop_after_attempt in HttpClient.get
    DropPercent,  \* settings.collection_drop_ratio, in percent
    CloseAfter    \* missing runs that close a posting

Registered == {"linkareer", "kofia", "alio", "inthiswork", "msit"}

\* What a record of a list may have that a crawler looks at; an "activity"
\* is a title that says it is not a job.
Fields == {"id", "title", "url", "company", "activity"}

\* A "list" has the form the crawlers expect, in a "broken" one a record
\* holds an address or a time that cannot be converted, a "bare" document
\* lacks the list within the expected frame, a "foreign" one is something
\* else: another document, an error message, no JSON.
Kinds == {"list", "broken", "bare", "foreign"}

Record == [posting : Postings, has : SUBSET Fields]

ASSUME SiteConstantsOK ==
    /\ Crawlers \subseteq Registered
    /\ Crawlers # {}
    /\ Pages \subseteq [kind : Kinds, records : SUBSET Record]
    /\ Pages # {}
    /\ Tagged \subseteq Pages
    /\ {NoPage, Absent, NoTag} \cap Pages = {}
    /\ Absent # NoTag
    /\ None \notin Nat
    /\ IsFiniteSet(Postings)
    /\ {Attempts, CloseAfter} \subseteq Nat \ {0}
    /\ DropPercent \in 0..100

VARIABLES
    crawler,   \* sources.crawler_key
    keyed,     \* whether the service key of the MSIT interface is configured
    site,      \* the list page of the site as it is now
    config,    \* sources.config: whether its values can be used, and its tag
    baseline,  \* items of the latest SUCCESS among the runs kept, or None
    posting,   \* table job_postings, of this source
    turnedDown,\* history: postings that have been listed and are not in the
               \* table, because no keyword wanted them or they were too old
    crawl,     \* the crawl under way
    run        \* the latest row of crawl_runs

vars == <<crawler, keyed, site, config, baseline, posting, turnedDown, crawl, run>>

deployment == <<crawler, keyed>>
table == <<posting, turnedDown>>
stored == <<config, baseline, table, run>>

Unseen == [known |-> FALSE, open |-> FALSE, missing |-> 0]

Idle == [pc |-> "idle", config |-> [valid |-> TRUE, tag |-> Absent],
         attempts |-> 0, page |-> NoPage, items |-> {}, error |-> "none",
         recorded |-> FALSE, before |-> None]

-----------------------------------------------------------------------------
(* The five crawlers.  Of each: whether fetch sends the tag it kept, reads  *)
(* settings that can be wrong and needs a key; and the documents that parse *)
(* refuses with an exception, the documents in which it finds nothing       *)
(* without saying so, and what a record must and must not have.             *)

Fetch(conditional, settings, key) ==
    [conditional |-> conditional, settings |-> settings, key |-> key]

LinkareerFetch  == Fetch(TRUE, FALSE, FALSE)
KofiaFetch      == Fetch(FALSE, FALSE, FALSE)
AlioFetch       == Fetch(FALSE, TRUE, FALSE)
InThisWorkFetch == Fetch(FALSE, TRUE, FALSE)
MsitFetch       == Fetch(FALSE, TRUE, TRUE)

\* The first JSON-LD block that is an ItemList.
LinkareerParse ==
    [raises |-> {"broken"}, blank |-> {"bare", "foreign"},
     needs |-> {"title", "url"}, drops |-> {"activity"}]

\* The rows of the table with the right caption.
KofiaParse ==
    [raises |-> {"broken"}, blank |-> {"bare", "foreign"},
     needs |-> {"id", "title", "company"}, drops |-> {}]

\* data.result; a missing result is an empty one.
AlioParse ==
    [raises |-> {"foreign"}, blank |-> {"bare"},
     needs |-> {"id", "title", "url"}, drops |-> {}]

\* The document is the list.
InThisWorkParse ==
    [raises |-> {"bare", "foreign"}, blank |-> {},
     needs |-> {"id", "title", "url"}, drops |-> {}]

\* response.body.items, after the error codes of the gateway and of the
\* service; missing items are none.
MsitParse ==
    [raises |-> {"foreign"}, blank |-> {"bare"},
     needs |-> {"title", "url"}, drops |-> {}]

Fetches == [linkareer |-> LinkareerFetch, kofia |-> KofiaFetch,
            alio |-> AlioFetch, inthiswork |-> InThisWorkFetch,
            msit |-> MsitFetch]

Parses == [linkareer |-> LinkareerParse, kofia |-> KofiaParse,
           alio |-> AlioParse, inthiswork |-> InThisWorkParse,
           msit |-> MsitParse]

Fetching == Fetches[crawler]
Parsing == Parses[crawler]

Understood(record) ==
    /\ Parsing.needs \subseteq record.has
    /\ Parsing.drops \cap record.has = {}

\* What parse returns for a page, if it returns: records it cannot use are
\* skipped without a word.
Items(page) ==
    IF page.kind \in Parsing.blank THEN {}
    ELSE {r.posting : r \in {q \in page.records : Understood(q)}}

Init ==
    /\ crawler \in Crawlers
    /\ keyed \in BOOLEAN
    /\ ~keyed => Fetching.key  \* the others do not look at it
    /\ site \in Pages
    /\ config = [valid |-> TRUE, tag |-> Absent]
    /\ baseline = None
    /\ posting = [p \in Postings |-> Unseen]
    /\ turnedDown = {}
    /\ crawl = Idle
    /\ run = [status |-> "none", error |-> "none"]

-----------------------------------------------------------------------------
(* One crawl. *)

At(pc) == crawl.pc = pc

\* _start_run inserts the row and hands the crawl a copy of the configuration.
Begin ==
    /\ At("idle")
    /\ run' = [status |-> "running", error |-> "none"]
    /\ crawl' = [Idle EXCEPT !.pc = "preparing", !.config = config]
    /\ UNCHANGED <<deployment, site, config, baseline, table>>

\* with_runtime_credentials raises out of the crawl if the key is missing;
\* settings that are no numbers raise in fetch, inside BaseCrawler.run.
Prepare ==
    /\ At("preparing")
    /\ \/ /\ Fetching.key /\ ~keyed
          /\ crawl' = [crawl EXCEPT !.pc = "failing", !.error = "credential"]
       \/ /\ ~(Fetching.key /\ ~keyed)
          /\ Fetching.settings /\ ~crawl.config.valid
          /\ crawl' = [crawl EXCEPT !.pc = "finishing", !.error = "schema"]
       \/ /\ ~(Fetching.key /\ ~keyed)
          /\ ~(Fetching.settings /\ ~crawl.config.valid)
          /\ crawl' = [crawl EXCEPT !.pc = "requesting"]
    /\ UNCHANGED <<deployment, site, stored>>

\* The request carries If-None-Match and the site has nothing else to show.
Unmodified ==
    /\ Fetching.conditional
    /\ crawl.config.tag = site
    /\ site \in Tagged

TagOf(page) == IF page \in Tagged THEN page ELSE NoTag

\* The crawler works on a copy of the copy that _start_run made.  An existing
\* "_http_cache" is the same dictionary in both; one that setdefault makes is
\* seen in neither the first copy nor the table.
Remembered(c, page) ==
    IF Fetching.conditional /\ c.tag # Absent
    THEN [c EXCEPT !.tag = TagOf(page)]
    ELSE c

\* 200: a site may also answer so to a conditional request.
Receive ==
    /\ At("requesting")
    /\ crawl' = [crawl EXCEPT !.pc = "parsing", !.page = site,
                              !.config = Remembered(@, site)]
    /\ UNCHANGED <<deployment, site, stored>>

\* 304: no page, and no error.
NotModified ==
    /\ At("requesting")
    /\ Unmodified
    /\ crawl' = [crawl EXCEPT !.pc = "finishing"]
    /\ UNCHANGED <<deployment, site, stored>>

\* 429, 5xx, and timeouts and broken connections.
Transient == {"rate_limit", "unavailable", "transport"}

\* 401 and 403, other 4xx, a body above the limit, anything else httpx raises.
Permanent == {"forbidden", "refused", "too_large", "other"}

\* mutant of Counted: after the last attempt the counter starts over
CountedAgain(n) == (n + 1) % Attempts

Counted(n) == n + 1

\* Retrying: up to Attempts requests, then the last exception is raised again
\* and BaseCrawler.run makes it a partial result.
RequestFails(error) ==
    /\ At("requesting")
    /\ error \in Transient
    /\ LET n == Counted(crawl.attempts) IN
        crawl' = IF n < Attempts
                 THEN [crawl EXCEPT !.attempts = n]
                 ELSE [crawl EXCEPT !.pc = "finishing", !.error = error]
    /\ UNCHANGED <<deployment, site, stored>>

RequestRefused(error) ==
    /\ At("requesting")
    /\ error \in Permanent
    /\ crawl' = [crawl EXCEPT !.pc = "finishing", !.error = error]
    /\ UNCHANGED <<deployment, site, stored>>

\* BaseCrawler.run: a page that parse refuses adds an error and no items.
Parse ==
    /\ At("parsing")
    /\ \/ /\ crawl.page.kind \in Parsing.raises
          /\ crawl' = [crawl EXCEPT !.pc = "finishing", !.error = "schema"]
       \/ /\ crawl.page.kind \notin Parsing.raises
          /\ crawl' = [crawl EXCEPT !.pc = "finishing", !.items = Items(crawl.page)]
    /\ UNCHANGED <<deployment, site, stored>>

-----------------------------------------------------------------------------
(* The result is recorded. *)

\* mutant of Dropped: a list without any posting is not compared
DroppedUnlessEmpty(n) ==
    /\ baseline # None /\ n > 0 /\ baseline > n
    /\ 100 * (baseline - n) >= baseline * DropPercent

Dropped(n) ==
    /\ baseline # None
    /\ baseline > n
    /\ 100 * (baseline - n) >= baseline * DropPercent

\* mutant of Listed: a posting that is listed again keeps its misses
ListedOn(row) == [row EXCEPT !.known = TRUE, !.open = TRUE]

\* CollectorService.collect, for a posting that the keywords want: its row is
\* made, or found and opened.
Listed(row) == [known |-> TRUE, open |-> TRUE, missing |-> 0]

\* mutant of Missed: closed postings are counted on
MissedOn(row) ==
    [row EXCEPT !.missing = @ + 1, !.open = row.missing + 1 < CloseAfter]

\* close_missing counts open postings only.
Missed(row) ==
    IF ~row.open THEN row
    ELSE [row EXCEPT !.missing = @ + 1, !.open = row.missing + 1 < CloseAfter]

\* A posting that they do not want is not kept, and deleted if it was.
Collected(items, wanted, complete) ==
    [p \in Postings |-> IF p \in wanted THEN Listed(posting[p])
                        ELSE IF p \in items THEN Unseen
                        ELSE IF complete THEN Missed(posting[p])
                        ELSE posting[p]]

\* What _finish_run commits: a drop takes precedence over an error, and every
\* error that BaseCrawler.run has caught is a parser error.  Which postings
\* the keywords want at this moment is left open.
SaveResult ==
    LET n == Cardinality(crawl.items)
        dropped == Dropped(n)
        partial == dropped \/ crawl.error # "none"
    IN /\ run' = [status |-> IF partial THEN "partial" ELSE "success",
                  error |-> IF dropped THEN "collection_drop"
                            ELSE IF partial THEN "parser" ELSE "none"]
       /\ \E wanted \in SUBSET crawl.items :
            /\ posting' = Collected(crawl.items, wanted, ~partial)
            /\ turnedDown' = (turnedDown \ wanted) \cup (crawl.items \ wanted)
       /\ baseline' = IF partial THEN baseline ELSE n
       /\ config' = crawl.config

Finish ==
    /\ At("finishing")
    /\ SaveResult
    /\ crawl' = Idle
    /\ UNCHANGED <<deployment, site>>

\* The commit takes effect but its answer is lost: it raises.
FinishUnanswered ==
    /\ At("finishing")
    /\ SaveResult
    /\ crawl' = [crawl EXCEPT !.pc = "failing", !.error = "other",
                              !.recorded = TRUE, !.before = baseline]
    /\ UNCHANGED <<deployment, site>>

\* The collector or the database raises, and the transaction is rolled back.
FinishRaises ==
    /\ At("finishing")
    /\ \E error \in {"schema", "other"} :
         crawl' = [crawl EXCEPT !.pc = "failing", !.error = error]
    /\ UNCHANGED <<deployment, site, stored>>

\* classify_crawl_error.
Classified(error) ==
    CASE error = "rate_limit" -> "rate_limit"
      [] error \in {"credential", "forbidden"} -> "authentication"
      [] error \in {"unavailable", "transport", "refused", "too_large"} -> "network"
      [] error = "schema" -> "schema"
      [] OTHER -> "unknown"

\* mutant of FailedConfig: the configuration is saved as after a success
FailedConfigSaved(c) == crawl.config

\* _mark_failed leaves the configuration alone.
FailedConfig(c) == c

\* _mark_failed.  A run that was recorded in spite of the error is rewritten,
\* and is no baseline any more.
MarkFailed ==
    /\ At("failing")
    /\ run' = [status |-> "failed", error |-> Classified(crawl.error)]
    /\ config' = FailedConfig(config)
    /\ baseline' = IF crawl.recorded THEN crawl.before ELSE baseline
    /\ crawl' = Idle
    /\ UNCHANGED <<deployment, site, table>>

-----------------------------------------------------------------------------
(* The environment. *)

\* The process dies, or the database refuses _mark_failed too.
Crash ==
    /\ ~At("idle")
    /\ crawl' = Idle
    /\ UNCHANGED <<deployment, site, stored>>

SiteChanges ==
    /\ site' \in Pages \ {site}
    /\ UNCHANGED <<deployment, stored, crawl>>

\* The form shows the configuration as JSON, tag included, and saves what the
\* administrator has made of it.  What this crawler does not read is left out.
AdminSave ==
    /\ \E valid \in BOOLEAN, tag \in {Absent, NoTag, config.tag} :
         /\ valid # config.valid => Fetching.settings
         /\ tag # config.tag => Fetching.conditional
         /\ config' = [valid |-> valid, tag |-> tag]
    /\ config' # config
    /\ UNCHANGED <<deployment, site, baseline, table, crawl, run>>

\* The daily retention deletes postings whose deadline is over, and runs that
\* are thirty days old.  The latest SUCCESS is among them if none has
\* succeeded since.
Retain ==
    /\ \E old \in SUBSET {p \in Postings : posting[p].known} :
         /\ posting' = [p \in Postings |-> IF p \in old THEN Unseen ELSE posting[p]]
         /\ turnedDown' = turnedDown \cup old
    /\ \/ UNCHANGED <<baseline, crawl>>
       \/ /\ ~crawl.recorded
          /\ baseline' = None
          /\ UNCHANGED crawl
       \/ /\ crawl' = [crawl EXCEPT !.before = None]
          /\ UNCHANGED baseline
    /\ UNCHANGED <<deployment, site, config, run>>

-----------------------------------------------------------------------------

Proceed ==
    \/ Prepare
    \/ Receive
    \/ NotModified
    \/ \E error \in Transient : RequestFails(error)
    \/ \E error \in Permanent : RequestRefused(error)
    \/ Parse
    \/ Finish
    \/ FinishUnanswered
    \/ FinishRaises
    \/ MarkFailed

Next == Begin \/ Proceed \/ Crash \/ SiteChanges \/ AdminSave \/ Retain

Spec == Init /\ [][Next]_vars

\* Requests have timeouts, so a crawl that has begun goes on.  Nothing makes
\* anybody begin one.
FairSpec == Spec /\ WF_vars(Proceed)

-----------------------------------------------------------------------------
(* Properties. *)

Tags == Tagged \cup {Absent, NoTag}

Errors == {"none", "credential", "schema"} \cup Transient \cup Permanent

TypeOK ==
    /\ crawler \in Crawlers
    /\ keyed \in BOOLEAN
    /\ site \in Pages
    /\ config \in [valid : BOOLEAN, tag : Tags]
    /\ baseline \in Nat \cup {None}
    /\ posting \in [Postings -> [known : BOOLEAN, open : BOOLEAN,
                                 missing : 0..CloseAfter]]
    /\ turnedDown \subseteq Postings
    /\ crawl \in [pc : {"idle", "preparing", "requesting", "parsing",
                        "finishing", "failing"},
                  config : [valid : BOOLEAN, tag : Tags],
                  attempts : 0..(Attempts - 1),
                  page : Pages \cup {NoPage},
                  items : SUBSET Postings,
                  error : Errors,
                  recorded : BOOLEAN,
                  before : Nat \cup {None}]
    /\ run \in [status : {"none", "running", "success", "partial", "failed"},
                error : {"none", "collection_drop", "parser", "rate_limit",
                         "authentication", "network", "schema", "unknown"}]

Reads(page) == page \in Pages /\ page.kind \notin Parsing.blank \cup Parsing.raises

\* A crawl that has read no list, because it was answered 304, because the
\* request failed, or because the document was not the list and the parser
\* did not notice, counts against no posting while there is a successful run
\* with postings to compare with.
UnreadListClosesNothing ==
    [][\A p \in Postings :
        posting'[p].missing > posting[p].missing =>
            \/ Reads(crawl.page) /\ p \notin Items(crawl.page)
            \/ baseline \in {None, 0}]_vars

\* A tag that is stored stands for a page that has been collected: whatever a
\* 304 answer makes the crawl skip is in the table, or was when it was
\* recorded turned down by the keywords, or has been deleted for its age.  So
\* it is also after crawls that failed or crashed between reading the page and
\* recording it, and after those whose recorded result became a failure.
SkippedWasCollected ==
    LET page == config.tag IN
    page \in Tagged /\ page.kind \notin Parsing.raises =>
        \A p \in Items(page) : posting[p].known \/ p \in turnedDown

\* A row as SourceListing sees it.  Its text is not modelled here.
Shown(row) ==
    [state |-> CASE ~row.known -> "absent"
                 [] row.known /\ row.open -> "open"
                 [] OTHER -> "closed",
     missed |-> IF row.known /\ row.open THEN row.missing ELSE 0]

Life == [p \in Postings |-> Shown(posting[p])]

Listing == INSTANCE SourceListing WITH Ids <- Postings, life <- Life

\* What the crawlers make of the site's pages reaches the table list by list:
\* of each list the postings that are wanted are open and have missed nothing,
\* the others are not kept, and those it lacks have missed one more if it is
\* complete.  No crawl leaves the table between two lists, however it ends,
\* and the retention only takes rows away.  A crawl without a page, because it
\* was answered 304 or the request failed, may count as a list of nothing:
\* UnreadListClosesNothing says when that list is complete.
FollowsListing == Listing!Spec

\* A crawl that has begun ends, whatever is retried, refused or not answered:
\* time and again none is under way.
CrawlEnds == []<>At("idle")

=============================================================================
