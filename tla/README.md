# Verification of jobRadar

jobRadar collects job postings from recruiting sites, keeps those that match
the administrator's keywords and tells the administrator of new ones through
KakaoTalk and Web Push. It is two processes over one PostgreSQL database: the
API (`app.main`, FastAPI: admin pages and JSON) and the worker
(`app.worker.main`, APScheduler). The processes never talk to each other:
everything they share is rows and locks of the database. That is where the
behaviour is that tests hardly reach, and what these modules are about.

Contents: [inventory](#inventory), [plan](#plan), [modules](#modules),
[runs](#runs), [disagreements](#disagreements-between-code-and-documentation),
[proofs](#proofs), [not modelled](#what-is-not-modelled).

## Inventory

| Component | State it keeps | Operations | Talks to |
|---|---|---|---|
| Crawl execution (`services/crawl_runner.py`, `core/locks.py`, `services/crawl_health.py`) | rows of `crawl_runs`; `is_active`, `consecutive_failures`, `config` of `sources`; an advisory lock per source | `run_source`: lock, RUNNING row, crawl, result or failure transaction, alert, unlock | crawler framework, collector, alert sender |
| Source administration (`services/admin.py`, admin pages) | `sources` | create, update, delete | the same rows as the crawls |
| Posting collector (`services/collector.py`, deduplicator, change detector, normalizer) | `job_postings`, `job_posting_revisions` | upsert, revise, match, close the missing; inside the crawl's result transaction | keyword matcher |
| Keyword matching (`services/keyword_matcher.py`, `keywords.py`) | `keywords`, `job_keyword_matches` | evaluate and replace the matches of a posting; keyword CRUD | collector, dispatcher |
| Notification dispatcher (`services/dispatcher.py`, `notification_runtime.py`) | `notifications` | select, queue, send with retries, record | channels, subscriptions, tokens |
| Channels (`notifications/kakao.py`, `webpush.py`) | an HTTP client | `send` | KakaoTalk, push services |
| Push subscriptions (`services/push_subscriptions.py`) | `push_subscriptions` | upsert; failure counting by the dispatcher | browsers |
| Kakao tokens (`services/kakao.py`, `notification_runtime.py`, the login callback in `api/web/admin.py`) | `oauth_tokens`, `app_settings.kakao_reauth` (the banner) | exchange, refresh on use, refresh daily, raise and lower the banner, send one notice | Kakao, both processes |
| Worker schedule (`worker/main.py`) | job store and thread pool of APScheduler | start, refresh every minute, run jobs | sources, everything above |
| Retention (`services/retention.py`) | none of its own | daily clean-up of five tables | postings, notifications, runs |
| Crawler framework (`crawlers/base.py`, `http.py`, `registry.py`, `sources.py`) | the attempts of one crawl; the tag of the last page in `sources.config` | `BaseCrawler.run`: fetch with retries, parse, turn errors into a partial result | sites, crawl execution |
| Site crawlers (`crawlers/linkareer.py`, `kofia.py`, `alio.py`, `inthiswork.py`, `datagokr_msit.py`) | none | `fetch`, `parse` | sites |
| Seed (`seed.py`, run by every deployment) | none | insert the default keywords that are missing | keywords |

The rest (login, configuration, logging, command line, migrations) keeps no
shared state; `PROJECT.json` lists every part with its status.

What is hard in it, and which property stands against it, is the list of hazards in
`PROJECT.json`, each at its line. In short:

* *Two processes, one row.* A manual crawl meets a scheduled one; a form meets
  the end of a crawl; two dispatches read the same pending rows; a list of
  postings is written while keywords are deleted and retention runs. Only the
  advisory lock, unique indexes and row locks keep them apart.
* *Read, work for minutes, write.* `_finish_run` writes columns of a source it
  loaded before collecting, a dispatch records rows it read before sending.
* *Stops in the middle.* A crash, a dead lock connection, a database error in
  the failure handler, a delivery without its commit, a commit without its answer, a
  refresh token that Kakao has replaced and nobody has stored.
* *Answers that are no answer.* 304, a document without the list, an error that
  became an empty result: none of them may be taken for a site without postings.
* *Counters and limits.* The circuit breaker, the failure limit of a
  subscription, the third miss of a posting, `max_instances` of a job, quiet
  hours across midnight.

What makes each component correct:

* crawl execution: one crawl of a source at a time, begun only while the source is on;
  every RUNNING row has one execution that will close it, and a closed row stands unless
  the answer to its commit was lost; the failure counter is the number of failures
  since a success last cleared it, and the breaker announces a streak once; only the administrator switches a source on; locks come back;
* collector: a posting is closed by three complete lists without it and by
  nothing else; revisions form a chain that ends in the row; matches are
  evidence about the present content, found with what the keyword said then; the
  reported counts are what happened;
* dispatcher: what is settled is never taken up again; SENT is earned; quiet
  hours are kept and what they defer is due when they end; the failure that reaches
  the limit takes a subscription out;
* schedule: no job overlaps itself; the count this rests on never leaks; a
  site is not visited sooner than its interval;
* tokens: a lost connection to KakaoTalk is shown, one that is good again lowers the
  banner, and the banner does not claim a notice that was never sent;
* a crawl: it ends; a list that was not read closes nothing; what a conditional
  request lets it skip has been collected or turned down.

## Plan

Done: `CrawlExecution`, `NotificationDispatcher`, `WorkerScheduler`,
`PostingCollection`, `KakaoTokens` and `SiteCrawl`; the abstract specifications
`SourceHealth` (implemented by `CrawlExecution`), `DeliveryLedger` (by
`NotificationDispatcher`) and `SourceListing` (by `PostingCollection` and by
`SiteCrawl`), each refinement checked by a run and proved; and a proof of every safety
property that a passing run checks ([below](#proofs)).

How the modules fit together. `CrawlExecution` leaves open what a crawl returns
and what the collector does; `SiteCrawl` computes the result of one crawl after
another, for one crawl at a time, which is what `ExclusiveCrawl` gives it; and
`PostingCollection` takes any list, complete or partial, and follows it query by
query. The two meet in `SourceListing`, which both implement: what a crawl makes of a page is
one list there, and so is what a collection commits. `WorkerScheduler` says when the worker begins a crawl, and
`NotificationDispatcher` what becomes of the postings. Each module models the
others by the least that it needs to know of them: `Collect`, `Recollect` and
`Discard` of `NotificationDispatcher` are `PostingCollection` and retention seen
from there, `Dispatch` and `Retain` of `PostingCollection` the reverse. Putting
two of them into one state space would multiply their states without a row that
both write in an order that the smaller models do not already leave open.

Left, in this order:

1. The connection pool as such (five connections and two in overflow per process, two
   per crawl). Its effect on a crawl, an exception after the pool's timeout, is in
   `CrawlExecution`; how many crawls it takes is not.
2. Splitting `Subscribe` into its read and its write.

Runs are bounded to one source, one posting, one endpoint and one thread per
process (two postings where a list is compared with another), since the
components exclude or interfere per source, per posting and per endpoint; what
does not depend on the number is left to the proofs.

## Modules

A step of every module is a database transaction, or the part of one before or
after a read or an outside call. A transaction of SQLAlchemy loads rows, works,
and writes at its flush only the columns that differ from what it loaded; the
modules keep what was loaded as a local (`loaded`, `read`, `claim`) and write
the same way.

### CrawlExecution (and CrawlExecutionProofs, CrawlHistoryProofs, MCCrawlExecution)

`CrawlExecutionService.run_source` in threads of both processes. `pc` and `exec`
are the program counter and the locals of each thread:

| pc | In the code | Actions |
|---|---|---|
| `idle` | | `BeginScheduled`, `BeginManual` (`_load_active_source`) |
| `loaded` | before `pg_try_advisory_lock` | `TryLock` |
| `refused` | `_record_skipped` | `RecordSkipped` |
| `locked` | `_start_run` | `StartRun` |
| `crawling` | `self.crawl(...)` | `CrawlReturns`, `CrawlRaises` |
| `finishing`, `committing` | `_finish_run`: its reads, its commit | `FinishRead`, `CollectRaises`, `FinishCommit` |
| `failing`, `marking` | `_mark_failed`: its reads, its commit | `FailRead`, `FailCommit`, `FailRaises` |
| `alerting` | `_send_operational_alert` | `SendAlert` |
| `releasing` | the `finally` block | `Release` |

`source` and `runs` are the two tables, `lock` the advisory locks. The environment
cuts lock connections (`LoseLockConnection`), kills a process (`Crash`), and the
administrator creates, updates and deletes sources. Deleting has two steps: the
ORM first loads the dependent rows, and a source that has any cannot be
deleted, because nulling their foreign key is refused. Retention deletes the runs
that are thirty days old (`RetainRuns`): no query sees those up to `aged` any
more, while `runs` still has what they said, so that the properties can go by the
whole history. A commit may take effect and raise, because its answer is lost: after
`_start_run` nobody knows of the RUNNING row, after `_finish_run` the handler rewrites the
result as FAILED, after `_mark_failed` no alert is sent.

`lost`, `breached`, `orphans`, `cleared` and `unanswered` are history: who lost a lock,
which sources that concerned, which runs were abandoned, which have been a
success, if only for a while, and which were committed without an answer.

`Health` is the refinement to `SourceHealth`, where a source is a counter, a switch and the
number of postings of its last success, and every crawl that ends is one step, `Succeed` or
`Fail`, against the record as it is at that moment; a success that was not answered is
both, one after the other. The code reads the counter, the
switch and the baseline at other moments than it writes them; the refinement says that it
makes no difference, as long as no lock is lost: from then on the record is `"unknown"`.

`OneDisableAlertPerStreak` speaks of sources that are still there: a deleted source takes
its runs along, and with them the success that lay between two announcements.

Abstracted: the update form is one step; trigger, timestamps, counters of items
other than those fetched and messages are left out; how old a run is is left open, so
retention may delete any oldest ones of which none is under way; the answers to the
commits of `_record_skipped` and of the administrator's forms arrive, as nothing follows
from them.

### NotificationDispatcher (and NotificationDispatcherProofs, MCNotificationDispatcher)

`NotificationDispatcher.dispatch` as the worker's daily job and as the
administrator's request, over `notifications` and `push_subscriptions`. `Assemble`
is `NotificationRuntime.dispatch` up to the dispatcher; then `Select` and
`Enqueue` are `_queue_new` and its commit, `ListDue`, `Attempt` and `Record` the
loop over the channels: read the due rows, call the channel, apply the result and
commit. `AttemptRaises` is the second use of a KakaoTalk channel, which has closed
its client. `job` holds the locals, `claim` the rows read and not locked. Around
them: crawls (`Collect`, `Recollect`), deletion of postings (`Discard`), retention
(`Retain`), browsers (`Subscribe`), the clock, and the other threads that push to the
same subscriptions: operational alerts and the notice of a lost KakaoTalk connection. Such
a `notice` reads the active subscriptions (`BeginNotice`), sends and reads those that failed
again (`PushNotice`), and commits what it made of that (`RecordNotice`), with anything in
between.

`Ledger` is the refinement to `DeliveryLedger`, in which there are only entries and
carriers: an entry is `"gone"` when its posting is deleted, a dispatch carries what
it has claimed, and the accepted and closed entries are the two history variables.
`DeliveryLedger` says what survives all the clocks, retries, quiet hours and crashes:
an entry is made once and never again after it was settled, is settled by a carrier
that has it, all or nothing, as sent only if it was accepted, and is forgotten only
if it was sent. It says as openly what is not promised, that an entry is carried by
one carrier, or once.

Time counts units of a day of `Day` units. `DispatchTime` bounds a dispatch,
`CrawlTime` how much older than its commit the `first_seen_at` of a posting may
be. Abstracted: payloads and messages; `notifications_enabled` (nothing makes a
dispatch begin); whether KakaoTalk takes part is a free choice; `Subscribe` is one
step.

### PostingCollection (and PostingCollectionProofs, MCPostingCollection)

`CollectorService.collect`, one query at a time: `Upsert` (`insert_if_absent`),
`Lock` (`get_by_identity`, the revision and `apply_seen`), `Match`
(`match_and_record` and what follows from it), `CloseMissing`, and `Commit` of the
surrounding `_finish_run`. `col` is the transaction: what it has written
(`rows` for the ids in `touched`, `match`) is visible to itself (`Row`) and to
others only after `Commit`; its reads of other tables see what is committed by
then. A posting that no keyword wants is `doomed`: its delete is pending until the next
flush, so that a list that names it again at once finds its row still in the way, and can
only fail if it is wanted now. `Fail` undoes it at any point; a blank title leaves no other way. The
administrator saves, rewords and deletes keywords, a deployment seeds them (`Seed`), retention
and a one-step dispatch run, days pass. Others wait for rows that the collection
has locked. Deleting a keyword has two steps: the ORM loads its matches, and if there
is one the database refuses the delete and nothing changes; `deleting` holds the
keywords for which it found none, whose matches committed since then go with them.

`Listing` is the refinement to `SourceListing`, where a posting is absent, open with
a number of misses, closed, or closed without its text, and one list takes all of them
to their next state in one step. All that a collection does on the way, its inserts, locks,
revisions, matches and deletes, maps to a stutter, and its commit to that step.

Abstracted: title, deadline and text are a content, `content_hash` tells contents
apart (the code hashes the first 2000 characters of the text); a keyword says a
wording, which is its term, kind, match mode and target fields, all of which may be changed
while its matches stay, and which wording is found in which content is a constant; a match
keeps the wording that it was found with, for the field and the snippet of its row; how
long ago something was closed or revised is left open, so retention may clear
any closed posting and drop any oldest revisions.

### SiteCrawl (and SiteCrawlProofs, MCSiteCrawl)

One source, one crawl after another, each computed from the list page that the site
shows: `site` is that page, `crawl` the crawl under way, `config` what is kept in
`sources.config`, `baseline` the items of the last SUCCESS among the runs kept.

| `crawl.pc` | In the code | Actions |
|---|---|---|
| `idle` | | `Begin` (`_start_run`) |
| `preparing` | `with_runtime_credentials`, the settings read by `fetch` | `Prepare` |
| `requesting` | `HttpClient.get` and its retries | `Receive`, `NotModified`, `RequestFails`, `RequestRefused` |
| `parsing` | `parse` inside `BaseCrawler.run` | `Parse` |
| `finishing` | `_finish_run` | `Finish`, `FinishUnanswered`, `FinishRaises` |
| `failing` | `_mark_failed` | `MarkFailed` |

A page is a kind of document (`Kinds`) with records of which a crawler looks at some
fields (`Fields`). Each of the five crawlers is a pair of records: what its
`fetch` sends and needs, which documents its `parse` refuses, which it takes for an
empty list without noticing, and what a record must and must not have. The choice of
the crawler, of pages and of the moments at which the site changes is free.
`Listing` is the refinement to `SourceListing`: `Finish` and `FinishUnanswered` are its
`List`, of all items of the page, of which those that the keywords want at that moment are kept, and
complete if the run is no partial one; `Retain` is its `Retain`, and everything else is a
stutter. `FinishUnanswered` is the commit that takes effect and raises, after which
`MarkFailed` rewrites the recorded run; `Retain` deletes postings whose deadline is over and
ages the baseline out; `turnedDown` is history: the postings that were listed and are
not in the table, because nobody wanted them or they have been deleted; `AdminSave` is
the form that shows the configuration, tag included, and saves what was made of it.

Abstracted: pages are one per source, as all five crawlers read one page; the waits
between requests; ETag and Last-Modified are one tag; which postings of a list the keywords want
is a free choice of each commit (`PostingCollection` has the keywords); exclusion
(`CrawlExecution`).

### KakaoTokens (and KakaoTokensProofs, MCKakaoTokens)

The row of `oauth_tokens` and the banner `app_settings.kakao_reauth`, used by the
daily job of the worker, by dispatches of both processes (`access_token`) and by the
callback of the administrator's login. `pc` and `job` are those of each session:

| pc | In the code | Actions |
|---|---|---|
| `idle` | `refresh_daily`, `access_token`: load the row | `FindNone`, `FindIllegible`, `Load` |
| `calling` | `KakaoOAuthClient.refresh` | `Refreshed`, `Refused`, `AnswerLost`, `DecryptFails` |
| `saving` | the new tokens, the banner lowered, the commit | `Save` |
| `failing` | `except KakaoOAuthError`: the banner raised | `Fail` |
| `noticing`, `noticed` | `_send_reauth_notice`: the push, then the banner written back | `NoNotice`, `SendNotice`, `RecordNotice` |

`Exchange` and `SaveGrant` are the callback. Kakao itself is external: `valid` are the
refresh tokens that it accepts and `issued` counts them; it may replace a refresh
token whenever it accepts it, revoke one at any time, and its answer may be lost after
it has acted. `job[d].banner` is the session's copy of the banner, which it
writes back as a whole. Abstracted: access tokens are fresh or not; the column
`last_error`, which nothing reads; a refresh that races with the creation of the
banner's row.

### WorkerScheduler (and WorkerSchedulerProofs, MCWorkerScheduler)

The worker's APScheduler: a timer per registered job, a queue and threads of the
pool, and the count of instances per job id that `max_instances=1` rests on.
`Submit` is the scheduler thread, `Run`, `Miss`, `Finish` the pool, `LoadSources` and
`SyncJobs` the two halves of `refresh_jobs`, which replaces the job of every active
source and so draws a new first gap. APScheduler itself is external and modelled as
configured here: `coalesce`, `max_instances=1`, the default misfire grace of one
second. The scheduler thread and the pool act at once when they can: `Tick` waits
for them. A unit is six seconds; jitter is drawn per run, at most a tenth of
the interval and 30 seconds.

## Runs

| Run | Shows | Bounds |
|---|---|---|
| `crawl_execution` | exclusion, ownership of rows, `OnlyAdminActivates`; `LockReturned`, `RunsEnd` under fairness | one source, one thread in each process, two runs ever, threshold 1, lists of one posting |
| `crawl_history` | the refinement `KeepsHealth`; the counter, the breaker's alert and the baseline against the history; `ClosedRunsStand` | the same with three runs, lists of 1 or 5 postings (5 to 1 is exactly a drop of 80%), and of everything that goes wrong one thing (`OneMishap`): one run that is cut short or not answered, or one lost lock; retention deletes one run |
| `dispatch` | the refinement `KeepsLedger`; `SentIsAcknowledged`, `QuietHoursKept`, `DeferredToQuietEnd`, `LimitDeactivates` | one posting, both channels, one endpoint, a dispatcher in each process, a day of 4 with the dispatch at 1 and quiet hours that have just ended (0 to 1) or span midnight and lie around it (3 to 2), two attempts, limit 2, clock to 2; one notice, which is pushed before the clock has moved, and counts of failures up to one above the limit (`EarlyNotices`), as renewals that cross notices could count for ever |
| `postings` | the refinement `FollowsListing`; `ClosedAfterMisses`, `RevisionChain`, `EvidenceCurrent`, `CountsAgree` | one posting, two contents of which one expires, two keywords that may say either of an including and an excluding wording, lists of up to two entries, closing after 3 misses, two days; the keywords are symmetric |
| `schedule` | `InstancesAccounted`, `OneInstance`, `CrawlSpacing`, absence of deadlock | one source due every minute, the refresh and one other job, two threads, restarts |
| `kakao_tokens` | `NotifiedMeansSent`; `LossIsShown`, `BannerClears` under fairness; absence of deadlock | the daily job and one dispatch of the API, the callback, two refresh tokens, crashes, changed keys |
| `site_crawl` | the refinement `FollowsListing`; `UnreadListClosesNothing`, `SkippedWasCollected`; `CrawlEnds` under fairness; absence of deadlock | all five crawlers, with and without their key, two postings, wanted or not, six pages of which four have a tag, two attempts, a drop of 80%, closing after 2 misses |

Each but `crawl_history` also checks its module's `TypeOK`. Why the bounds are enough:

* Locks, counters and rows are per source; interference needs two threads of
  different processes, and two threads of the worker never run one source. Two runs
  are an execution of each process with any errors, crashes and lost answers in both; three
  runs let a streak of failures pass the threshold, a baseline be followed by two
  results, and an orphan be followed by a crawl. With a threshold of 1 the breaker
  opens twice within them, with a success between, and a source that the administrator switches on
  without one fails past it; the two violations have a threshold of 2.
  That of three crawls only one meets a crash, a lost lock or a lost answer is a bound of
  `crawl_history`; errors that are answered are free in all three, and the proofs have no bound. Of three runs the first is
  the one whose loss as a baseline matters.
* A notice beside a dispatch of the administrator at the start of the clock is two that read one
  count and write it back; with a limit of 2 each can be the one that reaches it.
* Three days of four units would repeat what two units past the first dispatch
  show: the clock reaches the first dispatch and the lookback and retention
  limits around it. `Lookback + 2 * DispatchTime <= Keep` is assumed, and is
  needed: where the retention is shorter, a row that was delivered is deleted while
  its posting is still a candidate. In the deployment it is a day against ninety.
* `PostingCollection` has no bound on the number of collections: its state space is
  finite because a crawl begins only while a posting has fewer than
  `MaxRevisions` revisions, which retention takes away again.
* The shortest interval the form accepts is one minute, equal to the refresh
  period, so that both orders of a refresh and a crawl occur.
* Two refresh tokens are one that is replaced and its replacement: a loser of a race
  holds the first while the winner stores the second. No fairness is given to the
  callback, so that once Kakao has issued both, a lost connection may stay lost: that is
  the case in which the banner has to stay up.
* Of six pages, two are lists (of both postings and of one), one is a list whose records
  lack something, and three are of the other kinds; no crawler tells more of them apart.
  `SiteCrawl` has no bound on the number of crawls. Of two attempts one is tried again and one is
  the last; the code makes three.

`CHECK_DEADLOCK FALSE` is set where the model may stop at a bound (all runs used,
clock at its end, a system in which nobody need do anything); `schedule`,
`kakao_tokens` and `site_crawl` check for deadlock: something is always to be
waited for there.

Fairness. `crawl_execution` assumes weak fairness of the steps of an execution
that has begun: every HTTP request has a timeout, the number of pages is bounded and
statements end. It does not assume that anybody begins a crawl, nor anything of
failures and the administrator. `site_crawl` assumes the same of the steps of a
crawl (`Proceed`), not that one begins. `kakao_tokens` assumes weak fairness of the steps of
each session that has begun, as calls to Kakao have timeouts, and that the daily job
begins whenever it can, as its trigger recurs every day; nobody need dispatch or log
in. Both of its liveness properties speak of runs in which answers are lost and
processes crash only finitely often: a job that dies every day raises no
banner. `schedule_starved` assumes that time passes, the
scheduler thread runs and jobs end; even so the source is never crawled.

### Disagreements between code and documentation

Each is a run that TLC ends with a counterexample; the documents are quoted
in `PROJECT.json`.

| Run | What the documentation says | What the code does |
|---|---|---|
| `breaker_reopened` | a source with five or more consecutive failures is disabled | compares with `==`: switched on again without a success, the source fails on and is never disabled |
| `config_overwritten` | only collection state is copied into the configuration | the end of a crawl writes the whole configuration it started with over the administrator's newer one |
| `dispatch_twice` | the unique index alone guarantees that a posting is not sent twice on a channel | the delivery comes before its commit and due rows are not locked: a crash or two dispatches at once send it twice |
| `kakao_retry` | a refused message is tried three times and then recorded as FAILED | the channel has closed its client after the first try: the retry raises and ends the dispatch |
| `schedule_starved` | the worker crawls on its own, cycle after cycle | the refresh replaces each job every 60 seconds and thereby restarts its interval: a source with a longer interval is never due |

Also met, without a run:

* §8.3 of the design document (세부기획서.md) announces an alert after three failures with a cooldown of
  six hours, the code alerts at the threshold only.
* A posting that is deleted because a list was read while no keyword wanted it
  (`collector.py:71`), or by retention (`retention.py:38`), is new when it is listed again and is
  notified again; 세부기획서.md:100 promises one notification per posting. The
  ledger says so too: an entry that is gone is out of its sight.
* A posting that was turned down because no keyword wanted it, or that retention has deleted,
  stays absent as long as the page answers 304: a keyword that is added later finds it only
  once the page changes. `SkippedWasCollected` says so.
* A keyword that is reworded keeps its matches until a list names their postings again
  (`keywords.py:61`), and the dispatcher goes by them meanwhile. `EvidenceCurrent` speaks of
  what the keyword said when it was found.
* Of a list that names a posting twice, the first time unwanted and the second time wanted, the
  row is found while its delete is pending and is gone when its matches are inserted: the
  foreign key fails the crawl. `Match` models it.
* Since no row lock is held between reading a subscription and counting its failure
  (`notification_runtime.py:157`, `dispatcher.py:154`), two senders that read the same count write the
  same sum, so that one of two failures is lost (세부기획서.md:836 has every failure counted),
  and one that read an old count can deactivate a subscription that its browser has just
  renewed, or carry its count past the limit. `BeginNotice` to `RecordNotice` model it.
* A keyword that has matches cannot be deleted: the ORM nulls their foreign key first
  (`keywords.py:69`), which is `NOT NULL` (`entities.py:216`), before the cascade could act. A
  source with runs or postings likewise. `PostingCollection` and `CrawlExecution` model the refusal.
* The tag of a page is stored only if the configuration already has an `_http_cache`:
  `sources.py:37` copies the configuration one level deep, and the dictionary that
  `linkareer.py:48` adds to the copy is lost, so that a source that starts without one
  never sends a conditional request; 세부기획서.md:754 has the ETag stored in
  `sources.config`. `Remembered` models it.
* A rate limit or a refused connection that outlives the retries is recorded as a
  PARSER error, because `BaseCrawler.run` catches it; only missing credentials and
  errors of `_finish_run` reach `classify_crawl_error` (세부기획서.md:1292 tells
  the causes apart). `SaveResult` models it.
* A 304 answer to a page with postings is an empty list, recorded and alerted as a drop
  against the baseline. A drop in postings is alerted at every crawl, since a partial run
  never becomes the baseline, and after thirty days of drops retention deletes
  the baseline: the next empty list then counts against the postings, which is why
  `UnreadListClosesNothing` says "while there is a successful run".
* A result is complete when its one page was read (`collector.py:43`), so that postings
  of later pages of the site count as missing.
* Two processes can each send the notice for one Kakao error; a process that recorded
  its notice late raises the banner again over a refresh that has succeeded, until the
  next daily refresh; a refresh that kept its token can overwrite the one another
  process was given. `KakaoTokens` allows all three, and shows that they heal or are shown.
* Quiet hours that cover the hour of the daily dispatch defer everything to an hour
  at which nothing is dispatched; the dispatch of the next day only queues again. What
  is deferred is delivered by a dispatch of the administrator, if ever.

## Proofs

The proofs hold for any sets of sources, threads, configurations, dispatches,
tokens, postings, browsers, contents, keywords, pages and crawlers, for any thresholds,
intervals and quiet hours, and for lists, queues and histories of any length.
They assume nothing but the named `ASSUME` of
their module: `ConstantsOK`, `KakaoConstantsOK`, `SiteConstantsOK`,
`ScheduleConstantsOK`, `DispatchConstantsOK`, `CollectionConstantsOK`. One of these says
something of the program: by `DispatchConstantsOK` a delivered notification is kept for at
least the lookback and twice the longest duration of a dispatch (`retention.py` keeps it 90
days, and `config.py` sets the lookback to one).

| Module | Theorem | States |
|---|---|---|
| `CrawlExecutionProofs` | `Invariance` | `Spec => []IInv` |
| | `TypeCorrect` | `Spec => []TypeOK` |
| | `Exclusion` | `Spec => []ExclusiveCrawl` |
| | `Ownership` | `Spec => []RowOwnership` |
| | `ClosedStands` | `Spec => ClosedRunsStand` |
| | `Activation` | `Spec => OnlyAdminActivates` |
| `CrawlHistoryProofs` | `HistoryInvariance` | `Spec => []HInv` |
| | `CounterIsTrue` | `Spec => []CounterMatchesHistory` |
| | `NoSilentDrop` | `Spec => []NoDropBetweenSuccesses` |
| | `OneAlert` | `Spec => []OneDisableAlertPerStreak` |
| | `ImplementsHealth` | `Spec => KeepsHealth`, the refinement |
| `NotificationDispatcherProofs` | `Invariance` | `Spec => [](IInv /\ NoticesOK)` |
| | `TypeCorrect` | `Spec => []TypeOK` |
| | `SentIsTrue` | `Spec => []SentIsAcknowledged` |
| | `QuietKept` | `Spec => []QuietHoursKept` |
| | `DisabledAtLimit` | `Spec => LimitDeactivates` |
| | `Implements` | `Spec => KeepsLedger`, the refinement |
| | `Deferral` | `Spec => DeferredToQuietEnd` |
| `PostingCollectionProofs` | `Invariance` | `Spec => []IInv` |
| | `TypeCorrect` | `Spec => []TypeOK` |
| | `ClosedOnlyByMisses` | `Spec => []ClosedAfterMisses` |
| | `RevisionsLead` | `Spec => []RevisionChain` |
| | `EvidenceIsTrue` | `Spec => []EvidenceCurrent` |
| | `Implements` | `Spec => FollowsListing`, the refinement |
| | `CountsAreTrue` | `Spec => CountsAgree` |
| `SiteCrawlProofs` | `Invariance` | `Spec => []IInv` |
| | `TypeCorrect` | `Spec => []TypeOK` |
| | `NothingSkipped` | `Spec => []SkippedWasCollected` |
| | `UnreadIsHarmless` | `Spec => UnreadListClosesNothing` |
| | `Implements` | `Spec => FollowsListing`, the refinement |
| `KakaoTokensProofs` | `Invariance` | `Spec => []IInv` |
| | `TypeCorrect` | `Spec => []TypeOK` |
| | `Notices` | `Spec => []NotifiedMeansSent` |
| `WorkerSchedulerProofs` | `Invariance` | `Spec => []IInv` |
| | `TypeCorrect` | `Spec => []TypeOK` |
| | `Accounting` | `Spec => []InstancesAccounted` |
| | `NoOverlap` | `Spec => []OneInstance` |
| | `Spacing` | `Spec => CrawlSpacing` |

Hardly any of these properties is inductive. Each module of proofs states a strengthening
`IInv`, proves that every action preserves it, in a lemma per action and by
the conjuncts that the action can disturb, and takes the theorems from it; the last
steps are temporal.

**CrawlExecution.** `IInv` adds to `TypeOK` what each
thread knows (`ExecInv`): which source and run its locals name at each `pc`, and
that from `crawling` to `marking` the run is an inserted one; `LockInv`: a
thread past the lock holds the lock of its source, unless it is in `lost`;
`RowInv`: the source of a RUNNING row
exists, the row is owned or orphaned, and an id that the sequence has not reached is unused; and `OwnerInv`: two
threads never own the same run, and an owned run is RUNNING, or deleted with its
source, or a result whose commit was not answered and whose owner is about to mark it
FAILED. Exclusion follows from `LockInv`, as a lock has one holder; `ClosedStands` from
`OwnerInv`: a row is written only by its owner, in one of these three cases.

**CrawlHistory.** The properties of the history relate the row of a source to all of its runs,
while the code goes by what an execution has read of both. `HInv` stands on top of `IInv`, for
sources that have lost no lock (`LostInv`: a thread that has lost its lock has breached its source).
Its core is `ReadInv`: the run of an execution is the latest of its source that counts, and the
counter that it has loaded and the baseline that it has judged by are those of the tables
until it commits, since nobody else that holds the lock can be there, and the
administrator changes neither. `AgeInv` says what
is known of sources that are new or deleted, and `ClearedInv` that what has cleared the counter was a
success, also if it says FAILED by now. The lemma `SourceStep` then leaves five cases
of a step, for each source: its history is untouched, one success more, one failure more,
created, deleted; retention is a case of its own, for all sources at once. `CounterIsTrue` and
`NoSilentDrop` are induction over these cases, and so is the
refinement. `OneAlert` needs `AlertInv` besides: after an announcement the counter is at the
threshold or above it, where the comparison with `==` is false, until a run clears it (with that
comparison weakened to `>=` the proof would fail, and the property does).

**NotificationDispatcher.** `DispatchFine` says what the locals of a dispatch are worth
after others have run: its time is at most one `DispatchTime` past, what it has queued
was new then, it carries something only at the channel, an answer that says yes was
given, and past the queue no quiet hour is left unless the administrator has asked.
`PairFine` says the same of a row: it has its posting, what it says of its delivery is true, and
after a delivery it is missing only when its posting is too old to be queued.
The last is what the refinement needs. An entry of the ledger is never made again for a
settled pair, but the code looks only at the rows that are left: `QueuedIsNew` shows from the
ages of the posting and of the row, and from the assumption above, that retention has not
removed the row of any posting that a dispatch may still queue. The rest of
`Implements` maps each action to one of the ledger or to a stutter (`carrying` is the claim of
each dispatch). `Deferral` is arithmetic modulo the length of a day, which is a constant and not a
number: the lemmas `Division`, `NoMultiple`, `Remainder` and `HourOfDay` take it from the
definition of division, and `QuietEndNext` applies them to quiet hours that span
midnight and to those that do not.

**PostingCollection.** A collection holds its rows in a transaction while keywords, retention and days
go on. `Pending` says which rows it has written and what they hold, compared with the table: a posting
that the list named is open without misses, or is to be removed; one that a complete list lacked has been counted against,
once. `PendingEvidence` says it of the matches, but for the posting that is being matched.
With `MissesAgree` (the column agrees with the lists seen) these make the commit
one `List` of `SourceListing`, and everything before it a stutter; a list that fails drops
them. The counts are kept by a second invariant, `CountInv`: as long as no name has come twice
(the names that were read are as many as the postings seen), `new` and `updated` are the numbers of rows
held that the table lacks and that it has with another content. It survives the steps of others since
these leave the rows that a collection has written, and a name that comes for the first time meets
a row that the collection has not written.

**SiteCrawl.** `SkippedWasCollected` speaks of the tag in the table, and the
next tag is put into the configuration of a crawl long before its
postings are recorded. `TagInv` says what such a tag stands for: it is known already, or it is that of
the page at hand, whose postings the crawl will record, or turn down, in the transaction that
stores the tag. What leaves the table afterwards is turned down too, by a later list or by
retention.
`CrawlInv` supplies what is recorded: an error, nothing read, or all items of a page
that was parsed. `UnreadIsHarmless` follows from `CrawlInv` and the comparison with the baseline. For the refinement
an open row must be below the limit of misses (`RowInv`), so that one more either counts it or closes
it.

**WorkerScheduler.** `CrawlSpacing` must survive jobs that are replaced, removed, dropped as
misfires and run late. `TimerInv` bounds the timer of a source together with the time since
its last crawl, less the grace by which that crawl may have been late; `QueueInv` says that a crawl that waits is due,
and that the timer of the next allows for however late it begins. `InstancesAccounted` is the
bookkeeping of `max_instances`: the count is the number of a job's entries in the queue and in the
threads, from which `OneInstance` is preserved.

**KakaoTokens.** A session writes back the copy of the banner
that it made before its notice, so it must be known of every copy that it tells the
truth. `IInv` therefore says of each session what `NotifiedMeansSent` says
of the row (`Truthful`), that one that is about to raise the banner has an error to
raise it for, and that one that shows it has a raised banner (`Ready`). Almost
every step changes one session only, and the lemma `SessionInv` reduces it to that session.

Model-checked only:

- liveness under fairness and `ENABLED` (`LockReturned`, `RunsEnd`,
  `LossIsShown`, `BannerClears`, `CrawlEnds`), out of the reach of the provers, as is induction over
  data, such as what a fold computes;
- the violations, which are counterexamples.

## What is not modelled

Login (a password check without state), configuration, logging, the command line, the
diagnostics, migrations (run while the services are stopped), the
read-only pages and searches, and the normalization of text and dates (pure functions of
their input). Restarts by systemd appear as `Crash` and `Restart`. The connection
pool appears only through the exceptions that its timeout raises (`StartRaises`,
`CollectRaises`, `FailRaises`).

Left out of what is modelled: the timing of the rate limiter, Last-Modified apart from
the ETag, an `_http_cache` or a token answer that is not a dictionary, two sessions
that create the banner's row at once, and lost answers to commits other than those of
`CrawlExecution` and `SiteCrawl`: in the other modules a commit takes effect and returns, or
does neither. That is less than it seems: a dispatch whose commit is not answered
ends there, as one that crashes after it, and what a collection commits is an atomic list
in `PostingCollection` whatever is heard of it afterwards.
