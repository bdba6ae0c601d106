------------------------ MODULE NotificationDispatcher ------------------------
(***************************************************************************)
(* The delivery of new postings to the notification channels:              *)
(* NotificationDispatcher.dispatch (src/app/services/dispatcher.py) as     *)
(* NotificationRuntime.dispatch assembles it                               *)
(* (src/app/services/notification_runtime.py), the channels                *)
(* (src/app/notifications/), the queries on table notifications            *)
(* (src/app/repositories/models.py), and what changes the rows meanwhile.  *)
(*                                                                         *)
(* A dispatch runs in the worker once a day, or in a request of the API    *)
(* when the administrator asks for it; nothing keeps two apart but the     *)
(* unique index on (posting, channel).  A step is one transaction, the     *)
(* part of one before or after a call to a channel, or that call.          *)
(***************************************************************************)
EXTENDS Integers, FiniteSets

CONSTANTS
    WorkerDispatchers, \* the daily job
    ApiDispatchers,    \* request threads of the API
    Notifiers,         \* threads that push a notice of their own
    Postings,          \* ids of table job_postings
    Channels,          \* the channels configured
    Kakao,             \* the one of them that is KakaoTalk
    WebPush,           \* ... and the one that is Web Push
    Endpoints,         \* ids of table push_subscriptions
    Day,               \* units of time in a day
    DispatchHour,      \* the daily job runs at this time of the day
    QuietSettings,     \* values of settings.quiet_hours_start and _end
    Lookback,          \* settings.notification_lookback_minutes
    Keep,              \* how long delivered notifications are retained
    RetryAttempts,     \* DispatchSettings.retry_attempts
    FailureLimit,      \* failures that deactivate a subscription
    CrawlTime,         \* longest transaction of a crawl
    DispatchTime,      \* longest dispatch: the channels have timeouts
    MaxTime,           \* bound: the clock stops there
    MayCrash           \* bound: whether processes die

Dispatchers == WorkerDispatchers \cup ApiDispatchers

Pairs == Postings \X Channels

Hours == 0..(Day - 1)

ASSUME DispatchConstantsOK ==
    /\ WorkerDispatchers \cap ApiDispatchers = {}
    /\ Kakao # WebPush
    /\ Day \in Nat \ {0}
    /\ DispatchHour \in Hours
    /\ QuietSettings \subseteq [start : Hours, end : Hours]
    /\ QuietSettings # {}
    /\ {Lookback, Keep, CrawlTime, DispatchTime, MaxTime} \subseteq Nat
    /\ Lookback + 2 * DispatchTime <= Keep
    /\ {RetryAttempts, FailureLimit} \subseteq Nat \ {0}
    /\ MayCrash \in BOOLEAN

VARIABLES
    clock,         \* the time, in units since some midnight
    quiet,         \* the quiet hours this deployment has
    posting,       \* table job_postings: what the dispatcher asks about
    note,          \* table notifications: the row of each pair
    subscription,  \* table push_subscriptions
    fired,         \* the last time the daily job ran
    pc,            \* where each dispatcher is
    job,           \* the locals of its dispatch
    notice,        \* the push that each notifier is about
    acknowledged,  \* history: pairs that a channel has accepted
    settled        \* history: pairs whose row has said SENT or FAILED

vars == <<clock, quiet, posting, note, subscription, fired, pc, job, notice,
          acknowledged, settled>>

rows == <<quiet, posting, note, subscription>>
time == <<clock, fired>>
history == <<acknowledged, settled>>

Unseen == [status |-> "unseen", wanted |-> FALSE, firstSeen |-> 0]

\* What sent_at holds before the row has been sent.
Never == -1

NoNote == [status |-> "none", scheduled |-> 0, sent |-> Never]

Inactive == [active |-> FALSE, failures |-> 0]

NoResult == [ok |-> FALSE, invalid |-> {}, failed |-> {}]

NothingRead == [e \in Endpoints |-> Inactive]

NoJob == [now |-> 0, force |-> FALSE, channels |-> {}, endpoints |-> {},
          queue |-> {}, channel |-> Kakao, claim |-> {}, attempts |-> 0,
          result |-> NoResult, read |-> NothingRead]

NoNotice == [pc |-> "idle", endpoints |-> {}, result |-> NoResult,
             read |-> NothingRead]

Init ==
    /\ clock = 0
    /\ quiet \in QuietSettings
    /\ posting = [p \in Postings |-> Unseen]
    /\ note = [x \in Pairs |-> NoNote]
    /\ subscription = [e \in Endpoints |-> Inactive]
    /\ fired = 0
    /\ pc = [d \in Dispatchers |-> "idle"]
    /\ job = [d \in Dispatchers |-> NoJob]
    /\ notice = [n \in Notifiers |-> NoNotice]
    /\ acknowledged = {}
    /\ settled = {}

-----------------------------------------------------------------------------
(* Quiet hours: _quiet_end. *)

HourOf(t) == t % Day

Midnight(t) == t - HourOf(t)

\* mutant of IsQuiet: hours that span midnight are not recognised
IsQuietSameDay(t) == quiet.start <= HourOf(t) /\ HourOf(t) < quiet.end

IsQuiet(t) ==
    \/ quiet.start <= HourOf(t) /\ HourOf(t) < quiet.end
    \/ quiet.start > quiet.end /\ (HourOf(t) >= quiet.start \/ HourOf(t) < quiet.end)

\* mutant of QuietUntil: the morning is not told from the evening
QuietUntilTomorrow(t) == Midnight(t) + Day + quiet.end

\* The next end of the quiet hours t is in.
QuietUntil(t) ==
    IF quiet.start >= quiet.end /\ HourOf(t) >= quiet.start
    THEN Midnight(t) + Day + quiet.end
    ELSE Midnight(t) + quiet.end

-----------------------------------------------------------------------------
(* A dispatch. *)

ActiveEndpoints == {e \in Endpoints : subscription[e].active}

\* NotificationRuntime.dispatch.  Web Push is a channel if a browser is
\* subscribed, KakaoTalk if its token can be used; the subscriptions are
\* copied here.  (The switch notifications_enabled may hold a dispatch back:
\* nothing in this module makes one begin.)
Assemble(d, force) ==
    /\ \E channels \in SUBSET Channels :
        /\ WebPush \in channels => ActiveEndpoints # {}
        /\ WebPush \in Channels \ channels => ActiveEndpoints = {}
        /\ job' = [job EXCEPT ![d] =
             [NoJob EXCEPT !.now = clock, !.force = force,
                           !.channels = channels,
                           !.endpoints = ActiveEndpoints]]
    /\ pc' = [pc EXCEPT ![d] = "selecting"]
    /\ UNCHANGED <<clock, rows, notice, history>>

\* The cron job: at most once a day, and missed if no pool thread takes it up.
DispatchDaily(d) ==
    /\ d \in WorkerDispatchers
    /\ pc[d] = "idle"
    /\ HourOf(clock) = DispatchHour
    /\ fired < clock
    /\ fired' = clock
    /\ Assemble(d, FALSE)

\* POST /admin/notifications/dispatch.
DispatchNow(d) ==
    /\ d \in ApiDispatchers
    /\ pc[d] = "idle"
    /\ Assemble(d, TRUE)
    /\ UNCHANGED fired

\* list_notification_candidates.
IsCandidate(p, c, now) ==
    /\ posting[p].status = "present"
    /\ posting[p].wanted
    /\ posting[p].firstSeen >= now - Lookback
    /\ note[<<p, c>>].status = "none"

\* _queue_new, for every channel.
Select(d) ==
    /\ pc[d] = "selecting"
    /\ job' = [job EXCEPT ![d].queue =
         {x \in Pairs : /\ x[2] \in job[d].channels
                        /\ IsCandidate(x[1], x[2], job[d].now)}]
    /\ pc' = [pc EXCEPT ![d] = "queueing"]
    /\ UNCHANGED <<time, rows, notice, history>>

\* A row violates the unique index if its pair has one meanwhile, and the
\* foreign key if its posting is gone.
CanInsert(x) == note[x].status = "none" /\ posting[x[1]].status # "deleted"

Deferred(d) == ~job[d].force /\ IsQuiet(job[d].now)

\* The rows of all channels are inserted, or the dispatch dies of a conflict.
\* In quiet hours it only queues.
Enqueue(d) ==
    /\ pc[d] = "queueing"
    /\ \/ /\ \A x \in job[d].queue : CanInsert(x)
          /\ note' = [x \in Pairs |->
               IF x \in job[d].queue
               THEN [NoNote EXCEPT
                       !.status = "pending",
                       !.scheduled = IF Deferred(d)
                                     THEN QuietUntil(job[d].now) ELSE 0]
               ELSE note[x]]
          /\ \/ /\ Deferred(d)
                /\ pc' = [pc EXCEPT ![d] = "idle"]
                /\ job' = [job EXCEPT ![d] = NoJob]
             \/ /\ ~Deferred(d)
                /\ pc' = [pc EXCEPT ![d] = "listing"]
                /\ job' = [job EXCEPT ![d].queue = {}]
       \/ /\ ~\A x \in job[d].queue : CanInsert(x)
          /\ pc' = [pc EXCEPT ![d] = "idle"]
          /\ job' = [job EXCEPT ![d] = NoJob]
          /\ UNCHANGED note
    /\ UNCHANGED <<time, quiet, posting, subscription, notice, history>>

\* mutant of IsDue: failed rows are sent again
IsDueOrFailed(x, now) ==
    note[x].status \in {"pending", "failed"} /\ note[x].scheduled <= now

\* list_due; an unset scheduled_at is 0 here.
IsDue(x, now) == note[x].status = "pending" /\ note[x].scheduled <= now

Due(c, now) == {x \in Pairs : x[2] = c /\ IsDue(x, now)}

\* The channels still to be served; Web Push comes first.
NextChannel(channels) == IF WebPush \in channels THEN WebPush ELSE Kakao

\* The rows of the next channel are read, not locked; with none the channel
\* is left out.
ListDue(d) ==
    /\ pc[d] = "listing"
    /\ \/ /\ job[d].channels = {}
          /\ pc' = [pc EXCEPT ![d] = "idle"]
          /\ job' = [job EXCEPT ![d] = NoJob]
       \/ /\ job[d].channels # {}
          /\ LET c   == NextChannel(job[d].channels)
                 due == Due(c, job[d].now)
             IN /\ pc' = [pc EXCEPT ![d] =
                            IF due = {} THEN "listing" ELSE "sending"]
                /\ job' = [job EXCEPT ![d] =
                     [job[d] EXCEPT !.channels = @ \ {c}, !.channel = c, !.claim = due,
                                    !.endpoints = IF due = {} THEN {} ELSE @]]
    /\ UNCHANGED <<time, rows, notice, history>>

\* What Web Push can answer: it succeeds if some browser took the message, and
\* tells the subscriptions that are gone from those that failed.
PushResults(endpoints) ==
    {r \in [ok : BOOLEAN, invalid : SUBSET endpoints, failed : SUBSET endpoints] :
        /\ r.invalid \cap r.failed = {}
        /\ r.ok <=> r.invalid \cup r.failed # endpoints}

Results(d) ==
    IF job[d].channel = WebPush THEN PushResults(job[d].endpoints)
    ELSE {[NoResult EXCEPT !.ok = ok] : ok \in BOOLEAN}

\* KakaoChannel.send closes the client it owns: it cannot send again.
CanSend(d) == job[d].channel = Kakao => job[d].attempts = 0

\* mutant of Resend: one attempt too many
ResendOnceMore(ok, attempts) == ~ok /\ attempts <= RetryAttempts

\* _send_with_retry.
Resend(ok, attempts) == ~ok /\ attempts < RetryAttempts

\* _apply_web_push_result reads the subscriptions that failed again.
ReadAgain(r) ==
    [e \in Endpoints |->
        IF e \in r.invalid \cup r.failed THEN subscription[e] ELSE Inactive]

\* One call of channel.send; after the last, the subscriptions are read.
Attempt(d) ==
    /\ pc[d] = "sending"
    /\ CanSend(d)
    /\ \E r \in Results(d) :
        /\ acknowledged' = IF r.ok THEN acknowledged \cup job[d].claim
                           ELSE acknowledged
        /\ \/ /\ Resend(r.ok, job[d].attempts + 1)
              /\ job' = [job EXCEPT ![d].attempts = @ + 1]
              /\ UNCHANGED pc
           \/ /\ ~Resend(r.ok, job[d].attempts + 1)
              /\ job' = [job EXCEPT ![d] =
                   [@ EXCEPT !.attempts = 0, !.result = r, !.read = ReadAgain(r)]]
              /\ pc' = [pc EXCEPT ![d] = "recording"]
    /\ UNCHANGED <<time, rows, notice, settled>>

\* The RuntimeError of a closed client ends the whole dispatch.
AttemptRaises(d) ==
    /\ pc[d] = "sending"
    /\ ~CanSend(d)
    /\ pc' = [pc EXCEPT ![d] = "idle"]
    /\ job' = [job EXCEPT ![d] = NoJob]
    /\ UNCHANGED <<time, rows, notice, history>>

\* mutant of Outcome: the result of the channel is not looked at
OutcomeAlwaysSent(r) == "sent"

Outcome(r) == IF r.ok THEN "sent" ELSE "failed"

\* mutant of Punished: one failure too many is allowed
PunishedLate(row) ==
    [active |-> row.active /\ row.failures + 1 <= FailureLimit,
     failures |-> row.failures + 1]

\* One more failure of a subscription.
Punished(row) ==
    [active |-> row.active /\ row.failures + 1 < FailureLimit,
     failures |-> row.failures + 1]

\* _apply_web_push_result: the commit writes the columns that it changed in
\* what it had read.
Applied(r, read) ==
    [e \in Endpoints |->
        CASE e \in r.invalid /\ read[e].active ->
               [subscription[e] EXCEPT !.active = FALSE]
          [] e \in r.failed ->
               [active |-> IF Punished(read[e]).active = read[e].active
                           THEN subscription[e].active ELSE FALSE,
                failures |-> Punished(read[e]).failures]
          [] OTHER -> subscription[e]]

\* The commit.  The claimed rows are written by primary key: if one has been
\* deleted the UPDATE matches too few rows and everything is rolled back.
Record(d) ==
    /\ pc[d] = "recording"
    /\ \/ /\ \A x \in job[d].claim : note[x].status # "none"
          /\ note' = [x \in Pairs |->
               IF x \in job[d].claim
               THEN [note[x] EXCEPT
                       !.status = Outcome(job[d].result),
                       !.sent = IF job[d].result.ok THEN job[d].now ELSE @]
               ELSE note[x]]
          /\ subscription' = Applied(job[d].result, job[d].read)
          /\ pc' = [pc EXCEPT ![d] = "listing"]
          /\ job' = [job EXCEPT ![d] =
               [@ EXCEPT !.claim = {}, !.endpoints = {},
                         !.result = NoResult, !.read = NothingRead]]
          /\ settled' = settled \cup job[d].claim
       \/ /\ \E x \in job[d].claim : note[x].status = "none"
          /\ pc' = [pc EXCEPT ![d] = "idle"]
          /\ job' = [job EXCEPT ![d] = NoJob]
          /\ UNCHANGED <<note, subscription, settled>>
    /\ UNCHANGED <<time, quiet, posting, notice, acknowledged>>

-----------------------------------------------------------------------------
(* Everybody else. *)

\* A process dies in the middle of its dispatches.
Crash(process) ==
    /\ MayCrash
    /\ \E d \in process : pc[d] # "idle"
    /\ pc' = [d \in Dispatchers |-> IF d \in process THEN "idle" ELSE pc[d]]
    /\ job' = [d \in Dispatchers |-> IF d \in process THEN NoJob ELSE job[d]]
    /\ UNCHANGED <<time, rows, notice, history>>

\* A crawl commits a new posting: first_seen_at is the time at which its
\* transaction began.  It is wanted while it is open, matches an include
\* keyword and no exclude keyword.
Collect(p) ==
    /\ posting[p].status = "unseen"
    /\ \E wanted \in BOOLEAN, begun \in (clock - CrawlTime)..clock :
        /\ begun >= 0
        /\ posting' = [posting EXCEPT ![p] =
             [status |-> "present", wanted |-> wanted, firstSeen |-> begun]]
    /\ UNCHANGED <<time, quiet, note, subscription, pc, job, notice, history>>

\* Later crawls close and reopen it and match it anew.
Recollect(p) ==
    /\ posting[p].status = "present"
    /\ posting' = [posting EXCEPT ![p].wanted = ~@]
    /\ UNCHANGED <<time, quiet, note, subscription, pc, job, notice, history>>

\* A posting is deleted, with its notifications.
Discard(p) ==
    /\ posting[p].status = "present"
    /\ posting' = [posting EXCEPT ![p] = [Unseen EXCEPT !.status = "deleted"]]
    /\ note' = [x \in Pairs |-> IF x[1] = p THEN NoNote ELSE note[x]]
    /\ UNCHANGED <<time, quiet, subscription, pc, job, notice, history>>

Expired(x) == note[x].sent # Never /\ note[x].sent < clock - Keep

\* RetentionService: delete_notifications_before.
Retain ==
    /\ \E x \in Pairs : Expired(x)
    /\ note' = [x \in Pairs |-> IF Expired(x) THEN NoNote ELSE note[x]]
    /\ UNCHANGED <<time, quiet, posting, subscription, pc, job, notice, history>>

\* PushSubscriptionService.upsert.
Subscribe(e) ==
    /\ subscription' = [subscription EXCEPT ![e] =
                          [active |-> TRUE, failures |-> 0]]
    /\ subscription' # subscription
    /\ UNCHANGED <<time, quiet, posting, note, pc, job, notice, history>>

\* NotificationRuntime.send_operational_alert and _send_reauth_notice push to
\* the active browsers too, once.
BeginNotice(n) ==
    /\ notice[n].pc = "idle"
    /\ ActiveEndpoints # {}
    /\ notice' = [notice EXCEPT ![n] =
          [NoNotice EXCEPT !.pc = "sending", !.endpoints = ActiveEndpoints]]
    /\ UNCHANGED <<time, rows, pc, job, history>>

\* After the push the subscriptions that failed are read again ...
PushNotice(n) ==
    /\ notice[n].pc = "sending"
    /\ \E r \in PushResults(notice[n].endpoints) :
         notice' = [notice EXCEPT ![n] =
           [NoNotice EXCEPT !.pc = "recording", !.result = r, !.read = ReadAgain(r)]]
    /\ UNCHANGED <<time, rows, pc, job, history>>

\* ... and the commit writes what was made of that.
RecordNotice(n) ==
    /\ notice[n].pc = "recording"
    /\ subscription' = Applied(notice[n].result, notice[n].read)
    /\ notice' = [notice EXCEPT ![n] = NoNotice]
    /\ UNCHANGED <<time, quiet, posting, note, pc, job, history>>

\* Its process dies, or its commit fails.
DropNotice(n) ==
    /\ MayCrash
    /\ notice[n].pc # "idle"
    /\ notice' = [notice EXCEPT ![n] = NoNotice]
    /\ UNCHANGED <<time, rows, pc, job, history>>

Tick ==
    /\ clock < MaxTime
    /\ \A d \in Dispatchers :
         pc[d] # "idle" => clock < job[d].now + DispatchTime
    /\ clock' = clock + 1
    /\ UNCHANGED <<fired, rows, pc, job, notice, history>>

-----------------------------------------------------------------------------

Start(d) == DispatchDaily(d) \/ DispatchNow(d)

Proceed(d) ==
    \/ Select(d)
    \/ Enqueue(d)
    \/ ListDue(d)
    \/ Attempt(d)
    \/ AttemptRaises(d)
    \/ Record(d)

Next ==
    \/ \E d \in Dispatchers : Start(d) \/ Proceed(d)
    \/ \E process \in {WorkerDispatchers, ApiDispatchers} : Crash(process)
    \/ \E p \in Postings : Collect(p) \/ Recollect(p) \/ Discard(p)
    \/ \E e \in Endpoints : Subscribe(e)
    \/ \E n \in Notifiers :
         BeginNotice(n) \/ PushNotice(n) \/ RecordNotice(n) \/ DropNotice(n)
    \/ Retain
    \/ Tick

Spec == Init /\ [][Next]_vars

-----------------------------------------------------------------------------
(* Properties. *)

TypeOK ==
    /\ clock \in 0..MaxTime
    /\ quiet \in QuietSettings
    /\ posting \in [Postings -> [status : {"unseen", "present", "deleted"},
                                 wanted : BOOLEAN, firstSeen : 0..MaxTime]]
    /\ note \in [Pairs -> [status : {"none", "pending", "sent", "failed"},
                           scheduled : 0..(MaxTime + Day),
                           sent : {Never} \cup 0..MaxTime]]
    /\ subscription \in [Endpoints -> [active : BOOLEAN, failures : Nat]]
    /\ fired \in 0..MaxTime
    /\ pc \in [Dispatchers ->
                 {"idle", "selecting", "queueing", "listing", "sending", "recording"}]
    /\ \A d \in Dispatchers :
         /\ job[d].channels \subseteq Channels
         /\ job[d].queue \cup job[d].claim \subseteq Pairs
         /\ job[d].attempts \in 0..(RetryAttempts - 1)
    /\ notice \in [Notifiers ->
                     [pc : {"idle", "sending", "recording"},
                      endpoints : SUBSET Endpoints,
                      result : [ok : BOOLEAN, invalid : SUBSET Endpoints,
                                failed : SUBSET Endpoints],
                      read : [Endpoints -> [active : BOOLEAN, failures : Nat]]]]
    /\ acknowledged \cup settled \subseteq Pairs

\* The rows and the dispatches as DeliveryLedger sees them.
Entry == [x \in Pairs |-> IF posting[x[1]].status = "deleted" THEN "gone"
                          ELSE note[x].status]

Ledger == INSTANCE DeliveryLedger WITH
              Entries <- Pairs, Carriers <- Dispatchers, entry <- Entry,
              carrying <- [d \in Dispatchers |-> job[d].claim],
              accepted <- acknowledged, closed <- settled

\* The dispatches keep the ledger: a row is made once for a posting and a
\* channel, also when the posting was closed and reopened or matched anew or
\* its row fell to retention; what has been recorded as SENT or FAILED is
\* never taken up again; SENT is earned; a row that was not delivered goes
\* with its posting only; and a dispatch settles all it claimed or nothing.
KeepsLedger == Ledger!Spec

\* A row says SENT only if its channel has accepted the message, also when
\* the dispatch was delayed or another one wrote the row meanwhile.
SentIsAcknowledged ==
    \A x \in Pairs : note[x].status = "sent" => x \in acknowledged

\* The daily dispatch sends nothing in the quiet hours: whatever their
\* settings, also across midnight, every hour from the start of the quiet
\* hours up to their end is quiet.
QuietHoursKept ==
    \A d \in Dispatchers :
        pc[d] = "sending" /\ ~job[d].force =>
            \A n \in 0..((quiet.end - quiet.start + Day - 1) % Day) :
                quiet.start # quiet.end =>
                    HourOf(job[d].now) # (quiet.start + n) % Day

\* What quiet hours defer is due when they end: after the dispatch, within a
\* day of it, at the hour that ends them.
DeferredToQuietEnd ==
    [][\A x \in Pairs :
        /\ note[x].status = "none"
        /\ note'[x].status = "pending"
        /\ note'[x].scheduled # 0
        => /\ note'[x].scheduled % Day = quiet.end
           /\ \E d \in Dispatchers :
                /\ x \in job[d].queue
                /\ note'[x].scheduled \in (job[d].now + 1)..(job[d].now + Day)]_vars

\* The failure that reaches the limit deactivates the subscription, whichever
\* dispatches and notices count at the same time, unless the browser has
\* renewed a subscription that was read inactive.
LimitDeactivates ==
    [][\A e \in Endpoints :
        /\ subscription'[e].failures > subscription[e].failures
        /\ subscription'[e].failures >= FailureLimit
        => \/ ~subscription'[e].active
           \/ \E d \in Dispatchers :
                pc[d] = "recording" /\ ~job[d].read[e].active
           \/ \E n \in Notifiers :
                notice[n].pc = "recording" /\ ~notice[n].read[e].active]_vars

\* What the documentation says of the unique index: no channel is given the
\* same posting twice, whatever the application does and however many run.
NeverTwice ==
    [][\A d \in Dispatchers :
        /\ pc[d] = "sending"
        /\ pc'[d] = "recording"
        /\ job'[d].result.ok
        => job[d].claim \cap acknowledged = {}]_vars

\* What the documentation says of retries: a message that a channel refuses
\* is tried three times and then recorded as FAILED.  (Asked where no process
\* dies.)
GivesUpAfterRetries ==
    [][\A d \in Dispatchers : pc[d] = "sending" => pc'[d] # "idle"]_vars

=============================================================================
