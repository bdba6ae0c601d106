---------------------------- MODULE WorkerScheduler ----------------------------
(***************************************************************************)
(* The schedule of the worker process: WorkerScheduler of                  *)
(* src/app/worker/main.py, and the parts of APScheduler that it relies on  *)
(* (BackgroundScheduler, its memory job store and its thread pool), which  *)
(* are external and modelled as the code configures them: coalesce,        *)
(* max_instances=1 and the default misfire_grace_time.                     *)
(*                                                                         *)
(* Time is relative: each job has a timer that counts down to its next     *)
(* run.  The scheduler thread and the pool act at once when they can, so   *)
(* time passes only when no timer has run out and no free thread has work. *)
(***************************************************************************)
EXTENDS Integers, Sequences, FiniteSets

CONSTANTS
    Sources,      \* ids of table sources
    Refresh,      \* the job "refresh-source-jobs"
    OtherJobs,    \* heartbeat, dispatch, token refresh, retention
    Interval,     \* interval_minutes of each source, in units of time
    MaxJitter,    \* the 30 seconds of _jitter_seconds
    Period,       \* period of Refresh and of each other job
    Grace,        \* misfire_grace_time
    Pool,         \* threads of the pool: settings.crawl_max_workers
    None,         \* no job
    MayRestart    \* bound: whether the worker is restarted

Housekeeping == {Refresh} \cup OtherJobs

Jobs == Sources \cup Housekeeping

ASSUME ScheduleConstantsOK ==
    /\ Refresh \notin OtherJobs
    /\ Sources \cap Housekeeping = {}
    /\ None \notin Jobs
    /\ Interval \in [Sources -> Nat \ {0}]
    /\ Period \in [Housekeeping -> Nat \ {0}]
    /\ {MaxJitter, Grace} \subseteq Nat
    /\ IsFiniteSet(Pool)
    /\ MayRestart \in BOOLEAN

VARIABLES
    active,     \* the sources with is_active in the database
    timer,      \* time to the next run of each registered job
    queue,      \* runs submitted to the pool that no thread has taken
    thread,     \* the job each thread of the pool runs
    instances,  \* the pool's count of the runs of each job not finished
    loaded,     \* the local "sources" of refresh_jobs
    since       \* history: time since a crawl of each source began

vars == <<active, timer, queue, thread, instances, loaded, since>>

\* The timer of a job that is not registered.
Off == -1

\* refresh_jobs has not read the sources.
NotLoaded == {None}

-----------------------------------------------------------------------------

\* _jitter_seconds.
Jitter(s) == IF Interval[s] \div 10 < MaxJitter THEN Interval[s] \div 10 ELSE MaxJitter

MinGap(s) == Interval[s] - Jitter(s)

MaxGap(s) == Interval[s] + Jitter(s)

\* How long after a run, or after the trigger is made, a job runs next.
Gap(j) == IF j \in Sources THEN MinGap(j)..MaxGap(j) ELSE {Period[j]}

\* mutant of FirstGap: a job runs when it is registered
FirstGapNone(s) == {0}

FirstGap(s) == Gap(s)

\* The gaps that the triggers of the sources in "wanted" may draw.
Gaps(wanted) ==
    {gap \in [wanted -> UNION {FirstGap(s) : s \in wanted}] :
        \A s \in wanted : gap[s] \in FirstGap(s)}

\* mutant of Synced: every job that is not a wanted source is removed
SyncedOnly(wanted, housekeeping) ==
    {[j \in Jobs |-> IF j \in wanted THEN gap[j] ELSE Off] : gap \in Gaps(wanted)}

\* add_job for every source of "wanted", with a new trigger whether or not the
\* source had a job (replace_existing), and remove_job for the others.
Synced(wanted, housekeeping) ==
    {[j \in Jobs |-> CASE j \in wanted -> gap[j]
                       [] j \in Sources \ wanted -> Off
                       [] j \in Housekeeping -> housekeeping[j]] : gap \in Gaps(wanted)}

NothingRuns == [i \in Pool |-> None]

NothingCounted == [j \in Jobs |-> 0]

\* WorkerScheduler.start: the sources are registered before anything runs.
Init ==
    /\ active \in SUBSET Sources
    /\ timer \in Synced(active, Period)
    /\ queue = <<>>
    /\ thread = NothingRuns
    /\ instances = NothingCounted
    /\ loaded = NotLoaded
    /\ since = [s \in Sources |-> MaxGap(s)]

\* The process ends, at any point, and systemd starts it again.
Restart ==
    /\ MayRestart
    /\ timer' \in Synced(active, Period)
    /\ queue' = <<>>
    /\ thread' = NothingRuns
    /\ instances' = NothingCounted
    /\ loaded' = NotLoaded
    /\ UNCHANGED <<active, since>>

-----------------------------------------------------------------------------
(* The scheduler thread. *)

\* mutant of MaySubmit: the limit of instances is not enforced
MaySubmitAlways(j) == TRUE

\* max_instances of a job, counted by the pool under the job's id: a job that
\* is replaced or removed and added again keeps its count.
MaySubmit(j) == instances[j] = 0

\* A job whose time has come is given to the pool, or skipped while its last
\* run is not over.
Submit(j) ==
    /\ timer[j] = 0
    /\ \E gap \in Gap(j) : timer' = [timer EXCEPT ![j] = gap]
    /\ \/ /\ MaySubmit(j)
          /\ queue' = Append(queue, [job |-> j, age |-> 0])
          /\ instances' = [instances EXCEPT ![j] = @ + 1]
       \/ /\ ~MaySubmit(j)
          /\ UNCHANGED <<queue, instances>>
    /\ UNCHANGED <<active, thread, loaded, since>>

-----------------------------------------------------------------------------
(* The threads of the pool. *)

Free(i) == thread[i] = None

\* A free thread takes the oldest run; it is missed if it waited too long.
Run(i) ==
    /\ Free(i)
    /\ queue # <<>>
    /\ Head(queue).age <= Grace
    /\ thread' = [thread EXCEPT ![i] = Head(queue).job]
    /\ queue' = Tail(queue)
    /\ since' = [s \in Sources |-> IF s = Head(queue).job THEN 0 ELSE since[s]]
    /\ UNCHANGED <<active, timer, instances, loaded>>

\* mutant of Forgotten: a missed run stays counted
ForgottenNot(n) == n

Forgotten(n) == n - 1

Miss(i) ==
    /\ Free(i)
    /\ queue # <<>>
    /\ Head(queue).age > Grace
    /\ queue' = Tail(queue)
    /\ instances' = [instances EXCEPT ![Head(queue).job] = Forgotten(@)]
    /\ UNCHANGED <<active, timer, thread, loaded, since>>

\* A crawl or another job ends, in whatever way.
Finish(i) ==
    /\ thread[i] \in Sources \cup OtherJobs
    /\ thread' = [thread EXCEPT ![i] = None]
    /\ instances' = [instances EXCEPT ![thread[i]] = @ - 1]
    /\ UNCHANGED <<active, timer, queue, loaded, since>>

\* refresh_jobs: load_active_sources.
LoadSources(i) ==
    /\ thread[i] = Refresh
    /\ loaded = NotLoaded
    /\ loaded' = active
    /\ UNCHANGED <<active, timer, queue, thread, instances, since>>

\* refresh_jobs: the jobs of the scheduler are made to agree.
SyncJobs(i) ==
    /\ thread[i] = Refresh
    /\ loaded # NotLoaded
    /\ timer' \in Synced(loaded, timer)
    /\ loaded' = NotLoaded
    /\ thread' = [thread EXCEPT ![i] = None]
    /\ instances' = [instances EXCEPT ![Refresh] = @ - 1]
    /\ UNCHANGED <<active, queue, since>>

\* The database fails and refresh_jobs raises.
LoadRaises(i) ==
    /\ thread[i] = Refresh
    /\ loaded = NotLoaded
    /\ thread' = [thread EXCEPT ![i] = None]
    /\ instances' = [instances EXCEPT ![Refresh] = @ - 1]
    /\ UNCHANGED <<active, timer, queue, loaded, since>>

-----------------------------------------------------------------------------

\* The administrator or the circuit breaker switches a source.
Switch(s) ==
    /\ active' \in {active \cup {s}, active \ {s}}
    /\ active' # active
    /\ UNCHANGED <<timer, queue, thread, instances, loaded, since>>

\* Time, with ages and the history counted as far as they matter.
Tick ==
    /\ \A j \in Jobs : timer[j] # 0
    /\ queue # <<>> => ~\E i \in Pool : Free(i)
    /\ timer' = [j \in Jobs |-> IF timer[j] = Off THEN Off ELSE timer[j] - 1]
    /\ queue' = [k \in DOMAIN queue |->
         [queue[k] EXCEPT !.age = IF @ > Grace THEN @ ELSE @ + 1]]
    /\ since' = [s \in Sources |->
         IF since[s] < MaxGap(s) THEN since[s] + 1 ELSE since[s]]
    /\ UNCHANGED <<active, thread, instances, loaded>>

Work(i) == Run(i) \/ Miss(i) \/ Finish(i) \/ LoadSources(i) \/ SyncJobs(i)

Next ==
    \/ \E j \in Jobs : Submit(j)
    \/ \E i \in Pool : Work(i) \/ LoadRaises(i)
    \/ \E s \in Sources : Switch(s)
    \/ Restart
    \/ Tick

Spec == Init /\ [][Next]_vars

\* Time passes, the scheduler thread runs and every job comes to an end: its
\* calls have timeouts.
FairSpec ==
    /\ Spec
    /\ WF_vars(Tick)
    /\ \A j \in Jobs : WF_vars(Submit(j))
    /\ \A i \in Pool : WF_vars(Work(i))

-----------------------------------------------------------------------------
(* Properties. *)

Queued(j) == {k \in DOMAIN queue : queue[k].job = j}

Busy(j) == {i \in Pool : thread[i] = j}

TypeOK ==
    /\ active \subseteq Sources
    /\ timer \in [Jobs -> Nat \cup {Off}]
    /\ \A j \in Housekeeping : timer[j] # Off
    /\ \A k \in DOMAIN queue :
         queue[k].job \in Jobs /\ queue[k].age \in 0..(Grace + 1)
    /\ thread \in [Pool -> Jobs \cup {None}]
    /\ instances \in [Jobs -> Nat]
    /\ loaded = NotLoaded \/ loaded \subseteq Sources
    /\ since \in [Sources -> Nat]

\* The pool's count is what max_instances rests on: it agrees with the runs
\* that wait or go on, also when a job was replaced or removed meanwhile, when
\* its run was skipped, missed or raised.  Were it too high, the job would
\* never run again.
InstancesAccounted ==
    \A j \in Jobs :
        instances[j] = Cardinality(Queued(j)) + Cardinality(Busy(j))

\* No job ever runs in two threads, or waits while it runs.
OneInstance ==
    \A j \in Jobs : Cardinality(Queued(j)) + Cardinality(Busy(j)) <= 1

\* A site is never visited sooner after the last visit than the interval of
\* its source, less its jitter and the grace, whatever is refreshed, disabled
\* and enabled again, or missed, in between and however long crawls take.
CrawlSpacing ==
    [][\A s \in Sources :
        Busy(s)' \ Busy(s) # {} => since[s] >= MinGap(s) - Grace]_vars

\* What the documentation says of the worker: left alone, it crawls every
\* active source again and again.
CrawledRepeatedly ==
    \A s \in Sources : []<>(s \notin active \/ Busy(s) # {})

=============================================================================
