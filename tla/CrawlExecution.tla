---------------------------- MODULE CrawlExecution ----------------------------
(***************************************************************************)
(* One crawl of one source: CrawlExecutionService.run_source and the       *)
(* database state it shares with every other execution and with the        *)
(* administrator (src/app/services/crawl_runner.py, src/app/core/locks.py, *)
(* SourceAdminService of src/app/services/admin.py).                       *)
(*                                                                         *)
(* Executions run in threads of two processes, the worker (scheduled       *)
(* crawls) and the API (manual crawls).  They exclude each other with a    *)
(* PostgreSQL session advisory lock per source, which the server drops     *)
(* when the connection that holds it dies: the execution does not notice.  *)
(* A step of this module is one database transaction, or the part of one   *)
(* before or after its reads: a transaction first loads the source and     *)
(* later writes only the columns that differ from what it loaded.  A       *)
(* commit may take effect and raise all the same, when its answer is lost. *)
(***************************************************************************)
EXTENDS Integers, FiniteSets

CONSTANTS
    Sources,           \* ids of the rows of table sources
    WorkerThreads,     \* pool threads of jobradar-worker
    ApiThreads,        \* request threads of jobradar-api
    None,              \* no thread, no source
    Configs,           \* values of sources.config
    Items,             \* numbers of postings one crawl may return
    FailureThreshold,  \* settings.source_failure_threshold
    DropPercent,       \* settings.collection_drop_ratio, in percent
    MaxRuns            \* bound: rows ever inserted into crawl_runs

Threads == WorkerThreads \cup ApiThreads

RunIds == 1..MaxRuns

ASSUME ConstantsOK ==
    /\ WorkerThreads \cap ApiThreads = {}
    /\ None \notin Threads \cup Sources
    /\ Configs # {}
    /\ Items \subseteq Nat
    /\ FailureThreshold \in Nat \ {0}
    /\ DropPercent \in 0..100
    /\ MaxRuns \in Nat

VARIABLES
    source,    \* table sources: status of the row, and its columns
    deleting,  \* sources whose DELETE has found no dependent rows yet
    runs,      \* table crawl_runs, with the rows it has ever had
    nextRun,   \* its id sequence
    aged,      \* the rows up to this id have been deleted by retention
    lock,      \* the advisory lock of each source: its holder, or None
    pc,        \* where each thread is in run_source
    exec,      \* the locals of the execution each thread carries out
    alerts,    \* operational alerts delivered, by the run that raised them
    lost,      \* history: threads whose lock connection died under them
    breached,  \* history: sources that have lost a lock that way
    orphans,   \* history: runs whose execution ended without closing them
    cleared,   \* history: runs that have been a success, if only for a while
    unanswered \* history: runs whose result was committed without an answer

vars == <<source, deleting, runs, nextRun, aged, lock, pc, exec, alerts, lost,
          breached, orphans, cleared, unanswered>>

database == <<source, deleting, runs, nextRun, aged>>
history  == <<lost, breached, orphans, cleared, unanswered>>

Outcomes == {"success", "parser", "drop"}

\* What each thread does next.  From "locked" on it has acquired the lock.
Holding == {"locked", "crawling", "finishing", "committing", "failing",
            "marking", "alerting", "releasing"}
\* ... and from "crawling" to "marking" it has a RUNNING row to close.
Running == {"crawling", "finishing", "committing", "failing", "marking"}
Pcs == {"idle", "loaded", "refused"} \cup Holding

\* A row of crawl_runs as it is inserted.
NewRow(s, status) ==
    [status |-> status, source |-> s, items |-> 0]

NoRow == NewRow(None, "unused")

\* The locals of an execution of s with run r, before the crawl's result or
\* after it has been recorded.
Locals(s, r, alert) ==
    [source |-> s, run |-> r, config |-> None, items |-> 0, partial |-> FALSE,
     loaded |-> None, outcome |-> "success", alert |-> alert]

NoExec == Locals(None, 0, "none")

Keep(e) == Locals(e.source, e.run, "none")

Init ==
    /\ source = [s \in Sources |->
                    [status |-> "new", active |-> FALSE, failures |-> 0,
                     config |-> CHOOSE c \in Configs : TRUE]]
    /\ deleting = {}
    /\ runs = [r \in RunIds |-> NoRow]
    /\ nextRun = 1
    /\ aged = 0
    /\ lock = [s \in Sources |-> None]
    /\ pc = [t \in Threads |-> "idle"]
    /\ exec = [t \in Threads |-> NoExec]
    /\ alerts = {}
    /\ lost = {}
    /\ breached = {}
    /\ orphans = {}
    /\ cleared = {}
    /\ unanswered = {}

Present(s) == source[s].status = "present"

-----------------------------------------------------------------------------
(* run_source up to the RUNNING row. *)

\* The bound MaxRuns: an execution begins only if each of those under way,
\* and itself, can still insert its row.
RoomForRuns == nextRun + Cardinality({t \in Threads : pc[t] # "idle"}) <= MaxRuns

\* _load_active_source: a missing source raises, an inactive one returns
\* SKIPPED with no row; neither leaves a trace, so only the third case steps.
LoadActiveSource(t, s) ==
    /\ RoomForRuns
    /\ pc[t] = "idle"
    /\ Present(s)
    /\ source[s].active
    /\ pc' = [pc EXCEPT ![t] = "loaded"]
    /\ exec' = [exec EXCEPT ![t] = Locals(s, 0, "none")]
    /\ UNCHANGED <<database, lock, alerts, history>>

\* The scheduler job of a source has max_instances=1: the worker never runs
\* one source in two threads.
BeginScheduled(t, s) ==
    /\ t \in WorkerThreads
    /\ \A u \in WorkerThreads : exec[u].source # s
    /\ LoadActiveSource(t, s)

\* POST /sources/{id}/crawl of the API and of the admin pages.
BeginManual(t, s) ==
    /\ t \in ApiThreads
    /\ LoadActiveSource(t, s)

\* mutant of LockFree: pg_advisory_lock's answer is not looked at
LockFreeIgnored(s) == TRUE

LockFree(s) == lock[s] = None

\* pg_try_advisory_lock on the execution's own connection.
TryLock(t) ==
    /\ pc[t] = "loaded"
    /\ LET s == exec[t].source IN
        \/ /\ LockFree(s)
           /\ lock' = [lock EXCEPT ![s] = t]
           /\ pc' = [pc EXCEPT ![t] = "locked"]
        \/ /\ ~LockFree(s)
           /\ pc' = [pc EXCEPT ![t] = "refused"]
           /\ UNCHANGED lock
    /\ UNCHANGED <<database, exec, alerts, history>>

InsertRun(s, status) ==
    /\ nextRun <= MaxRuns
    /\ runs' = [runs EXCEPT ![nextRun] = NewRow(s, status)]
    /\ nextRun' = nextRun + 1

\* _record_skipped: if the source is gone the foreign key refuses the row.
RecordSkipped(t) ==
    /\ pc[t] = "refused"
    /\ \/ /\ Present(exec[t].source)
          /\ InsertRun(exec[t].source, "skipped")
       \/ /\ ~Present(exec[t].source)
          /\ UNCHANGED <<runs, nextRun>>
    /\ pc' = [pc EXCEPT ![t] = "idle"]
    /\ exec' = [exec EXCEPT ![t] = NoExec]
    /\ UNCHANGED <<source, deleting, aged, lock, alerts, history>>

\* The crawler works on a copy of the configuration (_to_crawl_source).
Started(e, config) == [e EXCEPT !.run = nextRun, !.config = config]

\* mutant of MayStart: the source is not read again under the lock
MayStartUnread(s) == Present(s)

MayStart(s) == Present(s) /\ source[s].active

\* _start_run: the source is read again under the lock; a missing or inactive
\* one ends the execution without a row, else the RUNNING row is committed.
\* Without an answer to that the error leaves run_source: nobody knows of the
\* row.
StartRun(t) ==
    /\ pc[t] = "locked"
    /\ LET s == exec[t].source IN
        \/ /\ MayStart(s)
           /\ InsertRun(s, "running")
           /\ \/ /\ pc' = [pc EXCEPT ![t] = "crawling"]
                 /\ exec' = [exec EXCEPT ![t] = Started(@, source[s].config)]
                 /\ UNCHANGED orphans
              \/ /\ pc' = [pc EXCEPT ![t] = "releasing"]
                 /\ orphans' = orphans \cup {nextRun}
                 /\ UNCHANGED exec
        \/ /\ ~MayStart(s)
           /\ pc' = [pc EXCEPT ![t] = "releasing"]
           /\ UNCHANGED <<runs, nextRun, exec, orphans>>
    /\ UNCHANGED <<source, deleting, aged, lock, alerts, lost, breached,
                   cleared, unanswered>>

\* The database raises before there is a RUNNING row: the error leaves
\* run_source, through the finally block if the lock is held.
StartRaises(t) ==
    /\ \/ /\ pc[t] \in {"loaded", "refused"}
          /\ pc' = [pc EXCEPT ![t] = "idle"]
          /\ exec' = [exec EXCEPT ![t] = NoExec]
       \/ /\ pc[t] = "locked"
          /\ pc' = [pc EXCEPT ![t] = "releasing"]
          /\ UNCHANGED exec
    /\ UNCHANGED <<database, lock, alerts, history>>

-----------------------------------------------------------------------------
(* The crawl and the transaction that records its result. *)

\* A CrawlResult: the number of postings, and whether a parser complained.
Crawled(e, n, p) == [e EXCEPT !.items = n, !.partial = p]

CrawlReturns(t) ==
    /\ pc[t] = "crawling"
    /\ \E n \in Items, p \in BOOLEAN :
         exec' = [exec EXCEPT ![t] = Crawled(@, n, p)]
    /\ pc' = [pc EXCEPT ![t] = "finishing"]
    /\ UNCHANGED <<database, lock, alerts, history>>

\* mutant of AfterError: no handler, the error goes straight to the finally
AfterErrorUnhandled == "releasing"

\* except Exception: every error of the crawl or of _finish_run.
AfterError == "failing"

CrawlRaises(t) ==
    /\ pc[t] = "crawling"
    /\ pc' = [pc EXCEPT ![t] = AfterError]
    /\ exec' = [exec EXCEPT ![t] = Keep(exec[t])]
    /\ UNCHANGED <<database, lock, alerts, history>>

\* mutant of Succeeded: a partial run counts as a baseline
SucceededOrPartial(r) == runs[r].status \in {"success", "partial"}

Succeeded(r) == runs[r].status = "success"

SuccessfulRuns(s) ==
    {r \in RunIds : r > aged /\ runs[r].source = s /\ Succeeded(r)}

\* is_collection_drop against the latest SUCCESS run: no run and a run of 0
\* items are no baseline.
IsCollectionDrop(previous, current) ==
    /\ previous > current
    /\ 100 * (previous - current) >= previous * DropPercent

CollectionDropped(s, n) ==
    \E b \in SuccessfulRuns(s) :
        /\ \A r \in SuccessfulRuns(s) : r <= b
        /\ IsCollectionDrop(runs[b].items, n)

\* A drop takes precedence over the crawler's own error type.
Judged(e, row, dropped) ==
    [e EXCEPT !.loaded = row,
              !.partial = FALSE,
              !.outcome = IF dropped THEN "drop"
                          ELSE IF e.partial THEN "parser" ELSE "success"]

\* The reads of _finish_run; a missing source raises.
FinishRead(t) ==
    /\ pc[t] = "finishing"
    /\ LET e == exec[t]
           s == e.source
       IN \/ /\ Present(s)
             /\ exec' = [exec EXCEPT ![t] =
                  Judged(e, source[s], CollectionDropped(s, e.items))]
             /\ pc' = [pc EXCEPT ![t] = "committing"]
          \/ /\ ~Present(s)
             /\ pc' = [pc EXCEPT ![t] = AfterError]
             /\ exec' = [exec EXCEPT ![t] = Keep(e)]
    /\ UNCHANGED <<database, lock, alerts, history>>

\* The collector or the database raises: the transaction is rolled back.
CollectRaises(t) ==
    /\ pc[t] \in {"finishing", "committing"}
    /\ pc' = [pc EXCEPT ![t] = AfterError]
    /\ exec' = [exec EXCEPT ![t] = Keep(exec[t])]
    /\ UNCHANGED <<database, lock, alerts, history>>

\* mutant of RunStatus: run.status is left alone when the crawl is partial
RunStatusForgotten(outcome) ==
    IF outcome = "success" THEN "success" ELSE "running"

\* mutant of RunStatus: the error type is stored as the status
RunStatusMixedUp(outcome) == outcome

RunStatus(outcome) == IF outcome = "success" THEN "success" ELSE "partial"

\* mutant of ResetsFailures: an incomplete crawl clears the counter
ResetsFailuresAlways(outcome) == TRUE

\* Only a SUCCESS clears consecutive_failures.
ResetsFailures(outcome) == outcome = "success"

\* mutant of FinishedSource: every column of the loaded row is written back
FinishedSourceWhole(row, e) ==
    [row EXCEPT !.config = e.config,
                      !.active = e.loaded.active,
                      !.failures = IF ResetsFailures(e.outcome) THEN 0 ELSE @]

\* The UPDATE of the source: config goes back to the copy the crawler had,
\* the counter to 0, each only if it differs from the row as loaded.
FinishedSource(row, e) ==
    [row EXCEPT
        !.config = IF e.loaded.config # e.config THEN e.config ELSE @,
        !.failures = IF ResetsFailures(e.outcome) /\ e.loaded.failures # 0
                     THEN 0 ELSE @]

Closed(row, status, n) == [row EXCEPT !.status = status, !.items = n]

CloseRun(r, status, n) == runs' = [runs EXCEPT ![r] = Closed(@, status, n)]

AfterCommit(alert) == IF alert = "none" THEN "releasing" ELSE "alerting"

\* The answer to the commit may be lost: it has taken effect, and its error
\* reaches the handler like any other.
FinishCommit(t) ==
    /\ pc[t] = "committing"
    /\ LET e == exec[t]
           s == e.source
           alert == IF e.outcome = "drop" THEN "drop" ELSE "none"
       IN /\ Present(s)
          /\ CloseRun(e.run, RunStatus(e.outcome), e.items)
          /\ source' = [source EXCEPT ![s] = FinishedSource(@, e)]
          /\ cleared' = IF RunStatus(e.outcome) = "success"
                        THEN cleared \cup {e.run} ELSE cleared
          /\ \/ /\ exec' = [exec EXCEPT ![t] = Locals(s, e.run, alert)]
                /\ pc' = [pc EXCEPT ![t] = AfterCommit(alert)]
                /\ UNCHANGED unanswered
             \/ /\ exec' = [exec EXCEPT ![t] = Keep(e)]
                /\ pc' = [pc EXCEPT ![t] = AfterError]
                /\ unanswered' = unanswered \cup {e.run}
    /\ UNCHANGED <<deleting, nextRun, aged, lock, alerts, lost, breached, orphans>>

-----------------------------------------------------------------------------
(* _mark_failed. *)

\* A missing source raises SourceNotFoundError out of run_source.
FailRead(t) ==
    /\ pc[t] = "failing"
    /\ LET s == exec[t].source IN
        \/ /\ Present(s)
           /\ exec' = [exec EXCEPT ![t].loaded = source[s]]
           /\ pc' = [pc EXCEPT ![t] = "marking"]
        \/ /\ ~Present(s)
           /\ pc' = [pc EXCEPT ![t] = "releasing"]
           /\ UNCHANGED exec
    /\ UNCHANGED <<database, lock, alerts, history>>

\* mutant of Trips: again at every later failure
TripsAgain(n) == n >= FailureThreshold

Trips(n) == n = FailureThreshold

\* The UPDATE of the source: the counter that was loaded, plus one.
FailedSource(row, e) ==
    LET n == e.loaded.failures + 1 IN
    [row EXCEPT
        !.failures = n,
        !.active = IF Trips(n) /\ e.loaded.active THEN FALSE ELSE @]

\* mutant of AfterFailRaises: the lock is released only after a recorded end
AfterFailRaisesNoFinally == "idle"

\* The finally block runs whatever happens.
AfterFailRaises == "releasing"

\* What an earlier commit of the result has written, unanswered, is written
\* over, but for the number of postings.  Of a commit that is not answered
\* itself the administrator hears nothing.
FailCommit(t) ==
    /\ pc[t] = "marking"
    /\ LET e == exec[t]
           s == e.source
           alert == IF Trips(e.loaded.failures + 1) THEN "disabled" ELSE "none"
       IN /\ Present(s)
          /\ CloseRun(e.run, "failed", runs[e.run].items)
          /\ source' = [source EXCEPT ![s] = FailedSource(@, e)]
          /\ \/ /\ exec' = [exec EXCEPT ![t] = Locals(s, e.run, alert)]
                /\ pc' = [pc EXCEPT ![t] = AfterCommit(alert)]
             \/ /\ exec' = [exec EXCEPT ![t] = Keep(e)]
                /\ pc' = [pc EXCEPT ![t] = AfterFailRaises]
    /\ UNCHANGED <<deleting, nextRun, aged, lock, alerts, history>>

\* The database refuses _mark_failed too: the row stays as it is.
FailRaises(t) ==
    /\ pc[t] \in {"failing", "marking"}
    /\ pc' = [pc EXCEPT ![t] = AfterFailRaises]
    /\ exec' = [exec EXCEPT ![t] = Keep(exec[t])]
    /\ orphans' = orphans \cup {exec[t].run}
    /\ UNCHANGED <<database, lock, alerts, lost, breached, cleared, unanswered>>

-----------------------------------------------------------------------------
(* The end of run_source, still under the lock. *)

\* mutant of AfterAlertError: the error reaches run_source's handler
AfterAlertErrorEscapes == "failing"

\* _send_operational_alert swallows what the sender raises.
AfterAlertError == "releasing"

SendAlert(t) ==
    /\ pc[t] = "alerting"
    /\ \/ /\ alerts' = alerts \cup
                {[run |-> exec[t].run, kind |-> exec[t].alert]}
          /\ pc' = [pc EXCEPT ![t] = "releasing"]
       \/ /\ pc' = [pc EXCEPT ![t] = AfterAlertError]
          /\ UNCHANGED alerts
    /\ exec' = [exec EXCEPT ![t] = Keep(exec[t])]
    /\ UNCHANGED <<database, lock, history>>

\* finally: unlock and close; on a dead connection the unlock raises and the
\* connection is discarded.  Either way this thread holds nothing any more.
Release(t) ==
    /\ pc[t] = "releasing"
    /\ lock' = [s \in Sources |-> IF lock[s] = t THEN None ELSE lock[s]]
    /\ pc' = [pc EXCEPT ![t] = "idle"]
    /\ exec' = [exec EXCEPT ![t] = NoExec]
    /\ lost' = lost \ {t}
    /\ UNCHANGED <<database, alerts, breached, orphans, cleared, unanswered>>

-----------------------------------------------------------------------------
(* The environment. *)

\* The server closes the connection that holds the lock.
LoseLockConnection(t) ==
    /\ pc[t] \in Holding
    /\ lock[exec[t].source] = t
    /\ lock' = [lock EXCEPT ![exec[t].source] = None]
    /\ lost' = lost \cup {t}
    /\ breached' = breached \cup {exec[t].source}
    /\ UNCHANGED <<database, pc, exec, alerts, orphans, cleared, unanswered>>

\* A process dies: open transactions roll back and its locks are freed.
Crash(process) ==
    /\ \E t \in process : pc[t] # "idle"
    /\ pc' = [t \in Threads |-> IF t \in process THEN "idle" ELSE pc[t]]
    /\ exec' = [t \in Threads |-> IF t \in process THEN NoExec ELSE exec[t]]
    /\ lock' = [s \in Sources |->
                  IF lock[s] \in process THEN None ELSE lock[s]]
    /\ lost' = lost \ process
    /\ orphans' = orphans \cup
         {exec[t].run : t \in {u \in process : pc[u] \in Running}}
    /\ deleting' = IF process = ApiThreads THEN {} ELSE deleting
    /\ UNCHANGED <<source, runs, nextRun, aged, alerts, breached, cleared,
                   unanswered>>

\* The administrator's form; the failure counter is not on it.
Form(row, a, c) ==
    [row EXCEPT !.status = "present", !.active = a, !.config = c]

\* SourceAdminService.create; ids of deleted sources are not used again.
AdminCreate(s) ==
    /\ source[s].status = "new"
    /\ \E a \in BOOLEAN, c \in Configs :
         source' = [source EXCEPT ![s] = Form(@, a, c)]
    /\ UNCHANGED <<deleting, runs, nextRun, aged, lock, pc, exec, alerts, history>>

\* SourceAdminService.update writes the whole form.
AdminUpdate(s) ==
    /\ Present(s)
    /\ \E a \in BOOLEAN, c \in Configs :
         /\ <<a, c>> # <<source[s].active, source[s].config>>
         /\ source' = [source EXCEPT ![s] = Form(@, a, c)]
    /\ UNCHANGED <<deleting, runs, nextRun, aged, lock, pc, exec, alerts, history>>

RowsOf(s) ==
    {r \in RunIds :
        r > aged /\ runs[r].source = s /\ runs[r].status # "deleted"}

\* SourceAdminService.delete loads the dependent rows first.  If there are
\* any it tries to null their foreign key, the database refuses and nothing
\* changes; so only the delete of a source without rows goes on.
AdminDeleteLoad(s) ==
    /\ Present(s)
    /\ s \notin deleting
    /\ RowsOf(s) = {}
    /\ deleting' = deleting \cup {s}
    /\ UNCHANGED <<source, runs, nextRun, aged, lock, pc, exec, alerts, history>>

Gone(row) == [row EXCEPT !.status = "deleted", !.active = FALSE]

\* DELETE: rows inserted since then go with the source (ON DELETE CASCADE).
AdminDeleteCommit(s) ==
    /\ s \in deleting
    /\ deleting' = deleting \ {s}
    /\ source' = [source EXCEPT ![s] = Gone(@)]
    /\ runs' = [r \in RunIds |-> IF runs[r].source = s
                                 THEN [runs[r] EXCEPT !.status = "deleted"]
                                 ELSE runs[r]]
    /\ UNCHANGED <<nextRun, aged, lock, pc, exec, alerts, history>>

\* RetentionService, once a day: the runs that began 30 days ago or earlier are
\* deleted.  No execution takes that long.
RetainRuns(k) ==
    /\ k \in (aged + 1)..(nextRun - 1)
    /\ \A t \in Threads : pc[t] \in Running => exec[t].run > k
    /\ aged' = k
    /\ UNCHANGED <<source, deleting, runs, nextRun, lock, pc, exec, alerts,
                   history>>

-----------------------------------------------------------------------------

Begin(t) == \E s \in Sources : BeginScheduled(t, s) \/ BeginManual(t, s)

\* The steps of an execution that has begun.
Proceed(t) ==
    \/ TryLock(t)
    \/ RecordSkipped(t)
    \/ StartRun(t)
    \/ StartRaises(t)
    \/ CrawlReturns(t)
    \/ CrawlRaises(t)
    \/ FinishRead(t)
    \/ CollectRaises(t)
    \/ FinishCommit(t)
    \/ FailRead(t)
    \/ FailCommit(t)
    \/ FailRaises(t)
    \/ SendAlert(t)
    \/ Release(t)

Admin(s) ==
    \/ AdminCreate(s)
    \/ AdminUpdate(s)
    \/ AdminDeleteLoad(s)
    \/ AdminDeleteCommit(s)

Next ==
    \/ \E t \in Threads : Begin(t) \/ Proceed(t) \/ LoseLockConnection(t)
    \/ \E process \in {WorkerThreads, ApiThreads} : Crash(process)
    \/ \E s \in Sources : Admin(s)
    \/ \E k \in RunIds : RetainRuns(k)

Spec == Init /\ [][Next]_vars

\* A thread that has begun goes on: HTTP requests and statements have
\* timeouts and a crawler reads a bounded number of pages.  Nothing makes
\* anybody begin a crawl, and failures of the environment need not happen.
FairSpec == Spec /\ \A t \in Threads : WF_vars(Proceed(t))

-----------------------------------------------------------------------------
(* Properties. *)

Row == [status : {"unused", "running", "success", "partial", "failed",
                  "skipped", "deleted"},
        source : Sources \cup {None},
        items  : Nat]

SourceRow == [status : {"new", "present", "deleted"}, active : BOOLEAN,
              failures : Nat, config : Configs]

Exec == [source : Sources \cup {None}, run : Nat,
         config : Configs \cup {None}, items : Nat, partial : BOOLEAN,
         loaded : SourceRow \cup {None}, outcome : Outcomes,
         alert : {"none", "disabled", "drop"}]

\* The variables have the types of their tables and locals; a row that ends
\* has one of the statuses of CrawlStatus, whichever way the crawl went.
TypeOK ==
    /\ source \in [Sources -> SourceRow]
    /\ deleting \subseteq Sources
    /\ runs \in [RunIds -> Row]
    /\ nextRun \in 1..(MaxRuns + 1)
    /\ aged \in 0..MaxRuns
    /\ lock \in [Sources -> Threads \cup {None}]
    /\ pc \in [Threads -> Pcs]
    /\ exec \in [Threads -> Exec]
    /\ alerts \subseteq [run : Nat, kind : {"none", "disabled", "drop"}]
    /\ lost \subseteq Threads
    /\ breached \subseteq Sources
    /\ orphans \subseteq Nat
    /\ cleared \subseteq Nat
    /\ unanswered \subseteq Nat

\* The lock serialises the executions of a source, across both processes and
\* through crashes: two threads are past the lock of one source only if one
\* of the two has had its lock connection cut.
ExclusiveCrawl ==
    \A t, u \in Threads :
        /\ t # u
        /\ pc[t] \in Holding /\ pc[u] \in Holding
        /\ exec[t].source = exec[u].source
        => t \in lost \/ u \in lost

Owns(t, r) == pc[t] \in Running /\ exec[t].run = r

\* A row that says RUNNING has exactly one execution that will close it, or
\* was left behind by one that a crash, a database error or a lost answer cut
\* short.  No execution writes the row of another, and it writes its own a
\* second time only if the answer to the first has been lost.
RowOwnership ==
    \A r \in RunIds :
        /\ runs[r].status = "running" =>
              r \in orphans \/ \E t \in Threads : Owns(t, r)
        /\ \A t, u \in Threads : Owns(t, r) /\ Owns(u, r) => t = u
        /\ \A t \in Threads : Owns(t, r) =>
              \/ runs[r].status \in {"running", "deleted"}
              \/ pc[t] \in {"failing", "marking"} /\ r \in unanswered

\* The FAILED rows of a source since its last success, which clears the
\* counter: the row of that success may itself have become FAILED afterwards.
FailureStreak(s) ==
    {r \in RunIds :
        /\ runs[r].source = s
        /\ runs[r].status = "failed"
        /\ ~\E q \in cleared : q > r /\ runs[q].source = s}

\* consecutive_failures agrees with the run history kept in another table:
\* PARTIAL and SKIPPED runs, crashes, rolled back transactions and lost
\* answers between a failure and the next neither clear the counter nor add
\* to it, and a run whose result is committed, unanswered and then marked
\* FAILED counts once.
CounterMatchesHistory ==
    \A s \in Sources \ breached :
        Present(s) => source[s].failures = Cardinality(FailureStreak(s))

\* The breaker opens with a single alert: of two runs of a source that both
\* announced its deactivation the second, or one between them, has recorded a
\* success.
OneDisableAlertPerStreak ==
    \A a, b \in alerts : LET s == runs[a.run].source IN
        /\ a.kind = "disabled" /\ b.kind = "disabled"
        /\ a.run < b.run
        /\ runs[b.run].source = s
        /\ s \notin breached /\ Present(s)
        => \E q \in cleared :
              a.run < q /\ q <= b.run /\ runs[q].source = s

\* No execution switches a source on again, however old the row it loaded:
\* only the administrator does.
OnlyAdminActivates ==
    [][\A s \in Sources :
        source'[s].active /\ ~source[s].active => UNCHANGED <<pc, runs>>]_vars

Final == {"success", "partial", "failed", "skipped"}

\* What a closed run says is not the last word in one case only: its own
\* execution, still under way because the answer to its commit was lost, marks
\* it FAILED.  Neither an alert that fails, nor a lock that is lost, nor
\* another execution reopens it; else it goes with its source.
ClosedRunsStand ==
    [][\A r \in RunIds :
        runs[r].status \in Final /\ runs'[r] # runs[r] =>
            \/ runs'[r].status = "deleted"
            \/ /\ r \in unanswered
               /\ runs[r].status \in {"success", "partial"}
               /\ runs'[r].status = "failed"]_vars

\* A parser that silently finds next to nothing never becomes the new
\* normal: of two successive SUCCESS runs, the first of which retention has
\* not deleted, the second is no collection drop.
NoDropBetweenSuccesses ==
    \A s \in Sources \ breached : \A a, b \in RunIds :
        /\ aged < a /\ a < b
        /\ runs[a].source = s /\ runs[b].source = s
        /\ runs[a].status = "success" /\ runs[b].status = "success"
        /\ \A q \in (a + 1)..(b - 1) :
              ~(runs[q].source = s /\ runs[q].status = "success")
        => ~IsCollectionDrop(runs[a].items, runs[b].items)

\* The record of a source as SourceHealth sees it.
Drops == {x \in Items \X Items : IsCollectionDrop(x[1], x[2])}

Begun(s) == {r \in RunIds : runs[r].source = s /\ runs[r].status # "skipped"}

Accepted(s) == {<<r, runs[r].items>> : r \in SuccessfulRuns(s)}

HealthOf(s) ==
    IF s \notin breached /\ Present(s)
    THEN [state |-> "present", active |-> source[s].active,
          failures |-> source[s].failures,
          begun |-> Begun(s), accepted |-> Accepted(s)]
    ELSE [state |-> IF s \in breached THEN "unknown" ELSE source[s].status,
          active |-> FALSE, failures |-> 0, begun |-> {}, accepted |-> {}]

Health == INSTANCE SourceHealth
            WITH health <- [s \in Sources |-> HealthOf(s)], Crawls <- RunIds

\* Crawls of one source that run side by side, are cut short or meet errors
\* count as if each had run alone, at the moment it commits: none begins while
\* the source is off, only the last one begun counts, and what was read of the
\* counter and of the baseline before is still true at the commit.
KeepsHealth == Health!Spec

\* Every lock is given back: a failing crawl, a failing database or a dead
\* connection does not keep the source from being crawled again.
LockReturned ==
    \A s \in Sources, t \in Threads : lock[s] = t ~> lock[s] # t

\* Every RUNNING row is closed unless its execution was cut short.
RunsEnd ==
    \A r \in RunIds :
        runs[r].status = "running" ~> (runs[r].status # "running" \/ r \in orphans)

\* What the documentation says of the breaker: with the counter at the
\* threshold or above, a failure switches an active source off.
FailureDisables ==
    [][\A t \in Threads : LET s == exec[t].source IN
        /\ FailCommit(t)
        /\ exec[t].loaded.active
        /\ source'[s].failures >= FailureThreshold
        /\ s \notin breached
        => ~source'[s].active]_vars

\* What the code says of the configuration it writes back: a crawl keeps its
\* own collection state there, the rest is the administrator's.  This model
\* has no such state, so no execution may change the configuration at all.
OnlyAdminConfigures ==
    [][\A s \in Sources :
        source'[s].config # source[s].config => UNCHANGED <<pc, runs>>]_vars

=============================================================================
