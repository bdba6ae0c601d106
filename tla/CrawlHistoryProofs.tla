-------------------------- MODULE CrawlHistoryProofs --------------------------
(***************************************************************************)
(* Proofs about the history of runs that CrawlExecution keeps: it agrees   *)
(* with the counter of failures, no success in it is a drop from the one   *)
(* before, the breaker is announced once, and the crawls of a source that  *)
(* loses no lock count as if each had run alone (SourceHealth).            *)
(***************************************************************************)
EXTENDS CrawlExecutionProofs, FiniteSetTheorems

-----------------------------------------------------------------------------
(* The inductive invariant. *)

\* A thread that has lost its lock is past it, and its source is breached.
LostInv == \A t \in lost : pc[t] \in Holding /\ exec[t].source \in breached

\* The run of an execution is the last of its source that can count: later
\* ones were skipped, or have gone with the source.
Latest(t) ==
    \A q \in RunIds : q > exec[t].run /\ runs[q].source = exec[t].source =>
        runs[q].status \in {"skipped", "deleted"}

\* What an execution has read of the counter and of the baseline is true until
\* it commits.
LoadedTrue(t) ==
    pc[t] \in {"committing", "marking"} =>
        exec[t].loaded.failures = source[exec[t].source].failures

JudgedTrue(t) ==
    pc[t] = "committing" /\ exec[t].outcome # "drop" =>
        ~CollectionDropped(exec[t].source, exec[t].items)

ReadInv ==
    \A t \in Threads : pc[t] \in Running /\ exec[t].source \notin breached =>
        Latest(t) /\ LoadedTrue(t) /\ JudgedTrue(t)

\* A new source has no history, and only a deleted one has deleted runs.
AgeInv ==
    \A s \in Sources :
        /\ source[s].status = "new" =>
              /\ source[s].failures = 0
              /\ \A r \in RunIds : runs[r].source # s
        /\ \A r \in RunIds : runs[r].source = s /\ runs[r].status = "deleted" =>
              source[s].status = "deleted"
        /\ s \in deleting => Present(s)

\* The runs whose execution has announced the deactivation, or is about to.
Announced ==
    {a.run : a \in {b \in alerts : b.kind = "disabled"}} \cup
    {exec[t].run : t \in {u \in Threads : pc[u] = "alerting"
                                          /\ exec[u].alert = "disabled"}}

Kept(s) == s \in Sources \ breached /\ Present(s)

\* What has cleared the counter was a success once.
ClearedInv ==
    /\ cleared \subseteq RunIds
    /\ \A q \in cleared : runs[q].status \in {"success", "failed", "deleted"}
    /\ \A q \in RunIds : runs[q].status = "success" => q \in cleared

Clears(s, q) == q \in cleared /\ runs[q].source = s

\* After an announcement the counter stays at the threshold or above it, until
\* a run succeeds.
AlertInv ==
    \A r \in Announced :
        /\ r \in RunIds
        /\ runs[r].source \in Sources
        /\ Kept(runs[r].source) =>
              /\ runs[r].status = "failed"
              /\ \/ source[runs[r].source].failures >= FailureThreshold
                 \/ \E q \in RunIds : Clears(runs[r].source, q) /\ q > r

PairInv ==
    \A a, b \in Announced :
        /\ a < b
        /\ runs[a].source = runs[b].source
        /\ Kept(runs[a].source)
        => \E q \in RunIds : Clears(runs[a].source, q) /\ a < q /\ q <= b

HInv ==
    /\ IInv
    /\ LostInv
    /\ ReadInv
    /\ AgeInv
    /\ ClearedInv
    /\ CounterMatchesHistory
    /\ NoDropBetweenSuccesses
    /\ AlertInv
    /\ PairInv

-----------------------------------------------------------------------------
(* What the steps do to the tables. *)

\* The row that t inserts.
Inserts(t, status) ==
    /\ pc[t] # "idle"
    /\ Present(exec[t].source)
    /\ nextRun \in RunIds
    /\ runs' = [runs EXCEPT ![nextRun] = NewRow(exec[t].source, status)]
    /\ source' = source
    /\ deleting' = deleting
    /\ breached' = breached
    /\ lost' = lost
    /\ alerts' = alerts
    /\ aged' = aged
    /\ cleared' = cleared
    /\ \A u \in Threads \ {t} : pc'[u] = pc[u] /\ exec'[u] = exec[u]
    /\ \/ status = "skipped" /\ pc'[t] = "idle"
       \/ /\ status = "running" /\ pc[t] = "locked"
          /\ source[exec[t].source].active
          /\ \/ pc'[t] = "releasing"
             \/ /\ pc'[t] = "crawling"
                /\ exec'[t].source = exec[t].source
                /\ exec'[t].run = nextRun

\* Nothing that counts is changed.
Idles ==
    /\ runs' = runs
    /\ aged' = aged
    /\ cleared' = cleared
    /\ \A s \in Sources :
          /\ source'[s].failures = source[s].failures
          /\ source'[s].status = source[s].status

\* The tables as a whole: a step inserts a row, closes one, creates or
\* deletes a source, forgets old rows, or changes nothing that counts.
LEMMA TableStep ==
    ASSUME TypeOK, ExecInv, [Next]_vars
    PROVE  \/ Idles
           \/ \E t \in Threads : FinishCommit(t) \/ FailCommit(t)
           \/ \E t \in Threads, status \in {"running", "skipped"} : Inserts(t, status)
           \/ \E s \in Sources : AdminCreate(s) \/ AdminDeleteCommit(s)
           \/ \E k \in RunIds : RetainRuns(k)
<1> USE DEF database, history
<1>1. ASSUME NEW t \in Threads, Proceed(t), ~FinishCommit(t), ~FailCommit(t)
      PROVE  Idles \/ \E status \in {"running", "skipped"} : Inserts(t, status)
  <2>1. CASE RecordSkipped(t)
    <3>1. CASE Present(exec[t].source)
      <4>1. Inserts(t, "skipped")
        BY <2>1, <3>1 DEF RecordSkipped, InsertRun, Inserts, TypeOK, RunIds
      <4> QED
        BY <4>1
    <3>2. CASE ~Present(exec[t].source)
      BY <2>1, <3>2 DEF RecordSkipped, Idles
    <3> QED
      BY <3>1, <3>2
  <2>2. CASE StartRun(t)
    <3>1. CASE MayStart(exec[t].source)
      <4>1. /\ InsertRun(exec[t].source, "running")
            /\ \/ pc'[t] = "releasing"
               \/ /\ pc'[t] = "crawling"
                  /\ exec'[t] = Started(exec[t], source[exec[t].source].config)
        BY <2>2, <3>1 DEF StartRun, TypeOK
      <4>2. exec[t] \in Exec /\ source[exec[t].source].config \in Configs
        BY <2>2 DEF StartRun, TypeOK, ExecInv, Knows, SourceRow
      <4>3. pc'[t] = "crawling" =>
              exec'[t].source = exec[t].source /\ exec'[t].run = nextRun
        BY <4>1, <4>2, StartedType DEF TypeOK
      <4>4. \A u \in Threads \ {t} : pc'[u] = pc[u] /\ exec'[u] = exec[u]
        BY <1>1, ProceedFrame
      <4>5. Inserts(t, "running")
        BY <2>2, <3>1, <4>1, <4>3, <4>4
        DEF StartRun, MayStart, InsertRun, Inserts, TypeOK, RunIds
      <4> QED
        BY <4>5
    <3>2. CASE ~MayStart(exec[t].source)
      BY <2>2, <3>2 DEF StartRun, Idles
    <3> QED
      BY <3>1, <3>2
  <2>3. CASE ~RecordSkipped(t) /\ ~StartRun(t)
    <3>1. UNCHANGED <<runs, source, aged, cleared>>
      BY <1>1, <2>3 DEF Proceed, TryLock, StartRaises, CrawlReturns, CrawlRaises,
         FinishRead, CollectRaises, FailRead, FailRaises, SendAlert, Release
    <3> QED
      BY <3>1 DEF Idles
  <2> QED
    BY <2>1, <2>2, <2>3
<1>2. ASSUME NEW s \in Sources, AdminUpdate(s)
      PROVE  Idles
  <2>1. PICK a \in BOOLEAN, c \in Configs :
          source' = [source EXCEPT ![s] = Form(@, a, c)]
    BY <1>2 DEF AdminUpdate
  <2>2. source[s] \in SourceRow /\ source[s].status = "present"
    BY <1>2 DEF AdminUpdate, Present, TypeOK
  <2>3. /\ Form(source[s], a, c).failures = source[s].failures
        /\ Form(source[s], a, c).status = "present"
    BY <2>2 DEF Form, SourceRow
  <2> QED
    BY <1>2, <2>1, <2>2, <2>3 DEF AdminUpdate, Idles, TypeOK
<1>3. ASSUME NEW s \in Sources, AdminDeleteLoad(s)
      PROVE  Idles
  BY <1>3 DEF AdminDeleteLoad, Idles
<1>4. ASSUME NEW t \in Threads, Begin(t) \/ LoseLockConnection(t)
      PROVE  Idles
  BY <1>4 DEF Begin, BeginScheduled, BeginManual, LoadActiveSource,
     LoseLockConnection, Idles
<1>5. ASSUME NEW process, Crash(process)
      PROVE  Idles
  BY <1>5 DEF Crash, Idles
<1>6. CASE UNCHANGED vars
  BY <1>6 DEF vars, Idles
<1> QED
  BY <1>1, <1>2, <1>3, <1>4, <1>5, <1>6 DEF Next, Admin

\* What a source row says after each of the four kinds of write.
LEMMA FormFields ==
    ASSUME NEW row \in SourceRow, NEW a \in BOOLEAN, NEW c \in Configs
    PROVE  /\ Form(row, a, c).failures = row.failures
           /\ Form(row, a, c).status = "present"
           /\ Form(row, a, c).active = a
BY DEF Form, SourceRow

LEMMA GoneFields ==
    ASSUME NEW row \in SourceRow
    PROVE  /\ Gone(row).failures = row.failures
           /\ Gone(row).status = "deleted"
BY DEF Gone, SourceRow

LEMMA FinishedFields ==
    ASSUME NEW row \in SourceRow, NEW e \in Exec
    PROVE  /\ FinishedSource(row, e).status = row.status
           /\ FinishedSource(row, e).active = row.active
           /\ FinishedSource(row, e).failures =
                IF e.outcome = "success" /\ e.loaded.failures # 0
                THEN 0 ELSE row.failures
BY DEF FinishedSource, ResetsFailures, SourceRow

LEMMA FailedFields ==
    ASSUME NEW row \in SourceRow, NEW e \in Exec, e.loaded \in SourceRow
    PROVE  /\ FailedSource(row, e).status = row.status
           /\ FailedSource(row, e).failures = e.loaded.failures + 1
           /\ FailedSource(row, e).active =
                IF Trips(e.loaded.failures + 1) /\ e.loaded.active
                THEN FALSE ELSE row.active
<1> DEFINE n == e.loaded.failures + 1
           b == IF Trips(n) /\ e.loaded.active THEN FALSE ELSE row.active
<1>1. FailedSource(row, e) = [row EXCEPT !.failures = n, !.active = b]
  BY Zenon DEF FailedSource
<1> HIDE DEF n, b
<1>2. /\ FailedSource(row, e).status = row.status
      /\ FailedSource(row, e).failures = n
      /\ FailedSource(row, e).active = b
  BY <1>1 DEF SourceRow
<1> QED
  BY <1>2 DEF n, b

\* The execution that records its success, or what else it was.
LEMMA FinishFacts ==
    ASSUME IInv, NEW t \in Threads, FinishCommit(t)
    PROVE  LET e == exec[t]
               s == e.source
               r == e.run IN
           /\ s \in Sources /\ r \in RunIds /\ Present(s)
           /\ runs[r].source = s
           /\ runs[r].status \in {"running", "deleted"}
           /\ \A q \in RunIds \ {r} : runs'[q] = runs[q]
           /\ runs'[r].source = s
           /\ runs'[r].items = e.items
           /\ runs'[r].status = RunStatus(e.outcome)
           /\ \A p \in Sources \ {s} : source'[p] = source[p]
           /\ source'[s].status = source[s].status
           /\ source'[s].active = source[s].active
           /\ source'[s].failures =
                IF e.outcome = "success" /\ e.loaded.failures # 0
                THEN 0 ELSE source[s].failures
           /\ e.items \in Nat /\ e.outcome \in Outcomes
           /\ pc[t] = "committing"
           /\ \/ pc'[t] \in {"releasing", "alerting"}
              \/ pc'[t] = "failing" /\ exec'[t].run = r
           /\ exec'[t].alert # "disabled"
           /\ cleared' = IF e.outcome = "success" THEN cleared \cup {r}
                         ELSE cleared
           /\ r > aged
           /\ UNCHANGED <<deleting, nextRun, aged, alerts, lost, breached>>
           /\ \A u \in Threads \ {t} : pc'[u] = pc[u] /\ exec'[u] = exec[u]
<1> USE DEF IInv
<1> DEFINE e == exec[t]
           s == e.source
           r == e.run
<1>1. /\ e \in Exec /\ s \in Sources /\ e.config \in Configs
      /\ e.loaded \in SourceRow /\ r \in RunIds /\ r > aged
  BY ConstantsOK DEF FinishCommit, TypeOK, ExecInv, Knows, Running, RunIds
<1>2. source[s] \in SourceRow /\ runs[r] \in Row
  BY <1>1 DEF TypeOK
<1>3. runs[r].source = s /\ runs[r].status \in {"running", "deleted"}
  BY DEF FinishCommit, OwnerInv, Running
<1>4. /\ \A q \in RunIds \ {r} : runs'[q] = runs[q]
      /\ runs'[r] = Closed(runs[r], RunStatus(e.outcome), e.items)
  BY <1>1 DEF FinishCommit, CloseRun, TypeOK
<1>5. /\ runs'[r].source = s
      /\ runs'[r].items = e.items
      /\ runs'[r].status = RunStatus(e.outcome)
  BY <1>2, <1>3, <1>4 DEF Closed, Row
<1>6. /\ \A p \in Sources \ {s} : source'[p] = source[p]
      /\ source'[s] = FinishedSource(source[s], e)
  BY <1>1 DEF FinishCommit, TypeOK
<1>7. /\ pc[t] = "committing"
      /\ \/ pc'[t] \in {"releasing", "alerting"}
         \/ pc'[t] = "failing" /\ exec'[t].run = r
      /\ exec'[t].alert # "disabled"
      /\ \A u \in Threads \ {t} : pc'[u] = pc[u] /\ exec'[u] = exec[u]
  BY DEF FinishCommit, AfterCommit, AfterError, TypeOK, Locals, Keep
<1>8. /\ UNCHANGED <<deleting, nextRun, aged, alerts, lost, breached>> /\ Present(s)
      /\ cleared' = IF e.outcome = "success" THEN cleared \cup {r} ELSE cleared
  BY DEF FinishCommit, RunStatus
<1>9. e.items \in Nat /\ e.outcome \in Outcomes
  BY <1>1 DEF Exec
<1>10. /\ source'[s].status = source[s].status
       /\ source'[s].active = source[s].active
       /\ source'[s].failures =
            IF e.outcome = "success" /\ e.loaded.failures # 0
            THEN 0 ELSE source[s].failures
  <2> HIDE DEF e, s
  <2>1. /\ FinishedSource(source[s], e).status = source[s].status
        /\ FinishedSource(source[s], e).active = source[s].active
        /\ FinishedSource(source[s], e).failures =
             IF e.outcome = "success" /\ e.loaded.failures # 0
             THEN 0 ELSE source[s].failures
    BY <1>1, <1>2, FinishedFields
  <2>2. QED
    BY <1>6, <2>1
<1>11. QED
  BY <1>1, <1>3, <1>4, <1>5, <1>6, <1>7, <1>8, <1>9, <1>10

\* The execution that records its failure.
LEMMA FailFacts ==
    ASSUME IInv, NEW t \in Threads, FailCommit(t)
    PROVE  LET e == exec[t]
               s == e.source
               r == e.run
               n == e.loaded.failures + 1 IN
           /\ s \in Sources /\ r \in RunIds /\ Present(s)
           /\ runs[r].source = s
           /\ runs[r].status \in {"running", "deleted", "success", "partial"}
           /\ \A q \in RunIds \ {r} : runs'[q] = runs[q]
           /\ runs'[r].source = s
           /\ runs'[r].status = "failed"
           /\ \A p \in Sources \ {s} : source'[p] = source[p]
           /\ source'[s].status = source[s].status
           /\ source'[s].failures = n
           /\ source'[s].active = IF n = FailureThreshold /\ e.loaded.active
                                  THEN FALSE ELSE source[s].active
           /\ n \in Nat
           /\ pc[t] = "marking" /\ pc'[t] \in {"releasing", "alerting"}
           /\ exec'[t].run = r
           /\ exec'[t].alert = "disabled" => n = FailureThreshold
           /\ UNCHANGED <<deleting, nextRun, aged, alerts, lost, breached, cleared>>
           /\ \A u \in Threads \ {t} : pc'[u] = pc[u] /\ exec'[u] = exec[u]
<1> USE DEF IInv
<1> DEFINE e == exec[t]
           s == e.source
           r == e.run
           n == e.loaded.failures + 1
<1>1. /\ e \in Exec /\ s \in Sources
      /\ e.loaded \in SourceRow /\ r \in RunIds
  BY ConstantsOK DEF FailCommit, TypeOK, ExecInv, Knows, Running, RunIds
<1>2. source[s] \in SourceRow /\ runs[r] \in Row
  BY <1>1 DEF TypeOK
<1>3. /\ runs[r].source = s
      /\ runs[r].status \in {"running", "deleted", "success", "partial"}
  BY DEF FailCommit, OwnerInv, Running
<1>4. /\ \A q \in RunIds \ {r} : runs'[q] = runs[q]
      /\ runs'[r] = Closed(runs[r], "failed", runs[r].items)
  BY <1>1 DEF FailCommit, CloseRun, TypeOK
<1>5. /\ runs'[r].source = s
      /\ runs'[r].status = "failed"
  BY <1>2, <1>3, <1>4 DEF Closed, Row
<1>6. /\ \A p \in Sources \ {s} : source'[p] = source[p]
      /\ source'[s] = FailedSource(source[s], e)
  BY <1>1 DEF FailCommit, TypeOK
<1>7. /\ pc[t] = "marking" /\ pc'[t] \in {"releasing", "alerting"}
      /\ exec'[t].run = r
      /\ exec'[t].alert = "disabled" => Trips(n)
      /\ \A u \in Threads \ {t} : pc'[u] = pc[u] /\ exec'[u] = exec[u]
  BY DEF FailCommit, AfterCommit, AfterFailRaises, TypeOK, Locals, Keep
<1>8. /\ UNCHANGED <<deleting, nextRun, aged, alerts, lost, breached, cleared>>
      /\ Present(s)
  BY DEF FailCommit, history
<1>9. n \in Nat
  BY <1>1 DEF SourceRow
<1>10. /\ source'[s].status = source[s].status
       /\ source'[s].failures = n
       /\ source'[s].active = IF Trips(n) /\ e.loaded.active
                              THEN FALSE ELSE source[s].active
  <2> HIDE DEF e, s
  <2>1. /\ FailedSource(source[s], e).status = source[s].status
        /\ FailedSource(source[s], e).failures = n
        /\ FailedSource(source[s], e).active = IF Trips(n) /\ e.loaded.active
                                               THEN FALSE ELSE source[s].active
    BY <1>1, <1>2, FailedFields
  <2>2. QED
    BY <1>6, <2>1
<1>11. QED
  BY <1>1, <1>3, <1>4, <1>5, <1>6, <1>7, <1>8, <1>9, <1>10 DEF Trips

-----------------------------------------------------------------------------
(* Locks and ages. *)

\* Of the executions of a source that has lost no lock, one is past it.
LEMMA Alone ==
    ASSUME IInv, LostInv, NEW t \in Threads, NEW u \in Threads,
           pc[t] \in Holding, pc[u] \in Holding,
           exec[t].source = exec[u].source, exec[t].source \notin breached
    PROVE  t = u
BY DEF IInv, LockInv, LostInv

LEMMA LostStep ==
    ASSUME IInv, LostInv, [Next]_vars
    PROVE  LostInv'
<1> USE DEF database, history
<1>1. ASSUME NEW t \in Threads, Proceed(t)
      PROVE  LostInv'
  <2>1. \A u \in Threads \ {t} : pc'[u] = pc[u] /\ exec'[u] = exec[u]
    BY <1>1, ProceedFrame DEF IInv
  <2>2. pc'[t] # "idle" => exec'[t].source = exec[t].source
    BY <1>1, ProceedLocals DEF IInv
  <2>3. breached' = breached /\ lost' \in {lost, lost \ {t}}
    BY <1>1 DEF Proceed, TryLock, RecordSkipped, StartRun, StartRaises, CrawlReturns,
       CrawlRaises, FinishRead, CollectRaises, FinishCommit, FailRead,
       FailCommit, FailRaises, SendAlert, Release
  <2>4. pc[t] \in Holding => pc'[t] \in Holding \/ t \notin lost'
    BY <1>1 DEF IInv, TypeOK, Holding, Proceed, TryLock, RecordSkipped, StartRun,
       StartRaises, CrawlReturns, CrawlRaises, FinishRead, CollectRaises, FinishCommit,
       FailRead, FailCommit, FailRaises, SendAlert, Release, AfterError,
       AfterCommit, AfterFailRaises, AfterAlertError
  <2>5. "idle" \notin Holding /\ lost \subseteq Threads
    BY DEF Holding, IInv, TypeOK
  <2> QED
    BY <2>1, <2>2, <2>3, <2>4, <2>5 DEF LostInv
<1>2. ASSUME NEW t \in Threads, Begin(t)
      PROVE  LostInv'
  <2>1. t \notin lost
    BY <1>2 DEF Begin, BeginScheduled, BeginManual, LoadActiveSource, LostInv, Holding
  <2>2. \A u \in Threads \ {t} : pc'[u] = pc[u] /\ exec'[u] = exec[u]
    BY <1>2 DEF Begin, BeginScheduled, BeginManual, LoadActiveSource, IInv, TypeOK
  <2>3. lost' = lost /\ breached' = breached /\ lost \subseteq Threads
    BY <1>2 DEF Begin, BeginScheduled, BeginManual, LoadActiveSource, IInv, TypeOK
  <2> QED
    BY <2>1, <2>2, <2>3 DEF LostInv
<1>3. ASSUME NEW t \in Threads, LoseLockConnection(t)
      PROVE  LostInv'
  BY <1>3 DEF LoseLockConnection, LostInv
<1>4. ASSUME NEW process \in {WorkerThreads, ApiThreads}, Crash(process)
      PROVE  LostInv'
  BY <1>4 DEF Crash, LostInv, IInv, TypeOK
<1>5. ASSUME NEW s \in Sources, Admin(s)
      PROVE  LostInv'
  BY <1>5 DEF Admin, AdminCreate, AdminUpdate, AdminDeleteLoad,
              AdminDeleteCommit, LostInv
<1>6. ASSUME NEW k \in RunIds, RetainRuns(k)
      PROVE  LostInv'
  BY <1>6 DEF RetainRuns, LostInv
<1>7. CASE UNCHANGED vars
  BY <1>7 DEF vars, LostInv
<1> QED
  BY <1>1, <1>2, <1>3, <1>4, <1>5, <1>6, <1>7 DEF Next

\* Only what was found without rows is about to be deleted.
LEMMA DeletingStep ==
    ASSUME [Next]_vars, NEW s \in Sources, s \in deleting'
    PROVE  /\ s \in deleting \/ Present(s)
           /\ ~AdminDeleteCommit(s)
BY DEF Next, vars, database, history, Begin, BeginScheduled, BeginManual,
   LoadActiveSource, Proceed, TryLock, RecordSkipped, StartRun, StartRaises,
   CrawlReturns, CrawlRaises, FinishRead, CollectRaises, FinishCommit, FailRead,
   FailCommit, FailRaises, SendAlert, Release, LoseLockConnection, Crash, Admin,
   AdminCreate, AdminUpdate, AdminDeleteLoad, AdminDeleteCommit, RetainRuns

\* What the deletion of a source leaves.
LEMMA DeleteFacts ==
    ASSUME IInv, NEW s \in Sources, AdminDeleteCommit(s)
    PROVE  /\ source'[s].status = "deleted"
           /\ source'[s].failures = source[s].failures
           /\ \A p \in Sources \ {s} : source'[p] = source[p]
           /\ \A r \in RunIds :
                /\ runs'[r].source = runs[r].source
                /\ runs'[r].items = runs[r].items
                /\ runs[r].source = s => runs'[r].status = "deleted"
                /\ runs[r].source # s => runs'[r] = runs[r]
           /\ UNCHANGED <<aged, pc, exec, alerts, lost, breached, cleared>>
           /\ s \in deleting
<1>1. source[s] \in SourceRow
  BY DEF IInv, TypeOK
<1>2. /\ source'[s] = Gone(source[s])
      /\ \A p \in Sources \ {s} : source'[p] = source[p]
  BY DEF AdminDeleteCommit, IInv, TypeOK
<1>3. source'[s].status = "deleted" /\ source'[s].failures = source[s].failures
  BY <1>1, <1>2, GoneFields
<1>4. \A r \in RunIds :
        /\ runs'[r].source = runs[r].source
        /\ runs'[r].items = runs[r].items
        /\ runs[r].source = s => runs'[r].status = "deleted"
        /\ runs[r].source # s => runs'[r] = runs[r]
  BY DEF AdminDeleteCommit, IInv, TypeOK, Row
<1>5. UNCHANGED <<aged, pc, exec, alerts, lost, breached, cleared>> /\ s \in deleting
  BY DEF AdminDeleteCommit, history
<1> QED
  BY <1>2, <1>3, <1>4, <1>5

\* What the creation of a source writes.
LEMMA CreateFacts ==
    ASSUME IInv, NEW s \in Sources, AdminCreate(s)
    PROVE  /\ source[s].status = "new"
           /\ source'[s].status = "present"
           /\ source'[s].failures = source[s].failures
           /\ \A p \in Sources \ {s} : source'[p] = source[p]
           /\ UNCHANGED <<runs, aged, pc, exec, alerts, lost, breached, cleared>>
<1>1. PICK a \in BOOLEAN, c \in Configs :
        source' = [source EXCEPT ![s] = Form(@, a, c)]
  BY DEF AdminCreate
<1>2. source[s] \in SourceRow /\ source \in [Sources -> SourceRow]
  BY DEF IInv, TypeOK
<1>3. source'[s] = Form(source[s], a, c)
  BY <1>1, <1>2
<1>4. source'[s].status = "present" /\ source'[s].failures = source[s].failures
  BY <1>2, <1>3, FormFields
<1>5. \A p \in Sources \ {s} : source'[p] = source[p]
  BY <1>1, <1>2
<1>6. source[s].status = "new" /\ UNCHANGED <<runs, aged, pc, exec, alerts, lost, breached, cleared>>
  BY DEF AdminCreate, history
<1> QED
  BY <1>4, <1>5, <1>6

\* The row that is inserted, and the others.
LEMMA InsertFacts ==
    ASSUME IInv, NEW t \in Threads, NEW status \in {"running", "skipped"},
           Inserts(t, status)
    PROVE  /\ exec[t].source \in Sources
           /\ Present(exec[t].source)
           /\ nextRun \in RunIds
           /\ runs[nextRun].source = None
           /\ runs'[nextRun].source = exec[t].source
           /\ runs'[nextRun].status = status
           /\ \A r \in RunIds \ {nextRun} : runs'[r] = runs[r]
           /\ \A r \in RunIds : r > nextRun => runs[r].source = None
           /\ UNCHANGED <<source, deleting, aged, alerts, lost, breached, cleared>>
<1>1. exec[t].source \in Sources
  BY DEF Inserts, IInv, ExecInv, Knows
<1>2. nextRun \in RunIds /\ runs \in [RunIds -> Row] /\ MaxRuns \in Nat
  BY ConstantsOK DEF Inserts, IInv, TypeOK
<1>3. \A r \in RunIds : r >= nextRun => runs[r].source = None
  BY DEF IInv, RowInv, Accounted
<1>4. /\ runs'[nextRun] = NewRow(exec[t].source, status)
      /\ \A r \in RunIds \ {nextRun} : runs'[r] = runs[r]
  BY <1>2 DEF Inserts
<1>5. runs'[nextRun].source = exec[t].source /\ runs'[nextRun].status = status
  BY <1>4 DEF NewRow
<1> QED
  BY <1>1, <1>2, <1>3, <1>4, <1>5 DEF Inserts, RunIds

LEMMA AgeStep ==
    ASSUME IInv, AgeInv, [Next]_vars
    PROVE  AgeInv'
<1> DEFINE Young(s) ==
      /\ source'[s].status = "new" =>
           /\ source'[s].failures = 0
           /\ \A r \in RunIds : runs'[r].source # s
      /\ \A r \in RunIds : runs'[r].source = s /\ runs'[r].status = "deleted" =>
           source'[s].status = "deleted"
      /\ s \in deleting' => source'[s].status = "present"
<1> SUFFICES ASSUME NEW s \in Sources PROVE Young(s)
  BY DEF AgeInv, Present
<1>n. None \notin Sources
  BY ConstantsOK
<1>d. s \in deleting' => source[s].status = "present" /\ ~AdminDeleteCommit(s)
  BY DeletingStep DEF AgeInv, Present
<1>1. CASE Idles
  BY <1>1, <1>d DEF Idles, AgeInv
<1>2. ASSUME NEW t \in Threads, FinishCommit(t)
      PROVE  Young(s)
  BY <1>2, <1>d, FinishFacts DEF AgeInv, Present, RunStatus
<1>3. ASSUME NEW t \in Threads, FailCommit(t)
      PROVE  Young(s)
  <2> DEFINE q == exec[t].source
             r == exec[t].run
  <2>1. /\ q \in Sources /\ r \in RunIds /\ source[q].status = "present"
        /\ runs'[r].source = q /\ runs[r].source = q
        /\ runs'[r].status = "failed"
        /\ \A k \in RunIds \ {r} : runs'[k] = runs[k]
        /\ \A p \in Sources \ {q} : source'[p] = source[p]
        /\ source'[q].status = source[q].status
    BY <1>3, FailFacts DEF Present
  <2> HIDE DEF q, r
  <2> QED
    BY <2>1, <1>d DEF AgeInv
<1>4. ASSUME NEW t \in Threads, NEW status \in {"running", "skipped"}, Inserts(t, status)
      PROVE  Young(s)
  BY <1>4, <1>d, InsertFacts DEF AgeInv, Present
<1>5. ASSUME NEW p \in Sources, AdminCreate(p)
      PROVE  Young(s)
  BY <1>5, <1>d, CreateFacts DEF AgeInv
<1>6. ASSUME NEW p \in Sources, AdminDeleteCommit(p)
      PROVE  Young(s)
  BY <1>6, <1>d, DeleteFacts DEF AgeInv
<1>7. ASSUME NEW k \in RunIds, RetainRuns(k)
      PROVE  Young(s)
  BY <1>7, <1>d DEF RetainRuns, AgeInv
<1> HIDE DEF Young
<1> QED
  BY <1>1, <1>2, <1>3, <1>4, <1>5, <1>6, <1>7, TableStep DEF IInv

LEMMA ClearedStep ==
    ASSUME IInv, AgeInv, ClearedInv, [Next]_vars
    PROVE  ClearedInv'
<1>1. CASE Idles
  BY <1>1 DEF Idles, ClearedInv
<1>2. ASSUME NEW t \in Threads, FinishCommit(t)
      PROVE  ClearedInv'
  <2> DEFINE r == exec[t].run
  <2>1. /\ r \in RunIds /\ runs[r].source \in Sources
        /\ Present(runs[r].source)
        /\ runs[r].status \in {"running", "deleted"}
        /\ \A q \in RunIds \ {r} : runs'[q] = runs[q]
        /\ runs'[r].status = RunStatus(exec[t].outcome)
        /\ cleared' = IF exec[t].outcome = "success" THEN cleared \cup {r}
                      ELSE cleared
    BY <1>2, FinishFacts
  <2>2. runs[r].status = "running"
    BY <2>1 DEF AgeInv, Present
  <2>3. r \notin cleared
    BY <2>2 DEF ClearedInv
  <2> HIDE DEF r
  <2> QED
    BY <2>1, <2>3 DEF ClearedInv, RunStatus
<1>3. ASSUME NEW t \in Threads, FailCommit(t)
      PROVE  ClearedInv'
  <2>1. PICK r : r = exec[t].run
    OBVIOUS
  <2>2. /\ \A q \in RunIds \ {r} : runs'[q] = runs[q]
        /\ runs'[r].status = "failed"
        /\ cleared' = cleared
    BY <1>3, <2>1, FailFacts
  <2> QED
    BY <2>2 DEF ClearedInv
<1>4. ASSUME NEW t \in Threads, NEW status \in {"running", "skipped"}, Inserts(t, status)
      PROVE  ClearedInv'
  <2>1. runs[nextRun].status = "unused" /\ nextRun \in RunIds
    BY <1>4 DEF Inserts, IInv, RowInv, Accounted, TypeOK
  <2> QED
    BY <1>4, <2>1, InsertFacts DEF ClearedInv
<1>5. ASSUME NEW p \in Sources, AdminCreate(p)
      PROVE  ClearedInv'
  BY <1>5, CreateFacts DEF ClearedInv
<1>6. ASSUME NEW p \in Sources, AdminDeleteCommit(p)
      PROVE  ClearedInv'
  BY <1>6, DeleteFacts DEF ClearedInv
<1>7. ASSUME NEW k \in RunIds, RetainRuns(k)
      PROVE  ClearedInv'
  BY <1>7 DEF RetainRuns, history, ClearedInv
<1> QED
  BY <1>1, <1>2, <1>3, <1>4, <1>5, <1>6, <1>7, TableStep DEF IInv

-----------------------------------------------------------------------------
(* What an execution has read stays true. *)

\* A step by which a source neither gains nor loses a successful run leaves its
\* baseline alone.
LEMMA SameBaseline ==
    ASSUME NEW s \in Sources, aged' = aged,
           \A r \in RunIds :
             LET before == runs[r].source = s /\ runs[r].status = "success"
                 after  == runs'[r].source = s /\ runs'[r].status = "success" IN
             /\ before <=> after
             /\ after => runs'[r].items = runs[r].items
    PROVE  /\ SuccessfulRuns(s)' = SuccessfulRuns(s)
           /\ \A r \in SuccessfulRuns(s) : runs'[r].items = runs[r].items
           /\ \A n : CollectionDropped(s, n)' <=> CollectionDropped(s, n)
<1>1. SuccessfulRuns(s)' = SuccessfulRuns(s)
  BY DEF SuccessfulRuns, Succeeded
<1>2. \A r \in SuccessfulRuns(s) : runs'[r].items = runs[r].items
  BY DEF SuccessfulRuns, Succeeded
<1>3. ASSUME NEW n
      PROVE  CollectionDropped(s, n)' <=> CollectionDropped(s, n)
  BY <1>1, <1>2 DEF CollectionDropped
<1> QED
  BY <1>1, <1>2, <1>3

\* What thread u has read, said with its source.
LEMMA ReadBy ==
    ASSUME ReadInv, NEW u \in Threads, pc[u] \in Running,
           NEW s \in Sources, exec[u].source = s, s \notin breached
    PROVE  /\ \A q \in RunIds : q > exec[u].run /\ runs[q].source = s =>
                runs[q].status \in {"skipped", "deleted"}
           /\ pc[u] \in {"committing", "marking"} =>
                exec[u].loaded.failures = source[s].failures
           /\ pc[u] = "committing" /\ exec[u].outcome # "drop" =>
                ~CollectionDropped(s, exec[u].items)
BY DEF ReadInv, Latest, LoadedTrue, JudgedTrue

LEMMA ReadNext ==
    ASSUME ExecInv',
           \A u \in Threads, s \in Sources :
             pc'[u] \in Running /\ exec'[u].source = s /\ s \notin breached' =>
               /\ \A q \in RunIds : q > exec'[u].run /\ runs'[q].source = s =>
                    runs'[q].status \in {"skipped", "deleted"}
               /\ pc'[u] \in {"committing", "marking"} =>
                    exec'[u].loaded.failures = source'[s].failures
               /\ pc'[u] = "committing" /\ exec'[u].outcome # "drop" =>
                    \A n : n = exec'[u].items => ~CollectionDropped(s, n)'
    PROVE  ReadInv'
<1> SUFFICES ASSUME NEW u \in Threads, pc'[u] \in Running,
                    exec'[u].source \notin breached'
             PROVE  Latest(u)' /\ LoadedTrue(u)' /\ JudgedTrue(u)'
  BY DEF ReadInv
<1>1. PICK s : s = exec'[u].source
  OBVIOUS
<1>2. PICK n : n = exec'[u].items
  OBVIOUS
<1>3. s \in Sources
  BY <1>1 DEF ExecInv, Knows, Running
<1>4. Latest(u)' /\ LoadedTrue(u)'
  BY <1>1, <1>3 DEF Latest, LoadedTrue
<1>5. pc'[u] = "committing" /\ exec'[u].outcome # "drop" => ~CollectionDropped(s, n)'
  BY <1>1, <1>2, <1>3
<1>6. JudgedTrue(u)'
  BY <1>1, <1>2, <1>5 DEF JudgedTrue, CollectionDropped, SuccessfulRuns, Succeeded
<1> QED
  BY <1>4, <1>6

\* The locks that have been lost stay counted.
LEMMA BreachedGrows ==
    ASSUME [Next]_vars
    PROVE  breached \subseteq breached'
BY DEF Next, vars, database, history, Begin, BeginScheduled, BeginManual,
   LoadActiveSource, Proceed, TryLock, RecordSkipped, StartRun, StartRaises,
   CrawlReturns, CrawlRaises, FinishRead, CollectRaises, FinishCommit, FailRead,
   FailCommit, FailRaises, SendAlert, Release, LoseLockConnection, Crash, Admin,
   AdminCreate, AdminUpdate, AdminDeleteLoad, AdminDeleteCommit, RetainRuns

\* A thread goes on itself, or is where it was, or has not begun a run.
LEMMA ThreadStep ==
    ASSUME TypeOK, ExecInv, [Next]_vars, NEW u \in Threads, pc'[u] \in Running
    PROVE  Proceed(u) \/ (pc'[u] = pc[u] /\ exec'[u] = exec[u])
<1>1. ASSUME NEW t \in Threads, Proceed(t), t # u
      PROVE  pc'[u] = pc[u] /\ exec'[u] = exec[u]
  BY <1>1, ProceedFrame
<1>2. ASSUME NEW t \in Threads, Begin(t)
      PROVE  pc'[u] = pc[u] /\ exec'[u] = exec[u]
  BY <1>2 DEF Begin, BeginScheduled, BeginManual, LoadActiveSource, TypeOK, Running
<1>3. ASSUME NEW process, Crash(process)
      PROVE  pc'[u] = pc[u] /\ exec'[u] = exec[u]
  BY <1>3 DEF Crash, Running
<1>4. ASSUME NEW t \in Threads, LoseLockConnection(t)
      PROVE  pc'[u] = pc[u] /\ exec'[u] = exec[u]
  BY <1>4 DEF LoseLockConnection
<1>5. ASSUME NEW s \in Sources, Admin(s)
      PROVE  pc'[u] = pc[u] /\ exec'[u] = exec[u]
  BY <1>5 DEF Admin, AdminCreate, AdminUpdate, AdminDeleteLoad, AdminDeleteCommit
<1>6. ASSUME NEW k \in RunIds, RetainRuns(k)
      PROVE  pc'[u] = pc[u] /\ exec'[u] = exec[u]
  BY <1>6 DEF RetainRuns
<1>7. CASE UNCHANGED vars
  BY <1>7 DEF vars
<1> QED
  BY <1>1, <1>2, <1>3, <1>4, <1>5, <1>6, <1>7 DEF Next

\* What an execution reads, it reads as it is.
LEMMA OwnReads ==
    ASSUME IInv, NEW u \in Threads, Proceed(u), NEW s \in Sources,
           pc'[u] \in Running, exec'[u].source = s, ~StartRun(u)
    PROVE  /\ pc[u] \in Running
           /\ exec[u].source = s
           /\ exec'[u].run = exec[u].run
           /\ pc'[u] \in {"committing", "marking"} =>
                exec'[u].loaded.failures = source[s].failures
           /\ pc'[u] = "committing" /\ exec'[u].outcome # "drop" =>
                \A n : n = exec'[u].items => ~CollectionDropped(s, n)
<1> USE DEF IInv
<1>1. pc[u] \in Running /\ exec[u].source = s /\ exec'[u].run = exec[u].run
  BY ProceedLocals, ProceedFrame DEF Running
<1>2. exec[u] \in Exec /\ source[s] \in SourceRow
  BY DEF TypeOK
<1>3. CASE pc'[u] = "committing"
  <2>1. FinishRead(u) /\ Present(s)
    BY <1>1, <1>3 DEF TypeOK, Proceed, TryLock, RecordSkipped, StartRun,
       StartRaises, CrawlReturns, CrawlRaises, FinishRead, CollectRaises, FinishCommit,
       FailRead, FailCommit, FailRaises, SendAlert, Release, AfterError,
       AfterCommit, AfterFailRaises, AfterAlertError
  <2>2. PICK dropped \in BOOLEAN :
          /\ dropped = CollectionDropped(s, exec[u].items)
          /\ exec'[u] = Judged(exec[u], source[s], dropped)
    BY <1>1, <2>1 DEF FinishRead, TypeOK, CollectionDropped
  <2>3. /\ Judged(exec[u], source[s], dropped).loaded = source[s]
        /\ Judged(exec[u], source[s], dropped).items = exec[u].items
        /\ dropped => Judged(exec[u], source[s], dropped).outcome = "drop"
    BY <1>2 DEF Judged, Exec
  <2> QED
    BY <1>1, <1>3, <2>2, <2>3
<1>4. CASE pc'[u] = "marking"
  <2>1. FailRead(u) /\ Present(s)
    BY <1>1, <1>4 DEF TypeOK, Proceed, TryLock, RecordSkipped, StartRun,
       StartRaises, CrawlReturns, CrawlRaises, FinishRead, CollectRaises, FinishCommit,
       FailRead, FailCommit, FailRaises, SendAlert, Release, AfterError,
       AfterCommit, AfterFailRaises, AfterAlertError
  <2>2. exec'[u].loaded = source[s]
    BY <1>1, <1>2, <2>1 DEF FailRead, TypeOK, Exec
  <2> QED
    BY <1>1, <1>4, <2>2
<1> QED
  BY <1>1, <1>3, <1>4

LEMMA ReadStep ==
    ASSUME IInv, IInv', LostInv, ReadInv, [Next]_vars
    PROVE  ReadInv'
<1> DEFINE Reads(u, s) ==
      /\ \A q \in RunIds : q > exec'[u].run /\ runs'[q].source = s =>
           runs'[q].status \in {"skipped", "deleted"}
      /\ pc'[u] \in {"committing", "marking"} =>
           exec'[u].loaded.failures = source'[s].failures
      /\ pc'[u] = "committing" /\ exec'[u].outcome # "drop" =>
           \A n : n = exec'[u].items => ~CollectionDropped(s, n)'
<1> SUFFICES ASSUME NEW u \in Threads, NEW s \in Sources, pc'[u] \in Running,
                    exec'[u].source = s, s \notin breached'
             PROVE  Reads(u, s)
  BY ReadNext DEF IInv
<1>b. s \notin breached
  BY BreachedGrows
<1>t. Proceed(u) \/ (pc'[u] = pc[u] /\ exec'[u] = exec[u])
  BY ThreadStep DEF IInv
<1>h. Running \subseteq Holding
  BY DEF Running, Holding
<1>i. "idle" \notin Running /\ "releasing" \notin Running /\ "alerting" \notin Running
  BY DEF Running
\* The thread stays where it is, and nothing that it has read changes.
<1>s. ASSUME pc'[u] = pc[u], exec'[u] = exec[u],
             source'[s].failures = source[s].failures,
             \A n : CollectionDropped(s, n)' => CollectionDropped(s, n),
             \A q \in RunIds : runs'[q].source = s =>
               \/ runs'[q].source = runs[q].source /\ runs'[q].status = runs[q].status
               \/ runs'[q].status \in {"skipped", "deleted"}
      PROVE  Reads(u, s)
  BY <1>b, <1>s, ReadBy
<1>1. CASE Idles
  <2>1. \A n : CollectionDropped(s, n)' <=> CollectionDropped(s, n)
    BY <1>1, SameBaseline DEF Idles
  <2>2. CASE pc'[u] = pc[u] /\ exec'[u] = exec[u]
    BY <1>1, <1>s, <2>1, <2>2 DEF Idles
  <2>3. CASE Proceed(u)
    <3>1. ~StartRun(u)
      <4> SUFFICES ASSUME StartRun(u) PROVE FALSE
        OBVIOUS
      <4>1. pc'[u] = "crawling"
        BY <1>i DEF StartRun, IInv, TypeOK
      <4>2. /\ runs' = [runs EXCEPT ![nextRun] = NewRow(exec[u].source, "running")]
            /\ nextRun \in RunIds
        BY <1>i, <4>1 DEF StartRun, InsertRun, IInv, TypeOK, RunIds
      <4>3. runs[nextRun].source = None
        BY <4>2 DEF IInv, RowInv, Accounted, TypeOK
      <4>4. runs'[nextRun].source = exec[u].source
        BY <4>2 DEF NewRow, IInv, TypeOK
      <4>5. exec[u].source \in Sources
        BY DEF StartRun, IInv, ExecInv, Knows
      <4> QED
        BY <1>1, <4>3, <4>4, <4>5, ConstantsOK DEF Idles
    <3>2. /\ pc[u] \in Running
          /\ exec[u].source = s
          /\ exec'[u].run = exec[u].run
          /\ pc'[u] \in {"committing", "marking"} =>
               exec'[u].loaded.failures = source[s].failures
          /\ pc'[u] = "committing" /\ exec'[u].outcome # "drop" =>
               \A n : n = exec'[u].items => ~CollectionDropped(s, n)
      BY <2>3, <3>1, OwnReads
    <3>3. \A q \in RunIds : q > exec[u].run /\ runs[q].source = s =>
            runs[q].status \in {"skipped", "deleted"}
      BY <1>b, <3>2, ReadBy
    <3> QED
      BY <1>1, <2>1, <3>2, <3>3 DEF Idles
  <2> QED
    BY <1>t, <2>2, <2>3
<1>2. ASSUME NEW t \in Threads, NEW status \in {"running", "skipped"}, Inserts(t, status)
      PROVE  Reads(u, s)
  <2>1. CASE u = t
    <3>1. pc'[u] = "crawling" /\ exec'[u].run = nextRun
      BY <1>i, <1>2, <2>1 DEF Inserts
    <3>2. \A q \in RunIds : q > nextRun => runs'[q].source = None
      BY <1>2, InsertFacts DEF RunIds
    <3> QED
      BY <3>1, <3>2, ConstantsOK
  <2>2. CASE u # t
    <3>1. pc'[u] = pc[u] /\ exec'[u] = exec[u]
      BY <1>2, <2>2 DEF Inserts
    <3>2. status = "running" => exec[t].source # s
      <4>1. status = "running" => pc[t] \in Holding
        BY <1>2 DEF Inserts, Holding
      <4> QED
        BY <1>b, <1>h, <2>2, <3>1, <4>1, Alone
    <3>3. /\ runs[nextRun].source = None /\ nextRun \in RunIds
          /\ runs'[nextRun].source = exec[t].source
          /\ runs'[nextRun].status = status
          /\ \A r \in RunIds \ {nextRun} : runs'[r] = runs[r]
          /\ source' = source /\ aged' = aged
      BY <1>2, InsertFacts
    <3>4. \A n : CollectionDropped(s, n)' <=> CollectionDropped(s, n)
      BY <3>3, SameBaseline, ConstantsOK
    <3> QED
      BY <1>s, <3>1, <3>2, <3>3, <3>4
  <2> QED
    BY <2>1, <2>2
<1>3. ASSUME NEW t \in Threads, FinishCommit(t) \/ FailCommit(t)
      PROVE  Reads(u, s)
  <2>1. /\ pc[t] \in Running
        /\ \/ pc'[t] \notin Running
           \/ pc'[t] = "failing" /\ exec'[t].run = exec[t].run
        /\ aged' = aged
        /\ \A v \in Threads \ {t} : pc'[v] = pc[v] /\ exec'[v] = exec[v]
        /\ \A q \in RunIds \ {exec[t].run} : runs'[q] = runs[q]
        /\ runs'[exec[t].run].source = exec[t].source
        /\ runs[exec[t].run].source = exec[t].source
        /\ \A p \in Sources \ {exec[t].source} : source'[p] = source[p]
    <3>1. CASE FinishCommit(t)
      BY <3>1, <1>i, FinishFacts DEF Running
    <3>2. CASE FailCommit(t)
      BY <3>2, <1>i, FailFacts DEF Running
    <3> QED
      BY <1>3, <3>1, <3>2
  <2>2. CASE u = t
    <3>1. pc'[u] = "failing" /\ exec'[u].run = exec[u].run
      BY <2>1, <2>2
    <3>2. exec[u].source = s
      BY <1>3, <2>1, <2>2, <3>1, ProceedLocals DEF IInv, Proceed
    <3>3. \A q \in RunIds : q > exec[u].run /\ runs[q].source = s =>
            runs[q].status \in {"skipped", "deleted"}
      BY <1>b, <2>1, <2>2, <3>2, ReadBy
    <3> QED
      BY <2>1, <2>2, <3>1, <3>3 DEF RunIds
  <2>3. CASE u # t
    <3>1. pc'[u] = pc[u] /\ exec'[u] = exec[u]
      BY <2>1, <2>3
    <3>2. exec[t].source # s
      BY <1>b, <1>h, <2>1, <2>3, <3>1, Alone
    <3>3. \A q \in RunIds :
            \/ runs'[q] = runs[q]
            \/ runs'[q].source # s /\ runs[q].source # s
      BY <2>1, <3>2
    <3>4. \A n : CollectionDropped(s, n)' <=> CollectionDropped(s, n)
      BY <2>1, <3>3, SameBaseline
    <3> QED
      BY <1>s, <2>1, <3>1, <3>2, <3>3, <3>4
  <2> QED
    BY <2>2, <2>3
<1>4. ASSUME NEW p \in Sources, AdminCreate(p)
      PROVE  Reads(u, s)
  <2>1. /\ runs' = runs /\ aged' = aged
        /\ source'[s].failures = source[s].failures
        /\ pc'[u] = pc[u] /\ exec'[u] = exec[u]
    BY <1>4, CreateFacts
  <2>2. \A n : CollectionDropped(s, n)' <=> CollectionDropped(s, n)
    BY <2>1, SameBaseline
  <2> QED
    BY <1>s, <2>1, <2>2
<1>5. ASSUME NEW p \in Sources, AdminDeleteCommit(p)
      PROVE  Reads(u, s)
  <2>1. /\ source'[s].failures = source[s].failures
        /\ aged' = aged
        /\ pc'[u] = pc[u] /\ exec'[u] = exec[u]
        /\ \A r \in RunIds :
             /\ runs'[r].source = runs[r].source
             /\ runs'[r].items = runs[r].items
             /\ runs[r].source = p => runs'[r].status = "deleted"
             /\ runs[r].source # p => runs'[r] = runs[r]
    BY <1>5, DeleteFacts
  <2>2. \A n : CollectionDropped(s, n)' => CollectionDropped(s, n)
    <3>1. CASE p = s
      <4>1. SuccessfulRuns(s)' = {}
        BY <2>1, <3>1 DEF SuccessfulRuns, Succeeded
      <4> QED
        BY <4>1 DEF CollectionDropped
    <3>2. CASE p # s
      BY <2>1, <3>2, SameBaseline
    <3> QED
      BY <3>1, <3>2
  <2> QED
    BY <1>s, <2>1, <2>2
<1>6. ASSUME NEW k \in RunIds, RetainRuns(k)
      PROVE  Reads(u, s)
  <2>1. /\ UNCHANGED <<source, runs, pc, exec>>
        /\ aged' = k /\ k > aged
    BY <1>6 DEF RetainRuns, IInv, TypeOK
  <2>2. \A n : CollectionDropped(s, n)' => CollectionDropped(s, n)
    <3>1. \A b : b \in SuccessfulRuns(s)' <=> b \in SuccessfulRuns(s) /\ b > k
      BY <2>1 DEF SuccessfulRuns, Succeeded, IInv, TypeOK, RunIds
    <3>2. \A b \in SuccessfulRuns(s) : b \in Int
      BY DEF SuccessfulRuns, RunIds
    <3>3. k \in Int
      BY DEF RunIds
    <3> QED
      BY <2>1, <3>1, <3>2, <3>3 DEF CollectionDropped
  <2> QED
    BY <1>s, <2>1, <2>2
<1> HIDE DEF Reads
<1> QED
  BY <1>1, <1>2, <1>3, <1>4, <1>5, <1>6, TableStep DEF IInv

-----------------------------------------------------------------------------
(* What a step does to the record of one source that has lost no lock. *)

HasEnded(table, s, r, status) == table[r].source = s /\ table[r].status = status

\* Its successes, its failures and its counter are what they were.
Untouched(s) ==
    /\ \A r \in RunIds, status \in {"success", "failed"} :
          /\ HasEnded(runs, s, r, status) <=> HasEnded(runs', s, r, status)
          /\ HasEnded(runs, s, r, status) => runs'[r].items = runs[r].items
    /\ \A r \in RunIds : Clears(s, r) <=> Clears(s, r)'
    /\ source'[s].failures = source[s].failures
    /\ source'[s].status = source[s].status

\* Its run r ends with this status, and is the last that counts.
Ends(s, r, status) ==
    /\ r \in RunIds
    /\ r > aged
    /\ Present(s)
    /\ runs[r].source = s
    /\ runs[r].status \in {"running", "success", "partial"}
    /\ HasEnded(runs', s, r, status)
    /\ \A q \in RunIds \ {r} : runs'[q] = runs[q]
    /\ \A q \in RunIds : q > r /\ runs[q].source = s =>
          runs[q].status = "skipped"
    /\ source'[s].status = source[s].status

SucceedsNow(s, r, n) ==
    /\ Ends(s, r, "success")
    /\ runs[r].status = "running"
    /\ runs'[r].items = n
    /\ cleared' = cleared \cup {r}
    /\ ~CollectionDropped(s, n)
    /\ source'[s].failures = 0
    /\ source'[s].active = source[s].active

FailsNow(s, r) ==
    /\ Ends(s, r, "failed")
    /\ cleared' = cleared
    /\ source'[s].failures = source[s].failures + 1
    /\ source'[s].active # source[s].active =>
          /\ source'[s].active = FALSE
          /\ source'[s].failures = FailureThreshold

CreatedNow(s) ==
    /\ source[s].status = "new"
    /\ source'[s].status = "present"
    /\ source'[s].failures = 0
    /\ \A r \in RunIds : runs'[r].source # s /\ runs[r].source # s

DeletedNow(s) ==
    /\ Present(s)
    /\ source'[s].status = "deleted"
    /\ \A r \in RunIds : runs'[r].source = s => runs'[r].status = "deleted"

\* The execution that ends a run, with what it had read.
LEMMA EndStep ==
    ASSUME IInv, LostInv, ReadInv, AgeInv, NEW t \in Threads,
           FinishCommit(t) \/ FailCommit(t),
           NEW s \in Sources, exec[t].source = s, s \notin breached
    PROVE  \/ /\ FinishCommit(t)
              /\ exec[t].outcome = "success"
              /\ SucceedsNow(s, exec[t].run, exec[t].items)
           \/ /\ FinishCommit(t)
              /\ exec[t].outcome # "success"
              /\ Untouched(s)
              /\ Begun(s)' = Begun(s)
              /\ source'[s].active = source[s].active
           \/ /\ FailCommit(t)
              /\ FailsNow(s, exec[t].run)
<1> DEFINE r == exec[t].run
           e == exec[t]
<1>1. pc[t] \in Running /\ Present(s)
  BY DEF FinishCommit, FailCommit, Running
<1>2. \A q \in RunIds : q > r /\ runs[q].source = s =>
        runs[q].status = "skipped"
  BY <1>1, ReadBy DEF AgeInv, Present
<1>r. r > aged
  BY <1>1 DEF IInv, ExecInv, Knows, TypeOK
<1>3. source[s] \in SourceRow
  BY DEF IInv, TypeOK
<1>4. CASE FinishCommit(t)
  <2>1. /\ r \in RunIds /\ Present(s) /\ runs[r].source = s
        /\ runs[r].status \in {"running", "deleted"}
        /\ \A q \in RunIds \ {r} : runs'[q] = runs[q]
        /\ runs'[r].source = s /\ runs'[r].items = e.items
        /\ runs'[r].status = RunStatus(e.outcome)
        /\ source'[s].status = source[s].status
        /\ source'[s].active = source[s].active
        /\ source'[s].failures =
             IF e.outcome = "success" /\ e.loaded.failures # 0
             THEN 0 ELSE source[s].failures
        /\ pc[t] = "committing"
        /\ cleared' = IF e.outcome = "success" THEN cleared \cup {r} ELSE cleared
    BY <1>4, FinishFacts
  <2>2. runs[r].status = "running"
    BY <2>1 DEF AgeInv, Present
  <2>3. e.loaded.failures = source[s].failures
    BY <1>1, <2>1, ReadBy
  <2>4. CASE e.outcome = "success"
    <3>1. ~CollectionDropped(s, e.items)
      BY <1>1, <2>1, <2>4, ReadBy
    <3>2. source'[s].failures = 0
      BY <2>1, <2>3, <2>4
    <3>3. Ends(s, r, "success")
      BY <1>2, <1>r, <2>1, <2>2, <2>4 DEF Ends, HasEnded, RunStatus
    <3> QED
      BY <1>4, <2>1, <2>2, <2>4, <3>1, <3>2, <3>3 DEF SucceedsNow
  <2>5. CASE e.outcome # "success"
    <3>1. runs'[r].status = "partial"
      BY <2>1, <2>5 DEF RunStatus
    <3>2. Untouched(s)
      BY <2>1, <2>2, <2>5, <3>1 DEF Untouched, HasEnded, Clears
    <3>3. Begun(s)' = Begun(s)
      BY <2>1, <2>2, <3>1 DEF Begun
    <3> QED
      BY <1>4, <2>1, <2>5, <3>2, <3>3
  <2> QED
    BY <2>4, <2>5
<1>5. CASE FailCommit(t)
  <2> DEFINE n == e.loaded.failures + 1
  <2>1. /\ r \in RunIds /\ Present(s) /\ runs[r].source = s
        /\ runs[r].status \in {"running", "deleted", "success", "partial"}
        /\ \A q \in RunIds \ {r} : runs'[q] = runs[q]
        /\ runs'[r].source = s
        /\ runs'[r].status = "failed"
        /\ cleared' = cleared
        /\ source'[s].status = source[s].status
        /\ source'[s].failures = n
        /\ source'[s].active = IF n = FailureThreshold /\ e.loaded.active
                               THEN FALSE ELSE source[s].active
        /\ pc[t] = "marking"
    BY <1>5, FailFacts
  <2>2. runs[r].status \in {"running", "success", "partial"}
    BY <2>1 DEF AgeInv, Present
  <2>3. e.loaded.failures = source[s].failures
    BY <1>1, <2>1, ReadBy
  <2>4. Ends(s, r, "failed")
    BY <1>2, <1>r, <2>1, <2>2 DEF Ends, HasEnded
  <2> QED
    BY <1>5, <2>1, <2>3, <2>4 DEF FailsNow
<1> QED
  BY <1>4, <1>5

\* The commit of an execution changes its own row and its own source.
LEMMA CommitFrame ==
    ASSUME IInv, NEW t \in Threads, FinishCommit(t) \/ FailCommit(t)
    PROVE  /\ \A q \in RunIds \ {exec[t].run} : runs'[q] = runs[q]
           /\ runs'[exec[t].run].source = exec[t].source
           /\ runs[exec[t].run].source = exec[t].source
           /\ \A p \in Sources \ {exec[t].source} : source'[p] = source[p]
           /\ cleared' \in {cleared, cleared \cup {exec[t].run}}
           /\ aged' = aged
<1>1. CASE FinishCommit(t)
  BY <1>1, FinishFacts
<1>2. CASE FailCommit(t)
  BY <1>2, FailFacts
<1> QED
  BY <1>1, <1>2

\* A step that ends the run of another source does not touch this one.
LEMMA OtherEnds ==
    ASSUME IInv, NEW t \in Threads, FinishCommit(t) \/ FailCommit(t),
           NEW s \in Sources, exec[t].source # s
    PROVE  Untouched(s) /\ source'[s] = source[s] /\ Begun(s)' = Begun(s)
<1>1. /\ \A q \in RunIds \ {exec[t].run} : runs'[q] = runs[q]
      /\ runs'[exec[t].run].source = exec[t].source
      /\ runs[exec[t].run].source = exec[t].source
      /\ \A p \in Sources \ {exec[t].source} : source'[p] = source[p]
      /\ cleared' \in {cleared, cleared \cup {exec[t].run}}
  BY CommitFrame
<1>2. \A q \in RunIds :
        \/ runs'[q] = runs[q]
        \/ runs'[q].source # s /\ runs[q].source # s
  BY <1>1
<1>3. Begun(s)' = Begun(s)
  BY <1>2 DEF Begun
<1>4. \A q \in RunIds : Clears(s, q) <=> Clears(s, q)'
  BY <1>1, <1>2 DEF Clears
<1> QED
  BY <1>1, <1>2, <1>3, <1>4 DEF Untouched, HasEnded

LEMMA SourceStep ==
    ASSUME IInv, LostInv, ReadInv, AgeInv, ClearedInv, [Next]_vars,
           NEW s \in Sources, s \notin breached
    PROVE  /\ \/ Untouched(s)
              \/ \E t \in Threads :
                   /\ FinishCommit(t)
                   /\ exec[t].source = s
                   /\ SucceedsNow(s, exec[t].run, exec[t].items)
              \/ \E t \in Threads :
                   /\ FailCommit(t)
                   /\ exec[t].source = s
                   /\ FailsNow(s, exec[t].run)
              \/ CreatedNow(s)
              \/ DeletedNow(s)
           /\ aged <= aged'
<1>a. aged \in Int
  BY DEF IInv, TypeOK
<1>1. CASE Idles
  BY <1>1, <1>a DEF Idles, Untouched, HasEnded, Clears
<1>2. ASSUME NEW t \in Threads, FinishCommit(t) \/ FailCommit(t), exec[t].source = s
      PROVE  \/ Untouched(s)
             \/ FinishCommit(t) /\ SucceedsNow(s, exec[t].run, exec[t].items)
             \/ FailCommit(t) /\ FailsNow(s, exec[t].run)
  BY <1>2, EndStep
<1>2a. ASSUME NEW t \in Threads, FinishCommit(t) \/ FailCommit(t)
       PROVE  aged' = aged
  BY <1>2a, CommitFrame
<1>3. ASSUME NEW t \in Threads, FinishCommit(t) \/ FailCommit(t), exec[t].source # s
      PROVE  Untouched(s)
  BY <1>3, OtherEnds
<1>4. ASSUME NEW t \in Threads, NEW status \in {"running", "skipped"}, Inserts(t, status)
      PROVE  Untouched(s) /\ aged' = aged
  <2>1. nextRun \notin cleared
    BY <1>4, InsertFacts DEF ClearedInv, IInv, RowInv, Accounted, TypeOK
  <2> QED
    BY <1>4, <2>1, InsertFacts, ConstantsOK DEF Untouched, HasEnded, Clears
<1>5. ASSUME NEW p \in Sources, AdminCreate(p)
      PROVE  (Untouched(s) \/ CreatedNow(s)) /\ aged' = aged
  <2>1. CASE p = s
    BY <1>5, <2>1, CreateFacts DEF CreatedNow, AgeInv
  <2>2. CASE p # s
    BY <1>5, <2>2, CreateFacts DEF Untouched, HasEnded, Clears
  <2> QED
    BY <2>1, <2>2
<1>6. ASSUME NEW p \in Sources, AdminDeleteCommit(p)
      PROVE  (Untouched(s) \/ DeletedNow(s)) /\ aged' = aged
  <2>1. CASE p = s
    BY <1>6, <2>1, DeleteFacts DEF DeletedNow, AgeInv
  <2>2. CASE p # s
    BY <1>6, <2>2, DeleteFacts DEF Untouched, HasEnded, Clears
  <2> QED
    BY <2>1, <2>2
<1>7. ASSUME NEW k \in RunIds, RetainRuns(k)
      PROVE  Untouched(s) /\ aged <= aged'
  BY <1>7, <1>a DEF RetainRuns, history, Untouched, HasEnded, Clears
<1> QED
  BY <1>a, <1>1, <1>2, <1>2a, <1>3, <1>4, <1>5, <1>6, <1>7, TableStep DEF IInv

-----------------------------------------------------------------------------
(* The counter and the baseline. *)

\* The streak, said with the runs that clear.
LEMMA StreakBy ==
    ASSUME ClearedInv, NEW s, NEW r
    PROVE  r \in FailureStreak(s) <=>
             /\ r \in RunIds
             /\ HasEnded(runs, s, r, "failed")
             /\ ~\E q \in RunIds : Clears(s, q) /\ q > r
BY DEF ClearedInv, FailureStreak, HasEnded, Clears

LEMMA StreakNext ==
    ASSUME ClearedInv', NEW s, NEW r
    PROVE  r \in FailureStreak(s)' <=>
             /\ r \in RunIds
             /\ HasEnded(runs', s, r, "failed")
             /\ ~\E q \in RunIds : Clears(s, q)' /\ q > r
BY DEF ClearedInv, FailureStreak, HasEnded, Clears

LEMMA StreakFinite ==
    ASSUME NEW s
    PROVE  IsFiniteSet(FailureStreak(s))
<1>1. IsFiniteSet(RunIds)
  BY ConstantsOK, FS_Interval DEF RunIds
<1>2. FailureStreak(s) \in SUBSET RunIds
  BY DEF FailureStreak
<1> QED
  BY <1>1, <1>2, FS_Subset

LEMMA CounterStep ==
    ASSUME IInv, LostInv, ReadInv, AgeInv, ClearedInv, ClearedInv',
           CounterMatchesHistory, [Next]_vars
    PROVE  CounterMatchesHistory'
<1> SUFFICES ASSUME NEW s \in Sources, s \notin breached', Present(s)'
             PROVE  source'[s].failures = Cardinality(FailureStreak(s)')
  BY DEF CounterMatchesHistory
<1>b. s \notin breached
  BY BreachedGrows
<1>c. Present(s) => source[s].failures = Cardinality(FailureStreak(s))
  BY <1>b DEF CounterMatchesHistory
<1>e. Cardinality({}) = 0
  BY FS_EmptySet
<1>i. \A r \in RunIds : r \in Int
  BY DEF RunIds
<1>1. CASE Untouched(s)
  <2>1. FailureStreak(s)' = FailureStreak(s)
    <3>1. \A q : q \in FailureStreak(s)' <=> q \in FailureStreak(s)
      BY <1>1, StreakBy, StreakNext DEF Untouched
    <3> QED
      BY <3>1
  <2>2. Present(s)
    BY <1>1 DEF Untouched, Present
  <2> QED
    BY <1>1, <1>c, <2>1, <2>2 DEF Untouched
<1>2. ASSUME NEW r, NEW n, SucceedsNow(s, r, n)
      PROVE  source'[s].failures = Cardinality(FailureStreak(s)')
  <2>1. r \in RunIds /\ Clears(s, r)'
    BY <1>2 DEF SucceedsNow, Ends, HasEnded, Clears
  <2>2. ASSUME NEW q \in FailureStreak(s)'
        PROVE  FALSE
    <3>1. q \in RunIds /\ HasEnded(runs', s, q, "failed") /\ ~(r > q)
      BY <2>1, StreakNext
    <3>2. q # r /\ q > r
      BY <1>2, <1>i, <2>1, <3>1 DEF SucceedsNow, Ends, HasEnded
    <3> QED
      BY <1>2, <3>1, <3>2 DEF SucceedsNow, Ends, HasEnded
  <2>3. FailureStreak(s)' = {}
    BY <2>2
  <2> QED
    BY <1>2, <1>e, <2>3 DEF SucceedsNow
<1>3. ASSUME NEW r, FailsNow(s, r)
      PROVE  source'[s].failures = Cardinality(FailureStreak(s)')
  <2>c. \A q \in RunIds : Clears(s, q) <=> Clears(s, q)'
    BY <1>3 DEF FailsNow, Ends, HasEnded, Clears
  <2>l. \A q \in RunIds : Clears(s, q) => ~(q > r)
    BY <1>3 DEF FailsNow, Ends, Clears, ClearedInv
  <2>f. \A q \in RunIds : HasEnded(runs', s, q, "failed") <=>
          q = r \/ HasEnded(runs, s, q, "failed")
    BY <1>3 DEF FailsNow, Ends, HasEnded
  <2>r. r \in RunIds /\ ~HasEnded(runs, s, r, "failed")
    BY <1>3 DEF FailsNow, Ends, HasEnded
  <2>1. FailureStreak(s)' = FailureStreak(s) \cup {r}
    <3>1. \A q : q \in FailureStreak(s)' <=> q \in FailureStreak(s) \/ q = r
      BY <2>c, <2>l, <2>f, <2>r, StreakBy, StreakNext
    <3> QED
      BY <3>1
  <2>2. r \notin FailureStreak(s)
    BY <2>r, StreakBy
  <2>3. Cardinality(FailureStreak(s) \cup {r}) = Cardinality(FailureStreak(s)) + 1
    BY <2>2, StreakFinite, FS_AddElement
  <2> QED
    BY <1>3, <1>c, <2>1, <2>3 DEF FailsNow, Ends
<1>4. CASE CreatedNow(s)
  <2>1. FailureStreak(s)' = {}
    BY <1>4 DEF CreatedNow, FailureStreak
  <2> QED
    BY <1>4, <1>e, <2>1 DEF CreatedNow
<1>5. ~DeletedNow(s)
  BY DEF DeletedNow, Present
<1> QED
  BY <1>b, <1>1, <1>2, <1>3, <1>4, <1>5, SourceStep

LEMMA NoDropStep ==
    ASSUME IInv, IInv', LostInv, ReadInv, AgeInv, ClearedInv,
           NoDropBetweenSuccesses, [Next]_vars
    PROVE  NoDropBetweenSuccesses'
<1> DEFINE Won(table, s, r) == HasEnded(table, s, r, "success")
           Next2(table, s, a, b) ==
             /\ Won(table, s, a) /\ Won(table, s, b) /\ a < b
             /\ \A q \in (a + 1)..(b - 1) : ~Won(table, s, q)
<1> SUFFICES ASSUME NEW s \in Sources, s \notin breached', NEW a \in RunIds,
                    NEW b \in RunIds, aged' < a, Next2(runs', s, a, b)
             PROVE  ~IsCollectionDrop(runs'[a].items, runs'[b].items)
  BY DEF NoDropBetweenSuccesses, HasEnded
<1>b. s \notin breached
  BY BreachedGrows
<1>a. aged < a
  <2>1. aged \in Int /\ aged' \in Int /\ a \in Int
    BY DEF IInv, TypeOK, RunIds
  <2> QED
    BY <1>b, <2>1, SourceStep
<1>c. Next2(runs, s, a, b) => ~IsCollectionDrop(runs[a].items, runs[b].items)
  BY <1>a, <1>b DEF NoDropBetweenSuccesses, HasEnded
<1>i. /\ a \in Int /\ b \in Int
      /\ \A q \in (a + 1)..(b - 1) : q \in RunIds
      /\ \A r \in RunIds : r \in Int
  BY ConstantsOK DEF RunIds
<1>1. ASSUME \A r \in RunIds : Won(runs, s, r) <=> Won(runs', s, r),
             \A r \in RunIds : Won(runs, s, r) => runs'[r].items = runs[r].items
      PROVE  ~IsCollectionDrop(runs'[a].items, runs'[b].items)
  <2>1. Next2(runs, s, a, b)
    BY <1>1, <1>i
  <2> QED
    BY <1>1, <1>c, <2>1
<1>2. CASE Untouched(s)
  BY <1>1, <1>2 DEF Untouched
<1>3. ASSUME NEW r, NEW n, SucceedsNow(s, r, n)
      PROVE  ~IsCollectionDrop(runs'[a].items, runs'[b].items)
  <2>1. /\ r \in RunIds
        /\ HasEnded(runs, s, r, "running")
        /\ \A q \in RunIds \ {r} : runs'[q] = runs[q]
        /\ \A q \in RunIds : q > r /\ runs[q].source = s =>
              runs[q].status = "skipped"
        /\ runs'[r].items = n
        /\ ~CollectionDropped(s, n)
    BY <1>3 DEF SucceedsNow, Ends, HasEnded
  <2>2. a # r
    BY <2>1 DEF HasEnded
  <2>3. CASE b # r
    <3>1. Next2(runs, s, a, b)
      BY <1>i, <2>1, <2>2, <2>3 DEF HasEnded
    <3> QED
      BY <1>c, <2>1, <2>2, <2>3, <3>1
  <2>4. CASE b = r
    <3>1. a \in SuccessfulRuns(s)
      BY <1>a, <2>1, <2>2 DEF HasEnded, SuccessfulRuns, Succeeded
    <3>2. ASSUME NEW q \in SuccessfulRuns(s)
          PROVE  q <= a
      <4>1. q \in RunIds /\ Won(runs, s, q) /\ q # r
        BY <2>1 DEF HasEnded, SuccessfulRuns, Succeeded
      <4>2. Won(runs', s, q) /\ ~(q > r)
        BY <2>1, <4>1 DEF HasEnded
      <4>3. q \notin (a + 1)..(b - 1)
        BY <4>2
      <4> QED
        BY <1>i, <2>4, <4>1, <4>2, <4>3
    <3> QED
      BY <2>1, <2>2, <2>4, <3>1, <3>2 DEF CollectionDropped
  <2> QED
    BY <2>3, <2>4
<1>4. ASSUME NEW r, FailsNow(s, r)
      PROVE  ~IsCollectionDrop(runs'[a].items, runs'[b].items)
  <2>1. /\ r \in RunIds
        /\ runs'[r].status = "failed"
        /\ \A q \in RunIds \ {r} : runs'[q] = runs[q]
        /\ \A q \in RunIds : q > r /\ runs[q].source = s =>
              runs[q].status = "skipped"
    BY <1>4 DEF FailsNow, Ends, HasEnded
  <2>2. a # r /\ b # r
    BY <2>1 DEF HasEnded
  <2>3. ~(b > r)
    BY <2>1, <2>2 DEF HasEnded
  <2>4. Next2(runs, s, a, b)
    BY <1>i, <2>1, <2>2, <2>3 DEF HasEnded
  <2> QED
    BY <1>c, <2>1, <2>2, <2>4
<1>5. ~CreatedNow(s)
  BY DEF CreatedNow, HasEnded
<1>6. ~DeletedNow(s)
  BY DEF DeletedNow, HasEnded
<1> QED
  BY <1>b, <1>2, <1>3, <1>4, <1>5, <1>6, SourceStep

-----------------------------------------------------------------------------
(* The announcements. *)

\* Only the failure that reaches the threshold adds one.
LEMMA AnnouncedStep ==
    ASSUME IInv, [Next]_vars, NEW r \in Announced'
    PROVE  \/ r \in Announced
           \/ \E t \in Threads :
                /\ FailCommit(t)
                /\ exec[t].run = r
                /\ source'[exec[t].source].failures = FailureThreshold
<1> DEFINE Speaks(u, x) ==
      pc[u] = "alerting" /\ exec[u].alert = "disabled" /\ exec[u].run = x
           SpeaksNext(u, x) ==
      pc'[u] = "alerting" /\ exec'[u].alert = "disabled" /\ exec'[u].run = x
<1>1. \A x : x \in Announced <=>
        \/ \E a \in alerts : a.kind = "disabled" /\ a.run = x
        \/ \E u \in Threads : Speaks(u, x)
  BY DEF Announced
<1>2. \/ \E a \in alerts' : a.kind = "disabled" /\ a.run = r
      \/ \E u \in Threads : SpeaksNext(u, r)
  BY DEF Announced
<1>3. ASSUME NEW a \in alerts', a.kind = "disabled", a.run = r
      PROVE  r \in Announced
  <2>1. ASSUME NEW t \in Threads, Proceed(t), a \notin alerts
        PROVE  SendAlert(t) /\ a = [run |-> exec[t].run, kind |-> exec[t].alert]
    BY <1>3, <2>1 DEF Proceed, TryLock, RecordSkipped, StartRun, StartRaises,
       CrawlReturns, CrawlRaises, FinishRead, CollectRaises, FinishCommit, FailRead,
       FailCommit, FailRaises, SendAlert, Release
  <2>2. ASSUME NEW t \in Threads, Proceed(t), a \notin alerts
        PROVE  Speaks(t, r)
    <3>1. SendAlert(t) /\ a = [run |-> exec[t].run, kind |-> exec[t].alert]
      BY <2>1, <2>2
    <3> QED
      BY <1>3, <3>1 DEF SendAlert
  <2>3. a \in alerts \/ \E t \in Threads : Proceed(t)
    BY <1>3 DEF Next, vars, Begin, BeginScheduled, BeginManual, LoadActiveSource,
       LoseLockConnection, Crash, Admin, AdminCreate, AdminUpdate, AdminDeleteLoad,
       AdminDeleteCommit, RetainRuns
  <2> QED
    BY <1>1, <1>3, <2>2, <2>3
<1>4. ASSUME NEW u \in Threads, SpeaksNext(u, r)
      PROVE  \/ r \in Announced
             \/ /\ FailCommit(u)
                /\ exec[u].run = r
                /\ source'[exec[u].source].failures = FailureThreshold
  <2>1. CASE pc'[u] = pc[u] /\ exec'[u] = exec[u]
    BY <1>1, <1>4, <2>1
  <2>2. CASE FailCommit(u)
    BY <1>4, <2>2, FailFacts
  <2>3. ASSUME NEW t \in Threads, Proceed(t), t # u
        PROVE  pc'[u] = pc[u] /\ exec'[u] = exec[u]
    BY <2>3, ProceedFrame DEF IInv
  <2>4. ASSUME Proceed(u)
        PROVE  FinishCommit(u) \/ FailCommit(u)
    BY <1>4, <2>4 DEF IInv, TypeOK, Proceed, TryLock, RecordSkipped, StartRun,
       StartRaises, CrawlReturns, CrawlRaises, FinishRead, CollectRaises, FailRead,
       FailRaises, SendAlert, Release, AfterError, AfterFailRaises, AfterAlertError
  <2>5. ~FinishCommit(u)
    BY <1>4, FinishFacts
  <2>6. ASSUME NEW t \in Threads, Begin(t) \/ LoseLockConnection(t)
        PROVE  pc'[u] = pc[u] /\ exec'[u] = exec[u]
    BY <1>4, <2>6 DEF Begin, BeginScheduled, BeginManual, LoadActiveSource,
       LoseLockConnection, IInv, TypeOK
  <2>7. ASSUME NEW process, Crash(process)
        PROVE  pc'[u] = pc[u] /\ exec'[u] = exec[u]
    BY <1>4, <2>7 DEF Crash
  <2>8. ASSUME NEW s \in Sources, Admin(s)
        PROVE  pc'[u] = pc[u] /\ exec'[u] = exec[u]
    BY <2>8 DEF Admin, AdminCreate, AdminUpdate, AdminDeleteLoad, AdminDeleteCommit
  <2>9. CASE UNCHANGED vars \/ \E k \in RunIds : RetainRuns(k)
    BY <2>1, <2>9 DEF vars, RetainRuns
  <2> QED
    BY <2>1, <2>2, <2>3, <2>4, <2>5, <2>6, <2>7, <2>8, <2>9 DEF Next
<1> QED
  BY <1>2, <1>3, <1>4

\* A row keeps its source.
LEMMA RowSource ==
    ASSUME IInv, [Next]_vars, NEW r \in RunIds, runs[r].source \in Sources
    PROVE  runs'[r].source = runs[r].source
<1>1. CASE Idles
  BY <1>1 DEF Idles
<1>2. ASSUME NEW t \in Threads, FinishCommit(t) \/ FailCommit(t)
      PROVE  runs'[r].source = runs[r].source
  BY <1>2, CommitFrame
<1>3. ASSUME NEW t \in Threads, NEW status \in {"running", "skipped"}, Inserts(t, status)
      PROVE  runs'[r].source = runs[r].source
  BY <1>3, InsertFacts, ConstantsOK
<1>4. ASSUME NEW s \in Sources, AdminCreate(s)
      PROVE  runs'[r].source = runs[r].source
  BY <1>4 DEF AdminCreate
<1>5. ASSUME NEW s \in Sources, AdminDeleteCommit(s)
      PROVE  runs'[r].source = runs[r].source
  <2>1. \A q \in RunIds : runs'[q].source = runs[q].source
    BY <1>5, DeleteFacts
  <2> QED
    BY <2>1
<1>6. ASSUME NEW k \in RunIds, RetainRuns(k)
      PROVE  runs'[r].source = runs[r].source
  BY <1>6 DEF RetainRuns
<1> QED
  BY <1>1, <1>2, <1>3, <1>4, <1>5, <1>6, TableStep DEF IInv

\* The run that announces the deactivation in this step.
LEMMA Announcing ==
    ASSUME IInv, LostInv, ReadInv, AgeInv, NEW t \in Threads, FailCommit(t),
           NEW s \in Sources, exec[t].source = s, s \notin breached
    PROVE  FailsNow(s, exec[t].run)
<1>1. ~FinishCommit(t)
  BY DEF FinishCommit, FailCommit
<1> QED
  BY <1>1, EndStep

\* A failed run of a kept source stays one, and what has cleared the counter
\* has cleared it.
LEMMA FailedStays ==
    ASSUME IInv, LostInv, ReadInv, AgeInv, ClearedInv, [Next]_vars,
           NEW s \in Sources, s \notin breached', Present(s)',
           NEW a \in RunIds, runs[a].source = s
    PROVE  /\ Kept(s)
           /\ runs[a].status = "failed" =>
                /\ runs'[a].status = "failed"
                /\ \/ source'[s].failures >= source[s].failures
                   \/ \E q \in RunIds : Clears(s, q)' /\ q > a
           /\ \A q \in RunIds : Clears(s, q) => Clears(s, q)'
<1>b. s \notin breached
  BY BreachedGrows
<1>i. \A q \in RunIds : q \in Int
  BY DEF RunIds
<1>f. source[s].failures \in Nat
  BY DEF IInv, TypeOK, SourceRow
<1>1. CASE Untouched(s)
  BY <1>1, <1>b, <1>f DEF Untouched, HasEnded, Kept, Present
<1>2. ASSUME NEW r, NEW n, SucceedsNow(s, r, n)
      PROVE  /\ Kept(s)
             /\ runs[a].status = "failed" =>
                  runs'[a].status = "failed" /\ Clears(s, r)' /\ r > a
             /\ \A q \in RunIds : Clears(s, q) => Clears(s, q)'
             /\ r \in RunIds
  BY <1>2, <1>b, <1>i DEF SucceedsNow, Ends, HasEnded, Clears, Kept, Present
<1>3. ASSUME NEW r, FailsNow(s, r)
      PROVE  /\ Kept(s)
             /\ runs[a].status = "failed" =>
                  runs'[a].status = "failed" /\ source'[s].failures >= source[s].failures
             /\ \A q \in RunIds : Clears(s, q) => Clears(s, q)'
  BY <1>3, <1>b, <1>f DEF FailsNow, Ends, HasEnded, Clears, Kept, Present
<1>4. ~CreatedNow(s)
  BY RowSource DEF CreatedNow
<1>5. ~DeletedNow(s)
  BY DEF DeletedNow, Present
<1> QED
  BY <1>b, <1>1, <1>2, <1>3, <1>4, <1>5, SourceStep

\* The announcements one by one.
LEMMA AlertBy ==
    ASSUME AlertInv, NEW r \in Announced
    PROVE  /\ r \in RunIds
           /\ runs[r].source \in Sources
           /\ Kept(runs[r].source) =>
                /\ runs[r].status = "failed"
                /\ \/ source[runs[r].source].failures >= FailureThreshold
                   \/ \E q \in RunIds : Clears(runs[r].source, q) /\ q > r
BY DEF AlertInv

LEMMA AlertStep ==
    ASSUME IInv, IInv', LostInv, ReadInv, AgeInv, ClearedInv, AlertInv,
           [Next]_vars
    PROVE  AlertInv'
<1> DEFINE Stands(r, s) ==
      /\ r \in RunIds
      /\ s \in Sources
      /\ s \notin breached' /\ source'[s].status = "present" =>
            /\ runs'[r].status = "failed"
            /\ \/ source'[s].failures >= FailureThreshold
               \/ \E q \in RunIds : Clears(s, q)' /\ q > r
<1> SUFFICES ASSUME NEW r \in Announced', NEW s, s = runs'[r].source
             PROVE  Stands(r, s)
  BY DEF AlertInv, Kept, Present, Clears
<1>t. /\ FailureThreshold \in Nat
      /\ \A p \in Sources : source[p].failures \in Nat /\ source'[p].failures \in Nat
      /\ \A q \in RunIds : q \in Int
  BY ConstantsOK DEF IInv, TypeOK, SourceRow, RunIds
<1>1. CASE r \in Announced
  <2>1. r \in RunIds /\ s = runs[r].source /\ s \in Sources
    BY <1>1, AlertBy, RowSource
  <2> SUFFICES ASSUME s \notin breached', Present(s)'
               PROVE  Stands(r, s)
    BY <2>1 DEF Present
  <2>2. /\ Kept(s)
        /\ runs[r].status = "failed" =>
             /\ runs'[r].status = "failed"
             /\ \/ source'[s].failures >= source[s].failures
                \/ \E q \in RunIds : Clears(s, q)' /\ q > r
        /\ \A q \in RunIds : Clears(s, q) => Clears(s, q)'
    BY <2>1, FailedStays
  <2> QED
    BY <1>1, <1>t, <2>1, <2>2, AlertBy
<1>2. ASSUME NEW t \in Threads, FailCommit(t), exec[t].run = r,
             source'[exec[t].source].failures = FailureThreshold
      PROVE  Stands(r, s)
  <2>1. /\ exec[t].source \in Sources /\ r \in RunIds
        /\ runs'[r].source = exec[t].source
        /\ runs'[r].status = "failed"
    BY <1>2, FailFacts
  <2> QED
    BY <1>2, <1>t, <2>1
<1> HIDE DEF Stands
<1> QED
  BY <1>1, <1>2, AnnouncedStep

LEMMA PairStep ==
    ASSUME IInv, IInv', LostInv, ReadInv, AgeInv, ClearedInv, AlertInv, PairInv,
           [Next]_vars
    PROVE  PairInv'
<1> DEFINE Parted(s, a, b) ==
      \E q \in RunIds : Clears(s, q)' /\ a < q /\ q <= b
<1> SUFFICES ASSUME NEW a \in Announced', NEW b \in Announced', a < b,
                    NEW s, s = runs'[a].source, s = runs'[b].source,
                    s \in Sources, s \notin breached', Present(s)'
             PROVE  Parted(s, a, b)
  BY DEF PairInv, Kept, Present, Clears
<1>b. s \notin breached
  BY BreachedGrows
<1>i. \A q \in RunIds : q \in Int
  BY DEF RunIds
<1>f. FailureThreshold \in Nat /\ source[s].failures \in Nat
  BY ConstantsOK DEF IInv, TypeOK, SourceRow
<1>n. ASSUME NEW t \in Threads, FailCommit(t), exec[t].run \in {a, b},
             source'[exec[t].source].failures = FailureThreshold
      PROVE  /\ exec[t].run \in RunIds
             /\ FailsNow(s, exec[t].run)
             /\ source[s].failures < FailureThreshold
  <2>1. exec[t].run \in RunIds /\ runs'[exec[t].run].source = exec[t].source
    BY <1>n, FailFacts
  <2>2. exec[t].source = s
    BY <1>n, <2>1
  <2>3. FailsNow(s, exec[t].run)
    BY <1>n, <1>b, <2>2, Announcing
  <2> QED
    BY <1>n, <1>f, <2>1, <2>2, <2>3 DEF FailsNow
<1>o. ASSUME NEW r \in {a, b}, r \in Announced
      PROVE  r \in RunIds /\ runs[r].source = s
  BY <1>o, AlertBy, RowSource
<1>1. CASE a \in Announced /\ b \in Announced
  <2>1. /\ Kept(s)
        /\ \A q \in RunIds : Clears(s, q) => Clears(s, q)'
    BY <1>1, <1>o, FailedStays
  <2>2. \E q \in RunIds : Clears(s, q) /\ a < q /\ q <= b
    BY <1>1, <1>o, <2>1 DEF PairInv
  <2> QED
    BY <2>1, <2>2
<1>2. ASSUME a \in Announced, NEW t \in Threads, FailCommit(t), exec[t].run = b,
             source'[exec[t].source].failures = FailureThreshold
      PROVE  Parted(s, a, b)
  <2>1. FailsNow(s, b) /\ source[s].failures < FailureThreshold
    BY <1>2, <1>n
  <2>2. a \in RunIds /\ runs[a].source = s
    BY <1>2, <1>o
  <2>3. Kept(s)
    BY <1>b, <2>1 DEF FailsNow, Ends, Kept
  <2>4. PICK q \in RunIds : Clears(s, q) /\ q > a
    BY <1>2, <1>f, <2>1, <2>2, <2>3, AlertBy
  <2>5. Clears(s, q)'
    BY <2>1, <2>4 DEF FailsNow, Ends, HasEnded, Clears
  <2>6. q <= b
    <3>1. b \in RunIds /\ runs[q].status # "skipped"
      BY <2>1, <2>4 DEF FailsNow, Ends, Clears, ClearedInv
    <3>2. ~(q > b)
      BY <2>1, <2>4, <3>1 DEF FailsNow, Ends, Clears
    <3> QED
      BY <1>i, <2>4, <3>1, <3>2
  <2> QED
    BY <2>4, <2>5, <2>6
<1>3. ASSUME b \in Announced, NEW t \in Threads, FailCommit(t), exec[t].run = a,
             source'[exec[t].source].failures = FailureThreshold
      PROVE  FALSE
  <2>1. FailsNow(s, a)
    BY <1>3, <1>n
  <2>2. Kept(s) /\ b \in RunIds /\ runs[b].source = s
    BY <1>b, <1>3, <1>o, <2>1 DEF FailsNow, Ends, Kept
  <2>3. runs[b].status = "failed"
    BY <1>3, <2>2, AlertBy
  <2> QED
    BY <2>1, <2>2, <2>3 DEF FailsNow, Ends
<1>4. ASSUME NEW t \in Threads, FailCommit(t), exec[t].run = a,
             NEW u \in Threads, FailCommit(u), exec[u].run = b
      PROVE  FALSE
  <2>1. a \in RunIds /\ b \in RunIds
    BY <1>4, FailFacts
  <2>2. t # u
    BY <1>4, <1>i, <2>1
  <2>3. pc'[u] = pc[u]
    BY <1>4, <2>2 DEF FailCommit, IInv, TypeOK
  <2>4. pc[u] = "marking" /\ pc'[u] \in {"releasing", "alerting"}
    BY <1>4, FailFacts
  <2> QED
    BY <2>3, <2>4
<1> HIDE DEF Parted
<1> QED
  BY <1>1, <1>2, <1>3, <1>4, AnnouncedStep

-----------------------------------------------------------------------------
(* The invariant, and what follows from it. *)

LEMMA HistoryInit == Init => HInv
<1> SUFFICES ASSUME Init PROVE HInv
  OBVIOUS
<1>1. IInv
  BY TypeInit, ExecInit, LockInit, RowInit DEF IInv
<1>2. LostInv /\ ReadInv
  BY DEF Init, LostInv, ReadInv, Running
<1>3. AgeInv
  BY ConstantsOK DEF Init, AgeInv, NoRow, NewRow
<1>4. CounterMatchesHistory /\ NoDropBetweenSuccesses
  BY DEF Init, CounterMatchesHistory, NoDropBetweenSuccesses, Present, NoRow, NewRow
<1>5. Announced = {}
  BY DEF Init, Announced
<1>6. ClearedInv
  BY DEF Init, ClearedInv, NoRow, NewRow
<1> QED
  BY <1>1, <1>2, <1>3, <1>4, <1>5, <1>6 DEF HInv, AlertInv, PairInv

LEMMA HistoryStep == HInv /\ IInv' /\ [Next]_vars => HInv'
BY LostStep, ReadStep, AgeStep, ClearedStep, CounterStep, NoDropStep, AlertStep,
   PairStep DEF HInv

THEOREM HistoryInvariance == Spec => []HInv
<1>1. Init => HInv
  BY HistoryInit
<1>2. HInv /\ IInv' /\ [Next]_vars => HInv'
  BY HistoryStep
<1> QED
  BY <1>1, <1>2, Invariance, PTL DEF Spec

\* The counter of failures of a source that has lost no lock is the number of
\* its failed runs since the last success, in every reachable state.
THEOREM CounterIsTrue == Spec => []CounterMatchesHistory
<1>1. HInv => CounterMatchesHistory
  BY DEF HInv
<1> QED
  BY <1>1, HistoryInvariance, PTL

\* No success of such a source is a collection drop from the success before it.
THEOREM NoSilentDrop == Spec => []NoDropBetweenSuccesses
<1>1. HInv => NoDropBetweenSuccesses
  BY DEF HInv
<1> QED
  BY <1>1, HistoryInvariance, PTL

\* Of two announcements of the deactivation of such a source the second, or a
\* run between them, has recorded a success.
THEOREM OneAlert == Spec => []OneDisableAlertPerStreak
<1>1. HInv => OneDisableAlertPerStreak
  <2> SUFFICES ASSUME AlertInv, PairInv, NEW a \in alerts, NEW b \in alerts,
                      a.kind = "disabled", b.kind = "disabled", a.run < b.run,
                      NEW s, s = runs[a.run].source, s = runs[b.run].source,
                      s \notin breached, Present(s)
               PROVE  \E q \in cleared :
                         a.run < q /\ q <= b.run /\ runs[q].source = s
    BY DEF HInv, OneDisableAlertPerStreak
  <2>1. a.run \in Announced /\ b.run \in Announced
    BY DEF Announced
  <2>2. a.run \in RunIds /\ b.run \in RunIds /\ s \in Sources
    BY <2>1, AlertBy
  <2>3. PICK q \in RunIds : Clears(s, q) /\ a.run < q /\ q <= b.run
    BY <2>1, <2>2 DEF PairInv, Kept
  <2> QED
    BY <2>3 DEF Clears
<1> QED
  BY <1>1, HistoryInvariance, PTL

-----------------------------------------------------------------------------
(* The record of each source is a SourceHealth. *)

\* What a crawl has returned, it could.
ItemsInv ==
    \A t \in Threads :
        pc[t] \in {"finishing", "committing"} => exec[t].items \in Items

LEMMA ItemsStep ==
    ASSUME IInv, ItemsInv, [Next]_vars
    PROVE  ItemsInv'
<1> SUFFICES ASSUME NEW u \in Threads, pc'[u] \in {"finishing", "committing"}
             PROVE  exec'[u].items \in Items
  BY DEF ItemsInv
<1>1. Proceed(u) \/ (pc'[u] = pc[u] /\ exec'[u] = exec[u])
  BY ThreadStep DEF IInv, Running
<1>2. exec[u] \in Exec /\ exec \in [Threads -> Exec] /\ pc \in [Threads -> Pcs]
  BY DEF IInv, TypeOK
<1>3. CASE CrawlReturns(u)
  <2>1. PICK n \in Items, p \in BOOLEAN : exec'[u] = Crawled(exec[u], n, p)
    BY <1>2, <1>3 DEF CrawlReturns
  <2>2. Crawled(exec[u], n, p).items = n
    BY <1>2 DEF Crawled, Exec
  <2> QED
    BY <2>1, <2>2
<1>4. CASE FinishRead(u)
  <2>1. pc[u] = "finishing" /\ Present(exec[u].source)
    BY <1>2, <1>4 DEF FinishRead, AfterError
  <2>2. PICK row, dropped : exec'[u] = Judged(exec[u], row, dropped)
    BY <1>2, <1>4, <2>1 DEF FinishRead
  <2>3. Judged(exec[u], row, dropped).items = exec[u].items
    BY <1>2 DEF Judged, Exec
  <2> QED
    BY <2>1, <2>2, <2>3 DEF ItemsInv
<1>5. CASE Proceed(u) /\ ~CrawlReturns(u) /\ ~FinishRead(u)
  BY <1>2, <1>5 DEF Proceed, TryLock, RecordSkipped, StartRun, StartRaises,
     CrawlRaises, CollectRaises, FinishCommit, FailRead, FailCommit, FailRaises,
     SendAlert, Release, AfterError, AfterCommit, AfterFailRaises, AfterAlertError
<1>6. CASE pc'[u] = pc[u] /\ exec'[u] = exec[u]
  BY <1>6 DEF ItemsInv
<1> QED
  BY <1>1, <1>3, <1>4, <1>5, <1>6

\* The successes that are remembered, if they stay what they are.
LEMMA AcceptedSame ==
    ASSUME NEW s, SuccessfulRuns(s)' = SuccessfulRuns(s),
           \A r \in SuccessfulRuns(s) : runs'[r].items = runs[r].items
    PROVE  Accepted(s)' = Accepted(s)
BY DEF Accepted

\* The record of a source that a step leaves alone.
LEMMA HealthSame ==
    ASSUME NEW s \in Sources, s \in breached <=> s \in breached',
           s \notin breached =>
             /\ Untouched(s)
             /\ Begun(s)' = Begun(s)
             /\ source'[s].active = source[s].active
             /\ aged' = aged
    PROVE  HealthOf(s)' = HealthOf(s)
<1>1. CASE s \in breached
  BY <1>1 DEF HealthOf
<1>2. CASE s \notin breached
  <2>1. \A r \in RunIds :
          LET before == runs[r].source = s /\ runs[r].status = "success"
              after  == runs'[r].source = s /\ runs'[r].status = "success" IN
          /\ before <=> after
          /\ after => runs'[r].items = runs[r].items
    BY <1>2 DEF Untouched, HasEnded
  <2>2. /\ SuccessfulRuns(s)' = SuccessfulRuns(s)
        /\ \A r \in SuccessfulRuns(s) : runs'[r].items = runs[r].items
    BY <1>2, <2>1, SameBaseline
  <2>3. Accepted(s)' = Accepted(s)
    BY <2>2, AcceptedSame
  <2> QED
    BY <1>2, <2>3 DEF HealthOf, Untouched, Present
<1> QED
  BY <1>1, <1>2

LEMMA HealthBecomes ==
    ASSUME NEW p \in Sources, \A s \in Sources \ {p} : HealthOf(s)' = HealthOf(s),
           NEW h, HealthOf(p)' = h
    PROVE  Health!Becomes(p, h)
BY DEF Health!Becomes

\* A step that leaves every record alone.
LEMMA HealthStutters ==
    ASSUME \A s \in Sources : HealthOf(s)' = HealthOf(s)
    PROVE  UNCHANGED [s \in Sources |-> HealthOf(s)]
OBVIOUS

\* What is kept of a source that is there and has lost no lock.
LEMMA HealthKept ==
    ASSUME NEW s \in Sources, s \notin breached, Present(s)
    PROVE  /\ [p \in Sources |-> HealthOf(p)][s] =
                Health!Known(source[s].active, source[s].failures, Begun(s),
                             Accepted(s))
           /\ HealthOf(s).state = "present"
           /\ HealthOf(s).active = source[s].active
           /\ HealthOf(s).failures = source[s].failures
           /\ HealthOf(s).begun = Begun(s)
           /\ HealthOf(s).accepted = Accepted(s)
BY DEF HealthOf, Health!Known

LEMMA HealthKeptNext ==
    ASSUME NEW s \in Sources, s \notin breached', Present(s)'
    PROVE  HealthOf(s)' =
             Health!Known(source'[s].active, source'[s].failures, Begun(s)',
                          Accepted(s)')
BY DEF HealthOf, Health!Known

\* The run that ends is the last one begun.
LEMMA EndsNewest ==
    ASSUME NEW s \in Sources, NEW r, NEW status \in {"success", "failed"},
           Ends(s, r, status)
    PROVE  /\ r \in Begun(s)
           /\ \A j \in Begun(s) : j <= r
           /\ Begun(s)' = Begun(s)
<1>1. /\ r \in RunIds
      /\ runs[r].source = s /\ runs[r].status # "skipped"
      /\ runs'[r].source = s /\ runs'[r].status # "skipped"
      /\ \A q \in RunIds \ {r} : runs'[q] = runs[q]
      /\ \A q \in RunIds : q > r /\ runs[q].source = s =>
            runs[q].status = "skipped"
  BY DEF Ends, HasEnded
<1>2. \A q \in RunIds : q \in Int
  BY DEF RunIds
<1>3. Begun(s)' = Begun(s)
  BY <1>1 DEF Begun
<1> QED
  BY <1>1, <1>2, <1>3 DEF Begun

\* The success that ends is remembered, and is no drop from the last one.
LEMMA AcceptedGrows ==
    ASSUME NEW s \in Sources, NEW r, NEW n, SucceedsNow(s, r, n), aged' = aged
    PROVE  /\ Accepted(s)' = Accepted(s) \cup {<<r, n>>}
           /\ \A x \in Accepted(s) :
                 (\A y \in Accepted(s) : y[1] <= x[1]) => <<x[2], n>> \notin Drops
<1>1. /\ r \in RunIds /\ r > aged
      /\ HasEnded(runs', s, r, "success")
      /\ runs[r].status = "running"
      /\ \A q \in RunIds \ {r} : runs'[q] = runs[q]
      /\ runs'[r].items = n
      /\ ~CollectionDropped(s, n)
  BY DEF SucceedsNow, Ends
<1>2. \A q : q \in SuccessfulRuns(s)' <=> q \in SuccessfulRuns(s) \/ q = r
  BY <1>1 DEF SuccessfulRuns, Succeeded, HasEnded
<1>3. \A q \in SuccessfulRuns(s) : q # r /\ runs'[q] = runs[q]
  BY <1>1 DEF SuccessfulRuns, Succeeded, HasEnded
<1>4. Accepted(s)' = Accepted(s) \cup {<<r, n>>}
  <2>1. ASSUME NEW x
        PROVE  x \in Accepted(s)' <=> x \in Accepted(s) \cup {<<r, n>>}
    <3>1. x \in Accepted(s)' <=>
            \E q \in SuccessfulRuns(s)' : x = <<q, runs'[q].items>>
      BY DEF Accepted
    <3>2. x \in Accepted(s) <=>
            \E q \in SuccessfulRuns(s) : x = <<q, runs[q].items>>
      BY DEF Accepted
    <3> QED
      BY <1>1, <1>2, <1>3, <3>1, <3>2
  <2> QED
    BY <2>1
<1>5. ASSUME NEW x \in Accepted(s), \A y \in Accepted(s) : y[1] <= x[1]
      PROVE  <<x[2], n>> \notin Drops
  <2>1. PICK b \in SuccessfulRuns(s) : x = <<b, runs[b].items>>
    BY DEF Accepted
  <2>2. ASSUME NEW q \in SuccessfulRuns(s)
        PROVE  q <= b
    <3>1. <<q, runs[q].items>> \in Accepted(s)
      BY DEF Accepted
    <3> QED
      BY <1>5, <2>1, <3>1
  <2>3. ~IsCollectionDrop(runs[b].items, n)
    BY <1>1, <2>2 DEF CollectionDropped
  <2> QED
    BY <2>1, <2>3 DEF Drops
<1> QED
  BY <1>4, <1>5

\* A failure takes back what its run has reported.
LEMMA AcceptedShrinks ==
    ASSUME NEW s \in Sources, NEW r, FailsNow(s, r), aged' = aged
    PROVE  Accepted(s)' = {x \in Accepted(s) : x[1] # r}
<1>1. /\ r \in RunIds
      /\ HasEnded(runs', s, r, "failed")
      /\ \A q \in RunIds \ {r} : runs'[q] = runs[q]
  BY DEF FailsNow, Ends
<1>2. \A q : q \in SuccessfulRuns(s)' <=> q \in SuccessfulRuns(s) /\ q # r
  BY <1>1 DEF SuccessfulRuns, Succeeded, HasEnded
<1>3. \A q \in SuccessfulRuns(s)' : runs'[q] = runs[q]
  BY <1>1, <1>2 DEF SuccessfulRuns
<1>4. ASSUME NEW x
      PROVE  x \in Accepted(s)' <=> x \in Accepted(s) /\ x[1] # r
  <2>1. x \in Accepted(s)' <=>
          \E q \in SuccessfulRuns(s)' : x = <<q, runs'[q].items>>
    BY DEF Accepted
  <2>2. x \in Accepted(s) <=>
          \E q \in SuccessfulRuns(s) : x = <<q, runs[q].items>>
    BY DEF Accepted
  <2> QED
    BY <1>2, <1>3, <2>1, <2>2
<1> QED
  BY <1>4

LEMMA HealthSucceeds ==
    ASSUME NEW s \in Sources, NEW r, NEW n \in Items, SucceedsNow(s, r, n),
           s \notin breached, s \notin breached', aged' = aged,
           \A p \in Sources \ {s} : HealthOf(p)' = HealthOf(p)
    PROVE  Health!Succeed(s, r, n)
<1>1. /\ Present(s) /\ Present(s)'
      /\ source'[s].failures = 0
      /\ source'[s].active = source[s].active
      /\ Ends(s, r, "success")
  BY DEF SucceedsNow, Ends, Present
<1>2. /\ r \in Begun(s)
      /\ \A j \in Begun(s) : j <= r
      /\ Begun(s)' = Begun(s)
  BY <1>1, EndsNewest
<1>3. HealthOf(s)' = Health!Known(source[s].active, 0, Begun(s),
                                  Accepted(s) \cup {<<r, n>>})
  BY <1>1, <1>2, AcceptedGrows, HealthKeptNext
<1>4. Health!Becomes(s, Health!Known(HealthOf(s).active, 0, HealthOf(s).begun,
                                     HealthOf(s).accepted \cup {<<r, n>>}))
  BY <1>1, <1>3, HealthKept, HealthBecomes
<1>5. Health!Newest(s, r)
  BY <1>1, <1>2, HealthKept DEF Health!Newest
<1> QED
  BY <1>1, <1>4, <1>5, HealthKept, AcceptedGrows DEF Health!Succeed

LEMMA HealthFails ==
    ASSUME NEW s \in Sources, NEW r, FailsNow(s, r),
           s \notin breached, s \notin breached', aged' = aged,
           \A p \in Sources \ {s} : HealthOf(p)' = HealthOf(p)
    PROVE  Health!Fail(s, r, source'[s].active)
<1>1. /\ Present(s) /\ Present(s)'
      /\ source'[s].failures = source[s].failures + 1
      /\ source'[s].active # source[s].active =>
            source'[s].active = FALSE /\ source[s].failures + 1 = FailureThreshold
      /\ Ends(s, r, "failed")
  BY DEF FailsNow, Ends, Present
<1>2. /\ r \in Begun(s)
      /\ \A j \in Begun(s) : j <= r
      /\ Begun(s)' = Begun(s)
  BY <1>1, EndsNewest
<1>3. HealthOf(s)' =
        Health!Known(source'[s].active, source[s].failures + 1, Begun(s),
                     {x \in Accepted(s) : x[1] # r})
  BY <1>1, <1>2, AcceptedShrinks, HealthKeptNext
<1>4. Health!Becomes(s, Health!Known(source'[s].active, HealthOf(s).failures + 1,
                                     HealthOf(s).begun,
                                     {x \in HealthOf(s).accepted : x[1] # r}))
  BY <1>1, <1>3, HealthKept, HealthBecomes
<1>5. Health!Newest(s, r)
  BY <1>1, <1>2, HealthKept DEF Health!Newest
<1> QED
  BY <1>1, <1>4, <1>5, HealthKept DEF Health!Fail

\* The commit of an execution.
LEMMA HealthEnds ==
    ASSUME IInv, IInv', LostInv, ReadInv, AgeInv, ItemsInv, NEW t \in Threads,
           FinishCommit(t) \/ FailCommit(t)
    PROVE  Health!Next \/ UNCHANGED [s \in Sources |-> HealthOf(s)]
<1>1. PICK s : s = exec[t].source
  OBVIOUS
<1>2. s \in Sources /\ breached' = breached /\ aged' = aged
  BY <1>1, FinishFacts, FailFacts
<1>3. \A p \in Sources \ {s} : HealthOf(p)' = HealthOf(p)
  <2> SUFFICES ASSUME NEW p \in Sources, p # s
               PROVE  HealthOf(p)' = HealthOf(p)
    OBVIOUS
  <2>1. Untouched(p) /\ source'[p] = source[p] /\ Begun(p)' = Begun(p)
    BY <1>1, OtherEnds
  <2> QED
    BY <1>2, <2>1, HealthSame
<1>4. CASE s \in breached
  <2>1. HealthOf(s)' = HealthOf(s)
    BY <1>2, <1>4, HealthSame
  <2> QED
    BY <1>3, <2>1
<1>5. CASE s \notin breached
  <2>1. CASE FinishCommit(t) /\ SucceedsNow(s, exec[t].run, exec[t].items)
    <3>1. PICK n \in Items : n = exec[t].items
      BY <2>1 DEF FinishCommit, ItemsInv
    <3>2. PICK r : r = exec[t].run
      OBVIOUS
    <3>3. Health!Succeed(s, r, n) /\ r \in RunIds
      BY <1>2, <1>3, <1>5, <2>1, <3>1, <3>2, HealthSucceeds DEF SucceedsNow, Ends
    <3> QED
      BY <1>2, <3>3 DEF Health!Next
  <2>2. CASE /\ Untouched(s)
             /\ Begun(s)' = Begun(s)
             /\ source'[s].active = source[s].active
    <3>1. HealthOf(s)' = HealthOf(s)
      BY <1>2, <1>5, <2>2, HealthSame
    <3> QED
      BY <1>3, <3>1
  <2>3. CASE FailsNow(s, exec[t].run)
    <3>1. PICK r : r = exec[t].run
      OBVIOUS
    <3>2. Health!Fail(s, r, source'[s].active) /\ r \in RunIds
      BY <1>2, <1>3, <1>5, <2>3, <3>1, HealthFails DEF FailsNow, Ends
    <3>3. source'[s].active \in BOOLEAN
      BY <1>2 DEF IInv, TypeOK, SourceRow
    <3> QED
      BY <1>2, <3>2, <3>3 DEF Health!Next
  <2> QED
    BY <1>1, <1>2, <1>5, <2>1, <2>2, <2>3, EndStep
<1> QED
  BY <1>4, <1>5

\* Of the steps that count nothing, the administrator's form switches a source,
\* and a dead connection breaches one.
LEMMA IdleStep ==
    ASSUME IInv, Idles, [Next]_vars
    PROVE  \/ /\ breached' = breached
              /\ \A s \in Sources : source'[s].active = source[s].active
           \/ \E s \in Sources : AdminUpdate(s) \/ AdminCreate(s) \/ AdminDeleteCommit(s)
           \/ \E t \in Threads : FinishCommit(t) \/ FailCommit(t) \/ LoseLockConnection(t)
<1> USE DEF database, history
<1>1. ASSUME NEW t \in Threads, Proceed(t), ~FinishCommit(t), ~FailCommit(t)
      PROVE  breached' = breached /\ source' = source
  BY <1>1 DEF Proceed, TryLock, RecordSkipped, StartRun, StartRaises, CrawlReturns,
     CrawlRaises, FinishRead, CollectRaises, FailRead, FailRaises, SendAlert, Release
<1>2. ASSUME NEW t \in Threads, Begin(t)
      PROVE  breached' = breached /\ source' = source
  BY <1>2 DEF Begin, BeginScheduled, BeginManual, LoadActiveSource
<1>3. ASSUME NEW process, Crash(process)
      PROVE  breached' = breached /\ source' = source
  BY <1>3 DEF Crash
<1>4. ASSUME NEW s \in Sources, AdminDeleteLoad(s)
      PROVE  breached' = breached /\ source' = source
  BY <1>4 DEF AdminDeleteLoad
<1>5. CASE UNCHANGED vars
  BY <1>5 DEF vars
<1>6. ASSUME NEW k \in RunIds, RetainRuns(k)
      PROVE  breached' = breached /\ source' = source
  BY <1>6 DEF RetainRuns
<1> QED
  BY <1>1, <1>2, <1>3, <1>4, <1>5, <1>6 DEF Next, Admin

LEMMA HealthSwitches ==
    ASSUME IInv, IInv', NEW s \in Sources, AdminUpdate(s)
    PROVE  Health!Next \/ UNCHANGED [p \in Sources |-> HealthOf(p)]
<1>1. PICK a \in BOOLEAN, c \in Configs : source' = [source EXCEPT ![s] = Form(@, a, c)]
  BY DEF AdminUpdate
<1>2. source[s] \in SourceRow /\ source \in [Sources -> SourceRow] /\ Present(s)
  BY DEF AdminUpdate, IInv, TypeOK
<1>3. /\ source'[s] = Form(source[s], a, c)
      /\ \A p \in Sources \ {s} : source'[p] = source[p]
  BY <1>1, <1>2
<1>4. /\ source'[s].failures = source[s].failures
      /\ source'[s].status = "present"
      /\ source'[s].active = a
  BY <1>2, <1>3, FormFields
<1>5. UNCHANGED <<runs, breached, aged, cleared>>
  BY DEF AdminUpdate, history
<1>6. \A p \in Sources : Untouched(p) /\ Begun(p)' = Begun(p)
  BY <1>2, <1>3, <1>4, <1>5 DEF Untouched, HasEnded, Clears, Present, Begun
<1>7. \A p \in Sources \ {s} : HealthOf(p)' = HealthOf(p)
  BY <1>3, <1>5, <1>6, HealthSame
<1>8. CASE s \in breached
  BY <1>5, <1>7, <1>8, HealthSame
<1>9. CASE s \notin breached
  <2>1. Accepted(s)' = Accepted(s)
    BY <1>5 DEF Accepted, SuccessfulRuns, Succeeded
  <2>2. HealthOf(s)' =
          Health!Known(a, source[s].failures, Begun(s), Accepted(s))
    BY <1>4, <1>5, <1>6, <1>9, <2>1, HealthKeptNext DEF Present
  <2>3. Health!Becomes(s, Health!Known(a, HealthOf(s).failures,
                                       HealthOf(s).begun, HealthOf(s).accepted))
    BY <1>2, <1>7, <1>9, <2>2, HealthKept, HealthBecomes
  <2>4. Health!Switch(s, a)
    BY <1>2, <1>9, <2>3, HealthKept DEF Health!Switch
  <2> QED
    BY <2>4 DEF Health!Next
<1> QED
  BY <1>8, <1>9

LEMMA HealthLoses ==
    ASSUME IInv, NEW t \in Threads, LoseLockConnection(t)
    PROVE  Health!Next \/ UNCHANGED [p \in Sources |-> HealthOf(p)]
<1>1. PICK s : s = exec[t].source
  OBVIOUS
<1>2. /\ s \in Sources
      /\ breached' = breached \cup {s}
      /\ UNCHANGED <<runs, source, aged, cleared>>
  BY <1>1 DEF LoseLockConnection, IInv, ExecInv, Knows, Holding, database
<1>3. \A p \in Sources : /\ Untouched(p)
                          /\ Begun(p)' = Begun(p)
                          /\ source'[p].active = source[p].active
  BY <1>2 DEF Untouched, HasEnded, Clears, Begun
<1>4. \A p \in Sources \ {s} : HealthOf(p)' = HealthOf(p)
  BY <1>2, <1>3, HealthSame
<1>5. HealthOf(s)' = Health!Blank("unknown")
  BY <1>2 DEF HealthOf, Health!Blank
<1>6. Health!Lose(s)
  BY <1>2, <1>4, <1>5, HealthBecomes DEF Health!Lose
<1> QED
  BY <1>2, <1>6 DEF Health!Next

LEMMA HealthCreates ==
    ASSUME IInv, IInv', AgeInv, NEW s \in Sources, AdminCreate(s)
    PROVE  Health!Next \/ UNCHANGED [p \in Sources |-> HealthOf(p)]
<1>1. /\ source[s].status = "new"
      /\ source'[s].status = "present"
      /\ source'[s].failures = 0
      /\ \A p \in Sources \ {s} : source'[p] = source[p]
      /\ \A r \in RunIds : runs'[r].source # s
      /\ UNCHANGED <<runs, breached, aged, cleared>>
  BY CreateFacts DEF AgeInv
<1>2. \A p \in Sources \ {s} : Untouched(p) /\ Begun(p)' = Begun(p)
  BY <1>1 DEF Untouched, HasEnded, Clears, Begun
<1>3. \A p \in Sources \ {s} : HealthOf(p)' = HealthOf(p)
  BY <1>1, <1>2, HealthSame
<1>4. CASE s \in breached
  <2>1. HealthOf(s)' = HealthOf(s)
    BY <1>1, <1>4, HealthSame
  <2> QED
    BY <1>3, <2>1
<1>5. CASE s \notin breached
  <2>1. Accepted(s)' = {} /\ Begun(s)' = {}
    BY <1>1 DEF Accepted, Begun, SuccessfulRuns, Succeeded
  <2>2. HealthOf(s)' = Health!Known(source'[s].active, 0, {}, {})
    BY <1>1, <1>5, <2>1, HealthKeptNext DEF Present
  <2>3. HealthOf(s).state = "new"
    BY <1>1, <1>5 DEF HealthOf, Present
  <2>4. Health!Create(s, source'[s].active)
    BY <1>3, <2>2, <2>3, HealthBecomes DEF Health!Create
  <2>5. source'[s].active \in BOOLEAN
    BY DEF IInv, TypeOK, SourceRow
  <2> QED
    BY <2>4, <2>5 DEF Health!Next
<1> QED
  BY <1>4, <1>5

LEMMA HealthDeletes ==
    ASSUME IInv, AgeInv, NEW s \in Sources, AdminDeleteCommit(s)
    PROVE  Health!Next \/ UNCHANGED [p \in Sources |-> HealthOf(p)]
<1>1. /\ Present(s)
      /\ source'[s].status = "deleted"
      /\ \A p \in Sources \ {s} : source'[p] = source[p]
      /\ \A r \in RunIds : runs[r].source # s => runs'[r] = runs[r]
      /\ \A r \in RunIds : runs'[r].source = runs[r].source
      /\ UNCHANGED <<breached, aged, cleared>>
  BY DeleteFacts DEF AgeInv
<1>2. \A p \in Sources \ {s} : Untouched(p) /\ Begun(p)' = Begun(p)
  BY <1>1 DEF Untouched, HasEnded, Clears, Begun
<1>3. \A p \in Sources \ {s} : HealthOf(p)' = HealthOf(p)
  BY <1>1, <1>2, HealthSame
<1>4. CASE s \in breached
  <2>1. HealthOf(s)' = HealthOf(s)
    BY <1>1, <1>4, HealthSame
  <2> QED
    BY <1>3, <2>1
<1>5. CASE s \notin breached
  <2>1. HealthOf(s)' = Health!Blank("deleted")
    BY <1>1, <1>5 DEF HealthOf, Present, Health!Blank
  <2>2. HealthOf(s).state = "present"
    BY <1>1, <1>5, HealthKept
  <2>3. Health!Delete(s)
    BY <1>3, <2>1, <2>2, HealthBecomes DEF Health!Delete
  <2> QED
    BY <2>3 DEF Health!Next
<1> QED
  BY <1>4, <1>5

\* A crawl begins while the source is on, and has the highest number so far.
LEMMA HealthBegins ==
    ASSUME IInv, ClearedInv, NEW t \in Threads, Inserts(t, "running")
    PROVE  Health!Next \/ UNCHANGED [p \in Sources |-> HealthOf(p)]
<1>1. PICK s : s = exec[t].source
  OBVIOUS
<1>2. /\ s \in Sources /\ Present(s) /\ source[s].active
      /\ nextRun \in RunIds
      /\ runs[nextRun].source = None
      /\ runs'[nextRun].source = s
      /\ runs'[nextRun].status = "running"
      /\ \A r \in RunIds \ {nextRun} : runs'[r] = runs[r]
      /\ \A r \in RunIds : r > nextRun => runs[r].source = None
      /\ UNCHANGED <<source, aged, breached, cleared>>
  BY <1>1, InsertFacts DEF Inserts
<1>n. None \notin Sources
  BY ConstantsOK
<1>3. nextRun \notin cleared
  BY <1>2 DEF ClearedInv, IInv, RowInv, Accounted, TypeOK
<1>4. \A p \in Sources : Untouched(p)
  BY <1>2, <1>3, <1>n DEF Untouched, HasEnded, Clears
<1>5. \A p \in Sources \ {s} : Begun(p)' = Begun(p)
  BY <1>2, <1>n DEF Begun
<1>6. \A p \in Sources \ {s} : HealthOf(p)' = HealthOf(p)
  BY <1>2, <1>4, <1>5, HealthSame
<1>7. CASE s \in breached
  <2>1. HealthOf(s)' = HealthOf(s)
    BY <1>2, <1>7, HealthSame
  <2> QED
    BY <1>6, <2>1
<1>8. CASE s \notin breached
  <2>1. Begun(s)' = Begun(s) \cup {nextRun}
    BY <1>2, <1>n DEF Begun
  <2>2. \A j \in Begun(s) : j < nextRun
    BY <1>2, <1>n DEF Begun, RunIds
  <2>3. Accepted(s)' = Accepted(s)
    <3>1. /\ SuccessfulRuns(s)' = SuccessfulRuns(s)
          /\ \A r \in SuccessfulRuns(s) : runs'[r].items = runs[r].items
      BY <1>2, <1>n DEF SuccessfulRuns, Succeeded
    <3> QED
      BY <3>1, AcceptedSame
  <2>4. HealthOf(s)' = Health!Known(source[s].active, source[s].failures,
                                    Begun(s) \cup {nextRun}, Accepted(s))
    BY <1>2, <1>8, <2>1, <2>3, HealthKeptNext DEF Present
  <2>t. source[s].active = TRUE
    BY <1>2 DEF IInv, TypeOK, SourceRow
  <2>5. Health!Becomes(s, Health!Known(TRUE, HealthOf(s).failures,
                                       HealthOf(s).begun \cup {nextRun},
                                       HealthOf(s).accepted))
    BY <1>2, <1>6, <1>8, <2>4, <2>t, HealthKept, HealthBecomes
  <2>6. Health!Begin(s, nextRun)
    BY <1>2, <1>8, <2>2, <2>5, HealthKept DEF Health!Begin
  <2> QED
    BY <1>2, <2>6 DEF Health!Next
<1> QED
  BY <1>7, <1>8

\* What forgetting does to a record that is known and to one that is not.
LEMMA AgedRecord ==
    ASSUME NEW k, NEW active, NEW failures, NEW begun, NEW accepted, NEW state
    PROVE  /\ Health!Aged(Health!Known(active, failures, begun, accepted), k) =
                Health!Known(active, failures, begun, {x \in accepted : x[1] > k})
           /\ Health!Aged(Health!Blank(state), k) = Health!Blank(state)
<1>1. Health!Aged(Health!Known(active, failures, begun, accepted), k) =
        Health!Known(active, failures, begun, {x \in accepted : x[1] > k})
  BY DEF Health!Aged, Health!Known
<1>2. Health!Aged(Health!Blank(state), k) = Health!Blank(state)
  <2>1. \A x : x \notin {y \in {} : y[1] > k}
    OBVIOUS
  <2>2. {x \in {} : x[1] > k} = {}
    BY <2>1
  <2> QED
    BY <2>2 DEF Health!Aged, Health!Blank
<1> QED
  BY <1>1, <1>2

\* Retention forgets the oldest successes of every source.
LEMMA HealthForgets ==
    ASSUME IInv, NEW k \in RunIds, RetainRuns(k)
    PROVE  Health!Forget(k)
<1>1. UNCHANGED <<source, runs, breached>> /\ aged' = k /\ aged < k
  BY DEF RetainRuns, history, IInv, TypeOK
<1>2. ASSUME NEW s \in Sources
      PROVE  HealthOf(s)' = Health!Aged(HealthOf(s), k)
  <2>1. \A q : q \in SuccessfulRuns(s)' <=> q \in SuccessfulRuns(s) /\ q > k
    BY <1>1 DEF SuccessfulRuns, Succeeded, RunIds, IInv, TypeOK
  <2>2. Accepted(s)' = {x \in Accepted(s) : x[1] > k}
    <3>1. ASSUME NEW x
          PROVE  x \in Accepted(s)' <=> x \in Accepted(s) /\ x[1] > k
      <4>1. x \in Accepted(s)' <=>
              \E q \in SuccessfulRuns(s)' : x = <<q, runs'[q].items>>
        BY DEF Accepted
      <4>2. x \in Accepted(s) <=>
              \E q \in SuccessfulRuns(s) : x = <<q, runs[q].items>>
        BY DEF Accepted
      <4> QED
        BY <1>1, <2>1, <4>1, <4>2
    <3> QED
      BY <3>1
  <2>3. Begun(s)' = Begun(s)
    BY <1>1 DEF Begun
  <2>4. CASE s \notin breached /\ Present(s)
    <3>1. HealthOf(s) = Health!Known(source[s].active, source[s].failures,
                                     Begun(s), Accepted(s))
      BY <2>4, HealthKept
    <3>2. HealthOf(s)' = Health!Known(source[s].active, source[s].failures,
                                      Begun(s), {x \in Accepted(s) : x[1] > k})
      BY <1>1, <2>2, <2>3, <2>4, HealthKeptNext DEF Present
    <3> QED
      BY <3>1, <3>2, AgedRecord
  <2>5. CASE ~(s \notin breached /\ Present(s))
    <3>1. PICK state : state = IF s \in breached THEN "unknown" ELSE source[s].status
      OBVIOUS
    <3>2. HealthOf(s) = Health!Blank(state)
      BY <2>5, <3>1 DEF HealthOf, Health!Blank
    <3>3. HealthOf(s)' = Health!Blank(state)
      BY <1>1, <2>5, <3>1 DEF HealthOf, Health!Blank, Present
    <3> QED
      BY <3>2, <3>3, AgedRecord
  <2> QED
    BY <2>4, <2>5
<1> QED
  BY <1>2 DEF Health!Forget

LEMMA HealthStep ==
    ASSUME HInv, IInv', ItemsInv, [Next]_vars
    PROVE  Health!Next \/ UNCHANGED [p \in Sources |-> HealthOf(p)]
<1> USE DEF HInv
<1>1. ASSUME NEW t \in Threads, FinishCommit(t) \/ FailCommit(t)
      PROVE  Health!Next \/ UNCHANGED [p \in Sources |-> HealthOf(p)]
  BY <1>1, HealthEnds
<1>2. ASSUME NEW t \in Threads, Inserts(t, "skipped")
      PROVE  UNCHANGED [p \in Sources |-> HealthOf(p)]
  <2>1. nextRun \notin cleared
    BY <1>2, InsertFacts DEF ClearedInv, IInv, RowInv, Accounted, TypeOK
  <2>2. \A s \in Sources : Untouched(s) /\ Begun(s)' = Begun(s)
    BY <1>2, <2>1, InsertFacts, ConstantsOK DEF Untouched, HasEnded, Clears, Begun
  <2>3. UNCHANGED <<source, breached, aged>>
    BY <1>2 DEF Inserts
  <2> QED
    BY <2>2, <2>3, HealthSame
<1>2a. ASSUME NEW t \in Threads, Inserts(t, "running")
       PROVE  Health!Next \/ UNCHANGED [p \in Sources |-> HealthOf(p)]
  BY <1>2a, HealthBegins
<1>2b. ASSUME NEW k \in RunIds, RetainRuns(k)
       PROVE  Health!Next
  BY <1>2b, HealthForgets DEF Health!Next
<1>3. ASSUME NEW s \in Sources, AdminCreate(s) \/ AdminUpdate(s) \/ AdminDeleteCommit(s)
      PROVE  Health!Next \/ UNCHANGED [p \in Sources |-> HealthOf(p)]
  BY <1>3, HealthCreates, HealthSwitches, HealthDeletes
<1>4. ASSUME NEW t \in Threads, LoseLockConnection(t)
      PROVE  Health!Next \/ UNCHANGED [p \in Sources |-> HealthOf(p)]
  BY <1>4, HealthLoses
<1>5. ASSUME Idles, breached' = breached,
             \A s \in Sources : source'[s].active = source[s].active
      PROVE  UNCHANGED [p \in Sources |-> HealthOf(p)]
  BY <1>5, HealthSame DEF Idles, Untouched, HasEnded, Clears, Begun
<1>6. CASE Idles
  BY <1>1, <1>3, <1>4, <1>5, <1>6, IdleStep
<1> QED
  BY <1>1, <1>2, <1>2a, <1>2b, <1>3, <1>6, TableStep DEF IInv

\* The crawls of a source count as if each had run alone when it commits, until
\* a lock of the source is lost: the executions implement SourceHealth.
THEOREM ImplementsHealth == Spec => KeepsHealth
<1>1. Init => Health!Init
  <2> SUFFICES ASSUME Init PROVE Health!Init
    OBVIOUS
  <2>1. \A s \in Sources : HealthOf(s) = Health!Blank("new")
    BY DEF Init, HealthOf, Present, Health!Blank
  <2> QED
    BY <2>1 DEF Health!Init
<1>2. Init => ItemsInv
  BY DEF Init, ItemsInv
<1>3. HInv /\ ItemsInv /\ [Next]_vars => ItemsInv'
  BY ItemsStep DEF HInv
<1>4. HInv /\ HInv' /\ ItemsInv /\ [Next]_vars
        => [Health!Next]_[s \in Sources |-> HealthOf(s)]
  BY HealthStep DEF HInv
<1> QED
  BY <1>1, <1>2, <1>3, <1>4, HistoryInvariance, PTL DEF Spec, KeepsHealth, Health!Spec

=============================================================================
