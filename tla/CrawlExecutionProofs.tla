------------------------ MODULE CrawlExecutionProofs ------------------------
(***************************************************************************)
(* Proofs about CrawlExecution for every set of sources and threads, every *)
(* threshold and every number of runs.                                     *)
(***************************************************************************)
EXTENDS CrawlExecution, TLAPS

\* What the execution of thread t knows at each point of run_source.
Knows(t) ==
    /\ pc[t] # "idle" => exec[t].source \in Sources
    /\ pc[t] \in {"crawling", "finishing", "committing"} =>
          exec[t].config \in Configs
    /\ pc[t] \in {"committing", "marking"} => exec[t].loaded \in SourceRow
    /\ pc[t] \in Running => exec[t].run \in (aged + 1)..(nextRun - 1)

ExecInv == aged < nextRun /\ \A t \in Threads : Knows(t)

\* A thread past the lock holds it, unless its connection died.
LockInv ==
    \A t \in Threads :
        pc[t] \in Holding /\ t \notin lost => lock[exec[t].source] = t

\* The rows that have not been inserted yet, and those that say RUNNING: their
\* source exists, and an execution will close them unless it was cut short.
Accounted(r) ==
    /\ r >= nextRun => runs[r].status = "unused" /\ runs[r].source = None
    /\ runs[r].status = "running" =>
          /\ runs[r].source \in Sources
          /\ Present(runs[r].source)
          /\ r \in orphans \/ \E t \in Threads : Owns(t, r)

RowInv == \A r \in RunIds : Accounted(r)

\* The row that the execution of a thread will close is its own, and open
\* unless the answer to the commit that closed it was lost.
OwnerInv ==
    /\ \A t, u \in Threads :
          /\ pc[t] \in Running
          /\ pc[u] \in Running
          /\ exec[t].run = exec[u].run
          => t = u
    /\ \A t \in Threads : pc[t] \in Running =>
          /\ runs[exec[t].run].source = exec[t].source
          /\ \/ runs[exec[t].run].status \in {"running", "deleted"}
             \/ /\ pc[t] \in {"failing", "marking"}
                /\ exec[t].run \in unanswered
                /\ runs[exec[t].run].status \in {"success", "partial"}

IInv == TypeOK /\ ExecInv /\ LockInv /\ RowInv /\ OwnerInv

-----------------------------------------------------------------------------

LEMMA LocalsType ==
    ASSUME NEW s \in Sources \cup {None}, NEW r \in Nat,
           NEW alert \in {"none", "disabled", "drop"}
    PROVE  Locals(s, r, alert) \in Exec
BY DEF Locals, Exec, Outcomes

LEMMA KeepType ==
    ASSUME NEW e \in Exec
    PROVE  /\ Keep(e) \in Exec
           /\ Keep(e).source = e.source
           /\ Keep(e).run = e.run
BY LocalsType DEF Keep, Exec, Locals

LEMMA ClosedType ==
    ASSUME NEW row \in Row, NEW n \in Nat,
           NEW status \in {"success", "partial", "failed"}
    PROVE  /\ Closed(row, status, n) \in Row
           /\ Closed(row, status, n).status = status
           /\ Closed(row, status, n).source = row.source
BY DEF Closed, Row

LEMMA StartedType ==
    ASSUME NEW e \in Exec, NEW config \in Configs, nextRun \in Nat
    PROVE  /\ Started(e, config) \in Exec
           /\ Started(e, config).source = e.source
           /\ Started(e, config).run = nextRun
           /\ Started(e, config).config = config
BY DEF Started, Exec

LEMMA CrawledType ==
    ASSUME NEW e \in Exec, NEW n \in Nat, NEW p \in BOOLEAN
    PROVE  /\ Crawled(e, n, p) \in Exec
           /\ Crawled(e, n, p).source = e.source
           /\ Crawled(e, n, p).run = e.run
           /\ Crawled(e, n, p).config = e.config
BY DEF Crawled, Exec

LEMMA JudgedType ==
    ASSUME NEW e \in Exec, NEW row \in SourceRow, NEW dropped \in BOOLEAN
    PROVE  /\ Judged(e, row, dropped) \in Exec
           /\ Judged(e, row, dropped).source = e.source
           /\ Judged(e, row, dropped).run = e.run
           /\ Judged(e, row, dropped).config = e.config
           /\ Judged(e, row, dropped).loaded = row
BY DEF Judged, Exec, Outcomes

LEMMA FinishedSourceType ==
    ASSUME NEW row \in SourceRow, NEW e \in Exec, e.config \in Configs
    PROVE  /\ FinishedSource(row, e) \in SourceRow
           /\ FinishedSource(row, e).status = row.status
           /\ FinishedSource(row, e).active = row.active
BY DEF FinishedSource, SourceRow

LEMMA FailedSourceType ==
    ASSUME NEW row \in SourceRow, NEW e \in Exec, e.loaded \in SourceRow
    PROVE  /\ FailedSource(row, e) \in SourceRow
           /\ FailedSource(row, e).status = row.status
           /\ FailedSource(row, e).active => row.active
<1> DEFINE n == e.loaded.failures + 1
           b == IF Trips(n) /\ e.loaded.active THEN FALSE ELSE row.active
<1>1. n \in Nat
  BY DEF SourceRow
<1>2. b \in BOOLEAN /\ (b => row.active)
  BY DEF SourceRow
<1>3. FailedSource(row, e) = [row EXCEPT !.failures = n, !.active = b]
  BY Zenon DEF FailedSource
<1> HIDE DEF n, b
<1> QED
  BY <1>1, <1>2, <1>3 DEF SourceRow

LEMMA FormType ==
    ASSUME NEW row \in SourceRow, NEW a \in BOOLEAN, NEW c \in Configs
    PROVE  /\ Form(row, a, c) \in SourceRow
           /\ Form(row, a, c).status = "present"
BY DEF Form, SourceRow

LEMMA GoneType ==
    ASSUME NEW row \in SourceRow
    PROVE  /\ Gone(row) \in SourceRow
           /\ Gone(row).status = "deleted"
           /\ ~Gone(row).active
BY DEF Gone, SourceRow

LEMMA NewRowType ==
    ASSUME NEW s \in Sources, NEW status \in {"running", "skipped"}
    PROVE  NewRow(s, status) \in Row
BY DEF NewRow, Row, Outcomes

LEMMA TypeInit == Init => TypeOK
<1> SUFFICES ASSUME Init PROVE TypeOK
  OBVIOUS
<1>1. NoExec \in Exec
  BY LocalsType DEF NoExec
<1>2. source \in [Sources -> SourceRow]
  BY ConstantsOK DEF Init, SourceRow
<1>3. NoRow \in Row
  BY DEF NoRow, NewRow, Row, Outcomes
<1>4. nextRun \in 1..(MaxRuns + 1)
  BY ConstantsOK DEF Init
<1>5. aged \in 0..MaxRuns
  BY ConstantsOK DEF Init
<1> QED
  BY <1>1, <1>2, <1>3, <1>4, <1>5 DEF Init, TypeOK, Pcs

LEMMA CloseRunType ==
    ASSUME TypeOK, NEW r, NEW n \in Nat,
           NEW status \in {"success", "partial", "failed"},
           CloseRun(r, status, n)
    PROVE  runs' \in [RunIds -> Row]
<1>1. ASSUME r \in RunIds PROVE Closed(runs[r], status, n) \in Row
  BY <1>1, ClosedType DEF TypeOK
<1> QED
  BY <1>1 DEF TypeOK, CloseRun

\* A step of an execution keeps the types.
LEMMA TypeProceed ==
    ASSUME TypeOK, ExecInv, NEW t \in Threads, Proceed(t)
    PROVE  TypeOK'
<1> USE ConstantsOK DEF database, history
<1>e. exec[t] \in Exec /\ Keep(exec[t]) \in Exec
  BY KeepType DEF TypeOK
<1>n. NoExec \in Exec
  BY LocalsType DEF NoExec
<1>1. CASE TryLock(t)
  BY <1>1 DEF TypeOK, TryLock, Pcs, Holding
<1>2. CASE RecordSkipped(t)
  <2>1. runs' \in [RunIds -> Row] /\ nextRun' \in 1..(MaxRuns + 1)
    <3>1. NewRow(exec[t].source, "skipped") \in Row
      BY <1>2, NewRowType DEF RecordSkipped, ExecInv, Knows
    <3> QED
      BY <1>2, <3>1 DEF TypeOK, RecordSkipped, InsertRun
  <2> QED
    BY <1>2, <1>n, <2>1 DEF TypeOK, RecordSkipped, Pcs
<1>3. CASE StartRun(t)
  <2>1. exec[t].source \in Sources
    BY <1>3 DEF StartRun, ExecInv, Knows
  <2>2. runs' \in [RunIds -> Row] /\ nextRun' \in 1..(MaxRuns + 1)
    <3>1. NewRow(exec[t].source, "running") \in Row
      BY <2>1, NewRowType
    <3> QED
      BY <1>3, <3>1 DEF TypeOK, StartRun, InsertRun
  <2>4. orphans' \subseteq Nat
    <3>1. orphans' = orphans \/ orphans' = orphans \cup {nextRun}
      BY <1>3 DEF StartRun
    <3>2. nextRun \in Nat /\ orphans \subseteq Nat
      BY DEF TypeOK
    <3> QED
      BY <3>1, <3>2
  <2>3. exec' \in [Threads -> Exec]
    <3>1. source[exec[t].source].config \in Configs
      BY <2>1 DEF TypeOK, SourceRow
    <3>2. Started(exec[t], source[exec[t].source].config) \in Exec
      BY <1>e, <3>1, StartedType DEF TypeOK
    <3> QED
      BY <1>3, <3>2 DEF TypeOK, StartRun
  <2> QED
    BY <1>3, <2>2, <2>3, <2>4 DEF TypeOK, StartRun, Pcs, Holding
<1>3a. CASE StartRaises(t)
  BY <1>3a, <1>n DEF TypeOK, StartRaises, Pcs, Holding
<1>4. CASE CrawlReturns(t)
  <2>1. exec' \in [Threads -> Exec]
    <3>1. PICK n \in Items, p \in BOOLEAN :
            exec' = [exec EXCEPT ![t] = Crawled(@, n, p)]
      BY <1>4 DEF CrawlReturns
    <3>2. Crawled(exec[t], n, p) \in Exec
      BY <1>e, CrawledType
    <3> QED
      BY <3>1, <3>2 DEF TypeOK
  <2> QED
    BY <1>4, <2>1 DEF TypeOK, CrawlReturns, Pcs, Holding
<1>5. CASE CrawlRaises(t)
  BY <1>5, <1>e DEF TypeOK, CrawlRaises, AfterError, Pcs, Holding
<1>6. CASE FinishRead(t)
  <2>1. exec' \in [Threads -> Exec]
    <3>1. CASE Present(exec[t].source)
      <4>1. source[exec[t].source] \in SourceRow
        BY <1>6 DEF TypeOK, FinishRead, ExecInv, Knows
      <4>2. PICK dropped \in BOOLEAN :
              exec' = [exec EXCEPT
                         ![t] = Judged(exec[t], source[exec[t].source], dropped)]
        BY <1>6, <3>1 DEF FinishRead, CollectionDropped
      <4>3. Judged(exec[t], source[exec[t].source], dropped) \in Exec
        BY <1>e, <4>1, JudgedType
      <4> QED
        BY <4>2, <4>3 DEF TypeOK
    <3>2. CASE ~Present(exec[t].source)
      BY <1>6, <1>e, <3>2 DEF TypeOK, FinishRead
    <3> QED
      BY <3>1, <3>2
  <2> QED
    BY <1>6, <2>1 DEF TypeOK, FinishRead, AfterError, Pcs, Holding
<1>7. CASE CollectRaises(t)
  BY <1>7, <1>e DEF TypeOK, CollectRaises, AfterError, Pcs, Holding
<1>8. CASE FinishCommit(t)
  <2> DEFINE e == exec[t]
             alert == IF e.outcome = "drop" THEN "drop" ELSE "none"
  <2>1. /\ e.source \in Sources /\ e.config \in Configs
        /\ e.run \in Nat /\ e.items \in Nat /\ e.outcome \in Outcomes
    BY <1>8, <1>e DEF FinishCommit, ExecInv, Knows, Exec
  <2>2. Locals(e.source, e.run, alert) \in Exec
    BY <2>1, LocalsType
  <2>3. source' \in [Sources -> SourceRow]
    <3>1. FinishedSource(source[e.source], e) \in SourceRow
      BY <1>e, <2>1, FinishedSourceType DEF TypeOK
    <3> QED
      BY <1>8, <3>1 DEF TypeOK, FinishCommit
  <2>4. runs' \in [RunIds -> Row]
    BY <1>8, <2>1, CloseRunType DEF FinishCommit, RunStatus
  <2>5. exec' \in [Threads -> Exec] /\ pc' \in [Threads -> Pcs]
    BY <1>8, <1>e, <2>2 DEF TypeOK, FinishCommit, AfterCommit, AfterError, Pcs,
                            Holding
  <2>6. cleared' \subseteq Nat /\ unanswered' \subseteq Nat
    BY <1>8, <2>1 DEF TypeOK, FinishCommit
  <2> QED
    BY <1>8, <2>3, <2>4, <2>5, <2>6 DEF TypeOK, FinishCommit
<1>9. CASE FailRead(t)
  <2>1. exec' \in [Threads -> Exec]
    BY <1>9, <1>e DEF TypeOK, FailRead, ExecInv, Knows, Exec
  <2> QED
    BY <1>9, <2>1 DEF TypeOK, FailRead, Pcs, Holding
<1>10. CASE FailCommit(t)
  <2> DEFINE e == exec[t]
             alert == IF Trips(e.loaded.failures + 1) THEN "disabled"
                      ELSE "none"
  <2>1. e.source \in Sources /\ e.loaded \in SourceRow /\ e.run \in Nat
    BY <1>10, <1>e DEF FailCommit, ExecInv, Knows, Exec, Running
  <2>2. Locals(e.source, e.run, alert) \in Exec
    BY <2>1, LocalsType
  <2>3. source' \in [Sources -> SourceRow]
    <3>1. FailedSource(source[e.source], e) \in SourceRow
      BY <1>e, <2>1, FailedSourceType DEF TypeOK
    <3> QED
      BY <1>10, <3>1 DEF TypeOK, FailCommit
  <2>4. runs' \in [RunIds -> Row]
    <3>1. exec[t].run \in RunIds
      BY <1>10 DEF FailCommit, TypeOK, ExecInv, Knows, Running, RunIds
    <3>2. runs[exec[t].run].items \in Nat
      BY <3>1 DEF TypeOK, Row
    <3> QED
      BY <1>10, <3>2, CloseRunType DEF FailCommit
  <2>5. exec' \in [Threads -> Exec] /\ pc' \in [Threads -> Pcs]
    BY <1>10, <1>e, <2>2 DEF TypeOK, FailCommit, AfterCommit, AfterFailRaises,
                             Pcs, Holding
  <2> QED
    BY <1>10, <2>3, <2>4, <2>5 DEF TypeOK, FailCommit
<1>11. CASE FailRaises(t)
  <2>1. exec[t].run \in Nat
    BY <1>e DEF Exec
  <2> QED
    BY <1>11, <1>e, <2>1 DEF TypeOK, FailRaises, AfterFailRaises, Pcs, Holding
<1>12. CASE SendAlert(t)
  <2>1. [run |-> exec[t].run, kind |-> exec[t].alert]
            \in [run : Nat, kind : {"none", "disabled", "drop"}]
    BY <1>e DEF Exec
  <2> QED
    BY <1>12, <1>e, <2>1 DEF TypeOK, SendAlert, AfterAlertError, Pcs, Holding
<1>13. CASE Release(t)
  BY <1>13, <1>n DEF TypeOK, Release, Pcs
<1> QED
  BY <1>1, <1>2, <1>3, <1>4, <1>5, <1>6, <1>7, <1>8, <1>9, <1>10, <1>11,
     <1>12, <1>13, <1>3a DEF Proceed

\* So do the steps of everybody else.
LEMMA TypeOthers ==
    ASSUME TypeOK, ExecInv,
           \/ \E t \in Threads : Begin(t) \/ LoseLockConnection(t)
           \/ \E process \in {WorkerThreads, ApiThreads} : Crash(process)
           \/ \E s \in Sources : Admin(s)
           \/ \E k \in RunIds : RetainRuns(k)
    PROVE  TypeOK'
<1> USE ConstantsOK DEF database, history
<1>n. NoExec \in Exec
  BY LocalsType DEF NoExec
<1>1. ASSUME NEW t \in Threads, NEW s \in Sources, LoadActiveSource(t, s)
      PROVE  TypeOK'
  <2>1. Locals(s, 0, "none") \in Exec
    BY LocalsType
  <2> QED
    BY <1>1, <2>1 DEF TypeOK, LoadActiveSource, Pcs
<1>2. ASSUME NEW t \in Threads, LoseLockConnection(t)
      PROVE  TypeOK'
  <2>1. exec[t].source \in Sources
    BY <1>2 DEF LoseLockConnection, ExecInv, Knows, Holding
  <2> QED
    BY <1>2, <2>1 DEF TypeOK, LoseLockConnection
<1>3. ASSUME NEW process \in {WorkerThreads, ApiThreads}, Crash(process)
      PROVE  TypeOK'
  <2>1. process \subseteq Threads
    BY DEF Threads
  <2>2. orphans' \subseteq Nat
    <3>1. \A t \in Threads : exec[t].run \in Nat
      BY DEF TypeOK, Exec
    <3>2. {exec[t].run : t \in {u \in process : pc[u] \in Running}}
             \subseteq Nat
      BY <2>1, <3>1
    <3>3. orphans \subseteq Nat
      BY DEF TypeOK
    <3> QED
      BY <1>3, <3>2, <3>3 DEF Crash
  <2>3. exec' \in [Threads -> Exec] /\ pc' \in [Threads -> Pcs]
    BY <1>3, <1>n DEF TypeOK, Crash, Pcs
  <2> QED
    BY <1>3, <2>2, <2>3 DEF TypeOK, Crash
<1>4. ASSUME NEW s \in Sources, Admin(s)
      PROVE  TypeOK'
  <2>s. source[s] \in SourceRow
    BY DEF TypeOK
  <2>1. CASE AdminCreate(s) \/ AdminUpdate(s)
    <3>1. PICK a \in BOOLEAN, c \in Configs :
            source' = [source EXCEPT ![s] = Form(@, a, c)]
      BY <2>1 DEF AdminCreate, AdminUpdate
    <3>2. source' \in [Sources -> SourceRow]
      BY <2>s, <3>1, FormType DEF TypeOK
    <3> QED
      BY <2>1, <3>2 DEF TypeOK, AdminCreate, AdminUpdate
  <2>2. CASE AdminDeleteLoad(s)
    BY <2>2 DEF TypeOK, AdminDeleteLoad
  <2>3. CASE AdminDeleteCommit(s)
    <3>1. source' \in [Sources -> SourceRow]
      BY <2>s, <2>3, GoneType DEF TypeOK, AdminDeleteCommit
    <3>2. \A r \in RunIds : [runs[r] EXCEPT !.status = "deleted"] \in Row
      BY DEF TypeOK, Row
    <3>3. runs' \in [RunIds -> Row]
      BY <2>3, <3>2 DEF TypeOK, AdminDeleteCommit
    <3> QED
      BY <2>3, <3>1, <3>3 DEF TypeOK, AdminDeleteCommit
  <2> QED
    BY <1>4, <2>1, <2>2, <2>3 DEF Admin
<1>5. ASSUME NEW k \in RunIds, RetainRuns(k)
      PROVE  TypeOK'
  BY <1>5 DEF TypeOK, RetainRuns, RunIds
<1> QED
  BY <1>1, <1>2, <1>3, <1>4, <1>5 DEF Begin, BeginScheduled, BeginManual

-----------------------------------------------------------------------------

\* No step but t's own touches what t is doing.
LEMMA ProceedFrame ==
    ASSUME TypeOK, ExecInv, NEW t \in Threads, Proceed(t)
    PROVE  /\ pc[t] # "idle"
           /\ \A u \in Threads \ {t} : pc'[u] = pc[u] /\ exec'[u] = exec[u]
           /\ nextRun' \in {nextRun, nextRun + 1}
           /\ aged' = aged
<1> USE DEF database, history
<1>1. CASE TryLock(t) \/ RecordSkipped(t) \/ StartRun(t) \/ StartRaises(t)
  BY <1>1 DEF TypeOK, TryLock, RecordSkipped, StartRun, InsertRun, StartRaises
<1>2. CASE CrawlReturns(t) \/ CrawlRaises(t) \/ FinishRead(t)
  BY <1>2 DEF TypeOK, CrawlReturns, CrawlRaises, FinishRead
<1>3. CASE CollectRaises(t) \/ FinishCommit(t)
  BY <1>3 DEF TypeOK, CollectRaises, FinishCommit
<1>4. CASE FailRead(t) \/ FailCommit(t) \/ FailRaises(t)
  BY <1>4 DEF TypeOK, FailRead, FailCommit, FailRaises
<1>5. CASE SendAlert(t) \/ Release(t)
  BY <1>5 DEF TypeOK, SendAlert, Release
<1> QED
  BY <1>1, <1>2, <1>3, <1>4, <1>5 DEF Proceed

\* What an execution carries from one of its steps to the next.
LEMMA ProceedLocals ==
    ASSUME TypeOK, ExecInv, NEW t \in Threads, Proceed(t)
    PROVE  /\ pc'[t] # "idle" => exec'[t].source = exec[t].source
           /\ pc'[t] \in Running =>
                \/ /\ pc[t] \in Running
                   /\ exec'[t].run = exec[t].run
                \/ StartRun(t) /\ exec'[t].run = nextRun /\ nextRun' = nextRun + 1
           /\ pc'[t] \in {"crawling", "finishing", "committing"} =>
                exec'[t].config \in Configs
           /\ pc'[t] \in {"committing", "marking"} => exec'[t].loaded \in SourceRow
<1> USE DEF Running
<1>e. exec[t] \in Exec
  BY DEF TypeOK
<1>k. Keep(exec[t]).source = exec[t].source /\ Keep(exec[t]).run = exec[t].run
  BY <1>e, KeepType
<1>s. pc[t] # "idle" => exec[t].source \in Sources /\ source[exec[t].source] \in SourceRow
  BY DEF TypeOK, ExecInv, Knows
<1>l. \A s, r, alert : Locals(s, r, alert).source = s
  BY DEF Locals
<1>1. CASE TryLock(t) \/ RecordSkipped(t) \/ StartRaises(t)
  BY <1>1 DEF TypeOK, TryLock, RecordSkipped, StartRaises
<1>2. CASE StartRun(t)
  <2>1. CASE pc'[t] = "crawling"
    <3>1. source[exec[t].source].config \in Configs
      BY <1>2, <1>s DEF StartRun, SourceRow
    <3>2. exec'[t] = Started(exec[t], source[exec[t].source].config)
      BY <1>2, <2>1 DEF TypeOK, StartRun
    <3>3. nextRun \in Nat /\ nextRun' = nextRun + 1
      BY <1>2, <2>1 DEF TypeOK, StartRun, InsertRun
    <3> QED
      BY <1>2, <2>1, <1>e, <3>1, <3>2, <3>3, StartedType
  <2>2. CASE pc'[t] # "crawling"
    BY <1>2, <2>2 DEF TypeOK, StartRun
  <2> QED
    BY <2>1, <2>2
<1>3. CASE CrawlReturns(t)
  <2>1. PICK n \in Items, p \in BOOLEAN : exec'[t] = Crawled(exec[t], n, p)
    BY <1>3 DEF TypeOK, CrawlReturns
  <2>2. n \in Nat
    BY ConstantsOK
  <2>3. pc[t] = "crawling" /\ pc'[t] = "finishing"
    BY <1>3 DEF TypeOK, CrawlReturns
  <2>4. exec[t].config \in Configs
    BY <2>3 DEF ExecInv, Knows
  <2> QED
    BY <1>e, <2>1, <2>2, <2>3, <2>4, CrawledType
<1>4. CASE CrawlRaises(t) \/ CollectRaises(t)
  BY <1>4, <1>k DEF TypeOK, CrawlRaises, CollectRaises, AfterError
<1>5. CASE FinishRead(t)
  <2>1. pc[t] = "finishing"
    BY <1>5 DEF FinishRead
  <2>2. CASE Present(exec[t].source)
    <3>1. PICK dropped \in BOOLEAN :
            exec'[t] = Judged(exec[t], source[exec[t].source], dropped)
      BY <1>5, <2>2 DEF TypeOK, FinishRead, CollectionDropped
    <3>2. exec[t].config \in Configs
      BY <2>1 DEF ExecInv, Knows
    <3>3. pc'[t] = "committing"
      BY <1>5, <2>2 DEF TypeOK, FinishRead
    <3> QED
      BY <1>e, <1>s, <2>1, <3>1, <3>2, <3>3, JudgedType
  <2>3. CASE ~Present(exec[t].source)
    BY <1>5, <1>k, <2>3 DEF TypeOK, FinishRead, AfterError
  <2> QED
    BY <2>2, <2>3
<1>6. CASE FinishCommit(t) \/ FailCommit(t)
  <2>1. exec'[t].source = exec[t].source
    BY <1>6, <1>k, <1>l DEF TypeOK, FinishCommit, FailCommit
  <2>2. \/ pc'[t] \in {"releasing", "alerting"}
        \/ pc'[t] = "failing" /\ pc[t] = "committing" /\ exec'[t] = Keep(exec[t])
    BY <1>6 DEF TypeOK, FinishCommit, FailCommit, AfterCommit, AfterError,
                AfterFailRaises
  <2> QED
    BY <1>k, <2>1, <2>2
<1>7. CASE FailRead(t)
  BY <1>7, <1>e, <1>s DEF TypeOK, FailRead, Exec
<1>8. CASE FailRaises(t) \/ SendAlert(t) \/ Release(t)
  BY <1>8, <1>k DEF TypeOK, FailRaises, AfterFailRaises, SendAlert,
                    AfterAlertError, Release
<1> QED
  BY <1>1, <1>2, <1>3, <1>4, <1>5, <1>6, <1>7, <1>8 DEF Proceed

LEMMA ExecInit == Init => ExecInv
BY DEF Init, ExecInv, Knows, Running

LEMMA ExecStep ==
    ASSUME TypeOK, ExecInv, TypeOK', [Next]_vars
    PROVE  ExecInv'
<1> USE DEF database, history
<1>1. ASSUME NEW t \in Threads, Proceed(t)
      PROVE  ExecInv'
  <2>1. \A u \in Threads \ {t} : Knows(u)'
    BY <1>1, ProceedFrame DEF ExecInv, Knows, TypeOK
  <2>2. Knows(t)'
    BY <1>1, ProceedFrame, ProceedLocals DEF ExecInv, Knows, TypeOK
  <2>3. aged' < nextRun'
    BY <1>1, ProceedFrame DEF ExecInv, TypeOK
  <2> QED
    BY <2>1, <2>2, <2>3 DEF ExecInv
<1>2. ASSUME NEW t \in Threads, NEW s \in Sources, LoadActiveSource(t, s)
      PROVE  ExecInv'
  <2>1. pc'[t] = "loaded" /\ exec'[t].source = s
    BY <1>2 DEF TypeOK, LoadActiveSource, Locals
  <2> QED
    BY <1>2, <2>1 DEF TypeOK, LoadActiveSource, ExecInv, Knows, Running
<1>3. ASSUME NEW t \in Threads, LoseLockConnection(t)
      PROVE  ExecInv'
  BY <1>3 DEF LoseLockConnection, ExecInv, Knows
<1>4. ASSUME NEW process \in {WorkerThreads, ApiThreads}, Crash(process)
      PROVE  ExecInv'
  <2>1. \A t \in Threads :
          \/ pc'[t] = "idle"
          \/ pc'[t] = pc[t] /\ exec'[t] = exec[t]
    BY <1>4 DEF Crash
  <2>2. nextRun' = nextRun /\ aged' = aged
    BY <1>4 DEF Crash
  <2> QED
    BY <2>1, <2>2 DEF ExecInv, Knows, Running
<1>5. ASSUME NEW s \in Sources, Admin(s)
      PROVE  ExecInv'
  BY <1>5 DEF Admin, AdminCreate, AdminUpdate, AdminDeleteLoad,
              AdminDeleteCommit, ExecInv, Knows
<1>6. ASSUME NEW k \in RunIds, RetainRuns(k)
      PROVE  ExecInv'
  BY <1>6 DEF RetainRuns, ExecInv, Knows, TypeOK
<1>7. CASE UNCHANGED vars
  BY <1>7 DEF vars, ExecInv, Knows
<1> QED
  BY <1>1, <1>2, <1>3, <1>4, <1>5, <1>6, <1>7
  DEF Next, Begin, BeginScheduled, BeginManual

-----------------------------------------------------------------------------

LEMMA LockInit == Init => LockInv
BY DEF Init, LockInv, Holding

\* The lock of a source changes hands only through None.
LEMMA LockStep ==
    ASSUME TypeOK, ExecInv, LockInv, TypeOK', ExecInv', [Next]_vars
    PROVE  LockInv'
<1> USE ConstantsOK DEF database, history
<1>1. ASSUME NEW t \in Threads, Proceed(t)
      PROVE  LockInv'
  <2>f. \A u \in Threads \ {t} : pc'[u] = pc[u] /\ exec'[u] = exec[u]
    BY <1>1, ProceedFrame
  <2>s. pc'[t] # "idle" => exec'[t].source = exec[t].source
    BY <1>1, ProceedLocals
  <2>1. CASE TryLock(t)
    <3>1. exec[t].source \in Sources
      BY <2>1 DEF TryLock, ExecInv, Knows
    <3>2. \A u \in Threads \ {t} :
            pc[u] \in Holding /\ lock[exec[u].source] = u =>
            lock'[exec[u].source] = u
      <4>1. \A u \in Threads : pc[u] \in Holding => exec[u].source \in Sources
        BY DEF ExecInv, Knows, Holding
      <4>2. None \notin Threads
        OBVIOUS
      <4> QED
        BY <2>1, <3>1, <4>1, <4>2 DEF TypeOK, TryLock, LockFree
    <3>3. pc'[t] \in Holding => lock'[exec'[t].source] = t
      BY <2>1, <3>1 DEF TypeOK, TryLock, Holding
    <3>4. lost' = lost
      BY <2>1 DEF TryLock
    <3> QED
      BY <2>f, <3>2, <3>3, <3>4 DEF LockInv
  <2>2. CASE Release(t)
    <3>1. \A u \in Threads \ {t} : pc[u] \in Holding => exec[u].source \in Sources
      BY DEF ExecInv, Knows, Holding
    <3>2. \A u \in Threads \ {t} :
            pc[u] \in Holding /\ lock[exec[u].source] = u =>
            lock'[exec[u].source] = u
      BY <2>2, <3>1 DEF Release
    <3>3. pc'[t] = "idle"
      BY <2>2 DEF TypeOK, Release
    <3>4. lost' = lost \ {t}
      BY <2>2 DEF Release
    <3> QED
      BY <2>f, <3>2, <3>3, <3>4 DEF LockInv, Holding
  <2>3. CASE ~TryLock(t) /\ ~Release(t)
    <3>1. lock' = lock /\ lost' = lost
      BY <1>1, <2>3 DEF Proceed, RecordSkipped, StartRun, StartRaises, CrawlReturns,
           CrawlRaises, FinishRead, CollectRaises, FinishCommit, FailRead,
           FailCommit, FailRaises, SendAlert
    <3>2. pc'[t] \in Holding => pc[t] \in Holding
      BY <1>1, <2>3 DEF TypeOK, Proceed, RecordSkipped, StartRun, StartRaises, CrawlReturns,
           CrawlRaises, FinishRead, CollectRaises, FinishCommit, FailRead,
           FailCommit, FailRaises, SendAlert, Holding
    <3>3. pc'[t] \in Holding => exec'[t].source = exec[t].source
      BY <2>s DEF Holding
    <3> QED
      BY <2>f, <3>1, <3>2, <3>3 DEF LockInv
  <2> QED
    BY <2>1, <2>2, <2>3
<1>2. ASSUME NEW t \in Threads, NEW s \in Sources, LoadActiveSource(t, s)
      PROVE  LockInv'
  BY <1>2 DEF TypeOK, LoadActiveSource, LockInv, Holding
<1>3. ASSUME NEW t \in Threads, LoseLockConnection(t)
      PROVE  LockInv'
  <2>1. \A u \in Threads \ {t} : lock[exec[u].source] = u =>
          lock'[exec[u].source] = u
    BY <1>3 DEF TypeOK, LoseLockConnection
  <2> QED
    BY <1>3, <2>1 DEF LoseLockConnection, LockInv
<1>4. ASSUME NEW process \in {WorkerThreads, ApiThreads}, Crash(process)
      PROVE  LockInv'
  <2>1. \A u \in Threads : pc[u] \in Holding => exec[u].source \in Sources
    BY DEF ExecInv, Knows, Holding
  <2>2. \A u \in Threads : u \in process => pc'[u] = "idle"
    BY <1>4 DEF Crash
  <2>3. \A u \in Threads \ process :
          /\ pc'[u] = pc[u] /\ exec'[u] = exec[u]
          /\ u \in lost' <=> u \in lost
          /\ pc[u] \in Holding /\ lock[exec[u].source] = u =>
               lock'[exec[u].source] = u
    BY <1>4, <2>1 DEF Crash
  <2> QED
    BY <2>2, <2>3 DEF LockInv, Holding
<1>5. ASSUME NEW s \in Sources, Admin(s)
      PROVE  LockInv'
  BY <1>5 DEF Admin, AdminCreate, AdminUpdate, AdminDeleteLoad,
              AdminDeleteCommit, LockInv
<1>6. ASSUME NEW k \in RunIds, RetainRuns(k)
      PROVE  LockInv'
  BY <1>6 DEF RetainRuns, LockInv
<1>7. CASE UNCHANGED vars
  BY <1>7 DEF vars, LockInv
<1> QED
  BY <1>1, <1>2, <1>3, <1>4, <1>5, <1>6, <1>7
  DEF Next, Begin, BeginScheduled, BeginManual

LEMMA RowInit == Init => RowInv /\ OwnerInv
BY DEF Init, RowInv, Accounted, OwnerInv, NoRow, NewRow, Running

\* The statuses of sources change only in the administrator's hands.
LEMMA ProceedPresent ==
    ASSUME TypeOK, ExecInv, NEW t \in Threads, Proceed(t), NEW s \in Sources
    PROVE  source'[s].status = source[s].status
<1>s. pc[t] # "idle" => exec[t].source \in Sources /\ source[exec[t].source] \in SourceRow
  BY DEF TypeOK, ExecInv, Knows
<1>e. exec[t] \in Exec
  BY DEF TypeOK
<1>1. CASE FinishCommit(t)
  <2>1. exec[t].config \in Configs
    BY <1>1 DEF FinishCommit, ExecInv, Knows
  <2>2. FinishedSource(source[exec[t].source], exec[t]).status
          = source[exec[t].source].status
    BY <1>1, <1>s, <1>e, <2>1, FinishedSourceType DEF FinishCommit
  <2> QED
    BY <1>1, <1>s, <2>2 DEF TypeOK, FinishCommit
<1>2. CASE FailCommit(t)
  <2>1. exec[t].loaded \in SourceRow
    BY <1>2 DEF FailCommit, ExecInv, Knows
  <2>2. FailedSource(source[exec[t].source], exec[t]).status
          = source[exec[t].source].status
    BY <1>2, <1>s, <1>e, <2>1, FailedSourceType DEF FailCommit
  <2> QED
    BY <1>2, <1>s, <2>2 DEF TypeOK, FailCommit
<1>3. CASE ~FinishCommit(t) /\ ~FailCommit(t)
  BY <1>3 DEF database, Proceed, TryLock, RecordSkipped, StartRun, StartRaises, CrawlReturns,
     CrawlRaises, FinishRead, CollectRaises, FailRead, FailRaises, SendAlert,
     Release
<1> QED
  BY <1>1, <1>2, <1>3

\* What a step of t does to the rows of crawl_runs: it inserts the next one,
\* closes its own, or leaves them alone.
LEMMA ProceedRows ==
    ASSUME TypeOK, ExecInv, RowInv, OwnerInv, NEW t \in Threads, Proceed(t)
    PROVE  \/ /\ StartRun(t) /\ pc'[t] = "crawling" /\ pc[t] \notin Running
              /\ nextRun \in RunIds /\ nextRun' = nextRun + 1
              /\ Present(exec[t].source)
              /\ exec'[t].run = nextRun /\ exec'[t].source = exec[t].source
              /\ runs' = [runs EXCEPT ![nextRun] =
                                         NewRow(exec[t].source, "running")]
              /\ orphans' = orphans /\ unanswered' = unanswered
           \/ /\ pc[t] \notin Running /\ pc'[t] \notin Running
              /\ nextRun \in RunIds /\ nextRun' = nextRun + 1
              /\ Present(exec[t].source)
              /\ runs' = [runs EXCEPT ![nextRun] =
                                         NewRow(exec[t].source, "running")]
              /\ orphans' = orphans \cup {nextRun} /\ unanswered' = unanswered
           \/ /\ pc[t] \notin Running /\ pc'[t] \notin Running
              /\ nextRun \in RunIds /\ nextRun' = nextRun + 1
              /\ runs' = [runs EXCEPT ![nextRun] =
                                         NewRow(exec[t].source, "skipped")]
              /\ orphans' = orphans /\ unanswered' = unanswered
           \/ /\ pc[t] \in Running /\ pc'[t] \notin Running
              /\ nextRun' = nextRun
              /\ \A r \in RunIds \ {exec[t].run} : runs'[r] = runs[r]
              /\ runs'[exec[t].run].status \in {"success", "partial", "failed"}
              /\ \/ pc[t] = "committing"
                 \/ runs'[exec[t].run].status = "failed"
              /\ orphans' = orphans /\ unanswered' = unanswered
           \/ /\ pc[t] = "committing" /\ pc'[t] = "failing"
              /\ exec'[t].run = exec[t].run /\ exec'[t].source = exec[t].source
              /\ nextRun' = nextRun
              /\ \A r \in RunIds \ {exec[t].run} : runs'[r] = runs[r]
              /\ runs'[exec[t].run].status \in {"success", "partial"}
              /\ runs'[exec[t].run].source = runs[exec[t].run].source
              /\ orphans' = orphans
              /\ unanswered' = unanswered \cup {exec[t].run}
           \/ /\ pc[t] \in Running /\ pc'[t] \notin Running
              /\ nextRun' = nextRun /\ runs' = runs
              /\ orphans' = orphans /\ unanswered' = unanswered
              /\ ~Present(exec[t].source)
           \/ /\ pc[t] \in Running /\ pc'[t] \notin Running
              /\ nextRun' = nextRun /\ runs' = runs
              /\ orphans' = orphans \cup {exec[t].run}
              /\ unanswered' = unanswered
           \/ /\ pc[t] \in Running /\ pc'[t] \in Running
              /\ pc[t] \in {"failing", "marking"} => pc'[t] = "marking"
              /\ exec'[t].run = exec[t].run /\ exec'[t].source = exec[t].source
              /\ nextRun' = nextRun /\ runs' = runs
              /\ orphans' = orphans /\ unanswered' = unanswered
           \/ /\ pc[t] \notin Running /\ pc'[t] \notin Running
              /\ nextRun' = nextRun /\ runs' = runs
              /\ orphans' = orphans /\ unanswered' = unanswered
<1> USE ConstantsOK DEF database, history
<1>x. /\ pc'[t] # "idle" => exec'[t].source = exec[t].source
      /\ pc'[t] \in Running =>
           \/ /\ pc[t] \in Running
              /\ exec'[t].run = exec[t].run
           \/ StartRun(t) /\ exec'[t].run = nextRun /\ nextRun' = nextRun + 1
  BY ProceedLocals
<1>1. CASE TryLock(t) \/ StartRaises(t) \/ SendAlert(t) \/ Release(t)
  BY <1>1 DEF TypeOK, TryLock, StartRaises, SendAlert, AfterAlertError, Release, Running
<1>2. CASE RecordSkipped(t)
  BY <1>2 DEF TypeOK, RecordSkipped, InsertRun, RunIds, Running
<1>3. CASE StartRun(t)
  <2>1. /\ pc[t] = "locked" /\ pc'[t] \in {"crawling", "releasing"}
        /\ unanswered' = unanswered
    BY <1>3 DEF TypeOK, StartRun
  <2>2. CASE pc'[t] = "crawling"
    <3>1. /\ MayStart(exec[t].source)
          /\ InsertRun(exec[t].source, "running")
          /\ orphans' = orphans
      BY <1>3, <2>2 DEF TypeOK, StartRun
    <3> QED
      BY <1>3, <1>x, <2>1, <2>2, <3>1
      DEF TypeOK, MayStart, InsertRun, RunIds, Running
  <2>3. CASE pc'[t] = "releasing"
    <3>1. \/ /\ MayStart(exec[t].source)
             /\ InsertRun(exec[t].source, "running")
             /\ orphans' = orphans \cup {nextRun}
          \/ UNCHANGED <<runs, nextRun, orphans>>
      BY <1>3, <2>3 DEF TypeOK, StartRun
    <3> QED
      BY <2>1, <2>3, <3>1 DEF TypeOK, MayStart, InsertRun, RunIds, Running
  <2> QED
    BY <2>1, <2>2, <2>3
<1>4. CASE CrawlReturns(t) \/ CrawlRaises(t) \/ FinishRead(t) \/ CollectRaises(t)
  BY <1>4, <1>x DEF TypeOK, CrawlReturns, CrawlRaises, FinishRead,
     CollectRaises, AfterError, Running, StartRun
<1>5. CASE FinishCommit(t) \/ FailCommit(t)
  <2>1. exec[t].run \in RunIds /\ exec[t] \in Exec
    BY <1>5 DEF TypeOK, ExecInv, Knows, FinishCommit, FailCommit, Running, RunIds
  <2>3. runs[exec[t].run] \in Row /\ runs[exec[t].run].items \in Nat
    BY <2>1 DEF TypeOK, Row
  <2>2. PICK status \in {"success", "partial", "failed"}, n \in Nat :
          /\ CloseRun(exec[t].run, status, n)
          /\ FailCommit(t) => status = "failed"
          /\ FinishCommit(t) => status \in {"success", "partial"}
    <3>1. CASE FinishCommit(t)
      BY <3>1, <2>1 DEF FinishCommit, FailCommit, RunStatus, Exec
    <3>2. CASE FailCommit(t)
      BY <3>2, <2>3 DEF FinishCommit, FailCommit
    <3> QED
      BY <1>5, <3>1, <3>2
  <2>4. /\ runs'[exec[t].run].status = status
        /\ runs'[exec[t].run].source = runs[exec[t].run].source
    <3>1. runs'[exec[t].run] = Closed(runs[exec[t].run], status, n)
      <4>1. runs' = [runs EXCEPT ![exec[t].run] =
                                   Closed(runs[exec[t].run], status, n)]
        BY <2>2 DEF CloseRun
      <4> QED
        BY <2>1, <4>1 DEF TypeOK
    <3> QED
      BY <2>3, <3>1 DEF Closed, Row
  <2>5. \A r \in RunIds \ {exec[t].run} : runs'[r] = runs[r]
    BY <2>2 DEF TypeOK, CloseRun
  <2>6. CASE FailCommit(t)
    <3>1. pc[t] = "marking" /\ pc'[t] \in {"releasing", "alerting"}
      BY <2>6 DEF TypeOK, FailCommit, AfterCommit, AfterFailRaises
    <3>2. UNCHANGED <<nextRun, orphans, unanswered>>
      BY <2>6 DEF FailCommit
    <3> QED
      BY <2>2, <2>4, <2>5, <2>6, <3>1, <3>2 DEF Running
  <2>7. CASE FinishCommit(t)
    <3>1. UNCHANGED <<nextRun, orphans>> /\ pc[t] = "committing"
      BY <2>7 DEF FinishCommit
    <3>2. \/ pc'[t] \in {"releasing", "alerting"} /\ unanswered' = unanswered
          \/ /\ pc'[t] = "failing"
             /\ unanswered' = unanswered \cup {exec[t].run}
             /\ exec'[t] = Keep(exec[t])
      BY <2>7 DEF TypeOK, FinishCommit, AfterCommit, AfterError
    <3> QED
      BY <2>1, <2>2, <2>4, <2>5, <2>7, <3>1, <3>2, KeepType DEF Running
  <2> QED
    BY <1>5, <2>6, <2>7
<1>6. CASE FailRead(t) \/ FailRaises(t)
  BY <1>6, <1>x DEF TypeOK, FailRead, FailRaises, AfterFailRaises, Running, StartRun
<1> QED
  BY <1>1, <1>2, <1>3, <1>4, <1>5, <1>6 DEF Proceed

LEMMA RowProceed ==
    ASSUME TypeOK, ExecInv, RowInv, OwnerInv, TypeOK', ExecInv',
           NEW t \in Threads, Proceed(t)
    PROVE  RowInv' /\ OwnerInv'
<1> USE ConstantsOK DEF RunIds
<1>f. \A u \in Threads \ {t} : pc'[u] = pc[u] /\ exec'[u] = exec[u]
  BY ProceedFrame
<1>p. \A s \in Sources : Present(s) <=> Present(s)'
  BY ProceedPresent DEF Present
<1>t. runs \in [RunIds -> Row] /\ nextRun \in Nat
  BY DEF TypeOK
<1>k. \A u \in Threads : pc[u] \in Running => exec[u].run \in 1..(nextRun - 1)
  BY DEF ExecInv, Knows, TypeOK
<1>b. \A u \in Threads : pc[u] \in Running => exec[u].run \in RunIds
  BY <1>k DEF TypeOK
<1>s. pc[t] # "idle" => exec[t].source \in Sources
  BY DEF ExecInv, Knows
<1>i. pc[t] # "idle"
  BY ProceedFrame
<1>o. \A u \in Threads \ {t}, r \in RunIds : Owns(u, r) <=> Owns(u, r)'
  BY <1>f DEF Owns
\* Inserting a row.
<1>1. ASSUME NEW status \in {"running", "skipped"},
             nextRun \in RunIds, nextRun' = nextRun + 1, pc[t] \notin Running,
             runs' = [runs EXCEPT ![nextRun] = NewRow(exec[t].source, status)],
             orphans \subseteq orphans', unanswered' = unanswered,
             \/ pc'[t] \notin Running /\ status = "skipped"
             \/ /\ pc'[t] \notin Running /\ status = "running"
                /\ nextRun \in orphans' /\ Present(exec[t].source)
             \/ /\ pc'[t] \in Running /\ status = "running"
                /\ Present(exec[t].source)
                /\ exec'[t].run = nextRun /\ exec'[t].source = exec[t].source
      PROVE  RowInv' /\ OwnerInv'
  <2>1. /\ runs'[nextRun].status = status
        /\ runs'[nextRun].source = exec[t].source
        /\ \A r \in RunIds \ {nextRun} : runs'[r] = runs[r]
    BY <1>1, <1>t DEF NewRow
  <2>2. RowInv'
    <3> SUFFICES ASSUME NEW r \in RunIds PROVE Accounted(r)'
      BY DEF RowInv
    <3>1. CASE r = nextRun
      BY <1>1, <1>s, <1>i, <1>p, <1>t, <2>1, <3>1 DEF Accounted, Owns
    <3>2. CASE r # nextRun
      <4>1. runs'[r] = runs[r]
        BY <2>1, <3>2
      <4>2. \A u \in Threads : Owns(u, r) => Owns(u, r)'
        BY <1>1, <1>o DEF Owns
      <4> QED
        BY <1>1, <1>p, <1>t, <3>2, <4>1, <4>2 DEF RowInv, Accounted
    <3> QED
      BY <3>1, <3>2
  <2>3. OwnerInv'
    <3>1. \A u \in Threads \ {t} : pc'[u] \in Running =>
            /\ exec'[u].run # nextRun
            /\ runs'[exec'[u].run] = runs[exec[u].run]
      BY <1>f, <1>k, <1>b, <1>t, <2>1
    <3>2. pc'[t] \in Running => exec'[t].run = nextRun
      BY <1>1
    <3>3. ASSUME NEW u \in Threads, NEW v \in Threads,
                 pc'[u] \in Running, pc'[v] \in Running,
                 exec'[u].run = exec'[v].run
          PROVE  u = v
      BY <1>f, <3>1, <3>2, <3>3 DEF OwnerInv
    <3>4. ASSUME NEW u \in Threads, pc'[u] \in Running
          PROVE  /\ runs'[exec'[u].run].source = exec'[u].source
                 /\ \/ runs'[exec'[u].run].status \in {"running", "deleted"}
                    \/ /\ pc'[u] \in {"failing", "marking"}
                       /\ exec'[u].run \in unanswered'
                       /\ runs'[exec'[u].run].status \in {"success", "partial"}
      <4>1. CASE u = t
        BY <1>1, <2>1, <3>4, <4>1
      <4>2. CASE u # t
        BY <1>1, <1>f, <3>1, <3>4, <4>2 DEF OwnerInv
      <4> QED
        BY <4>1, <4>2
    <3> QED
      BY <3>3, <3>4 DEF OwnerInv
  <2> QED
    BY <2>2, <2>3
\* Giving a row up: it is closed, gone with its source, or cut short.
<1>2. ASSUME pc[t] \in Running, pc'[t] \notin Running, nextRun' = nextRun,
             unanswered' = unanswered,
             \A r \in RunIds \ {exec[t].run} : runs'[r] = runs[r],
             \/ /\ runs'[exec[t].run].status \in {"success", "partial", "failed"}
                /\ orphans' = orphans
             \/ runs' = runs /\ orphans' = orphans /\ ~Present(exec[t].source)
             \/ runs' = runs /\ orphans' = orphans \cup {exec[t].run}
      PROVE  RowInv' /\ OwnerInv'
  <2>1. exec[t].run \in RunIds /\ exec[t].run < nextRun
    BY <1>2, <1>b, <1>k, <1>t
  <2>2. runs[exec[t].run].source = exec[t].source
    BY <1>2 DEF OwnerInv
  <2>3. RowInv'
    <3> SUFFICES ASSUME NEW r \in RunIds PROVE Accounted(r)'
      BY DEF RowInv
    <3>1. CASE r = exec[t].run
      <4>1. ~(r >= nextRun)
        BY <2>1, <1>t, <3>1
      <4> QED
        BY <1>2, <1>p, <2>2, <3>1, <4>1 DEF RowInv, Accounted
    <3>2. CASE r # exec[t].run
      <4>1. runs'[r] = runs[r]
        BY <1>2, <3>2
      <4>2. \A u \in Threads : Owns(u, r) => Owns(u, r)'
        BY <1>o, <3>2 DEF Owns
      <4> QED
        BY <1>2, <1>p, <4>1, <4>2 DEF RowInv, Accounted
    <3> QED
      BY <3>1, <3>2
  <2>4. OwnerInv'
    <3>1. \A u \in Threads \ {t} : pc'[u] \in Running =>
            runs'[exec'[u].run] = runs[exec[u].run]
      BY <1>2, <1>f, <1>b DEF OwnerInv
    <3> QED
      BY <1>2, <1>f, <3>1 DEF OwnerInv
  <2> QED
    BY <2>3, <2>4
\* Every other step keeps the rows and who owns them.
<1>3. ASSUME nextRun' = nextRun, runs' = runs, orphans' = orphans,
             unanswered' = unanswered,
             \/ pc[t] \notin Running /\ pc'[t] \notin Running
             \/ /\ pc[t] \in Running /\ pc'[t] \in Running
                /\ pc[t] \in {"failing", "marking"} => pc'[t] = "marking"
                /\ exec'[t].run = exec[t].run
                /\ exec'[t].source = exec[t].source
      PROVE  RowInv' /\ OwnerInv'
  <2>1. \A u \in Threads, r \in RunIds : Owns(u, r) <=> Owns(u, r)'
    BY <1>3, <1>o DEF Owns
  <2>2. RowInv'
    BY <1>3, <1>p, <2>1 DEF RowInv, Accounted
  <2>3. OwnerInv'
    BY <1>3, <1>f DEF OwnerInv
  <2> QED
    BY <2>2, <2>3
\* The result is recorded, but nobody says so.
<1>4. ASSUME pc[t] = "committing", pc'[t] = "failing",
             exec'[t].run = exec[t].run, exec'[t].source = exec[t].source,
             nextRun' = nextRun,
             \A r \in RunIds \ {exec[t].run} : runs'[r] = runs[r],
             runs'[exec[t].run].status \in {"success", "partial"},
             runs'[exec[t].run].source = runs[exec[t].run].source,
             orphans' = orphans,
             unanswered' = unanswered \cup {exec[t].run}
      PROVE  RowInv' /\ OwnerInv'
  <2>i. pc[t] \in Running /\ pc'[t] \in Running
    BY <1>4 DEF Running
  <2>1. exec[t].run \in RunIds /\ exec[t].run < nextRun
    BY <2>i, <1>b, <1>k, <1>t
  <2>2. \A u \in Threads, r \in RunIds : Owns(u, r) <=> Owns(u, r)'
    BY <1>4, <2>i, <1>o DEF Owns
  <2>3. RowInv'
    <3> SUFFICES ASSUME NEW r \in RunIds PROVE Accounted(r)'
      BY DEF RowInv
    <3>1. CASE r = exec[t].run
      <4>1. ~(r >= nextRun)
        BY <2>1, <1>t, <3>1
      <4> QED
        BY <1>4, <3>1, <4>1 DEF Accounted
    <3>2. CASE r # exec[t].run
      <4>1. runs'[r] = runs[r]
        BY <1>4, <3>2
      <4> QED
        BY <1>4, <1>p, <2>2, <4>1 DEF RowInv, Accounted
    <3> QED
      BY <3>1, <3>2
  <2>4. OwnerInv'
    <3>1. \A u \in Threads \ {t} : pc'[u] \in Running =>
            runs'[exec'[u].run] = runs[exec[u].run]
      BY <1>4, <2>i, <1>f, <1>b DEF OwnerInv
    <3> QED
      BY <1>4, <2>i, <1>f, <3>1 DEF OwnerInv
  <2> QED
    BY <2>3, <2>4
<1> QED
  BY <1>1, <1>2, <1>3, <1>4, ProceedRows DEF Running

LEMMA RowStep ==
    ASSUME TypeOK, ExecInv, RowInv, OwnerInv, TypeOK', ExecInv', [Next]_vars
    PROVE  RowInv' /\ OwnerInv'
<1> USE ConstantsOK DEF database, history
<1>1. ASSUME NEW t \in Threads, Proceed(t)
      PROVE  RowInv' /\ OwnerInv'
  BY <1>1, RowProceed
<1>2. ASSUME NEW t \in Threads, NEW s \in Sources, LoadActiveSource(t, s)
      PROVE  RowInv' /\ OwnerInv'
  <2>1. \A u \in Threads :
          /\ pc[u] \in Running <=> pc'[u] \in Running
          /\ pc[u] \in Running => exec'[u] = exec[u]
    BY <1>2 DEF TypeOK, LoadActiveSource, Running
  <2>2. UNCHANGED <<source, runs, nextRun, orphans, unanswered>>
    BY <1>2 DEF LoadActiveSource
  <2>3. \A u \in Threads : pc[u] \in Running => pc'[u] = pc[u]
    BY <1>2 DEF TypeOK, LoadActiveSource, Running
  <2>4. RowInv'
    BY <2>1, <2>2 DEF RowInv, Accounted, Owns, Present
  <2>5. OwnerInv'
    BY <2>1, <2>2, <2>3 DEF OwnerInv
  <2> QED
    BY <2>4, <2>5
<1>3. ASSUME NEW t \in Threads, LoseLockConnection(t)
      PROVE  RowInv' /\ OwnerInv'
  BY <1>3 DEF LoseLockConnection, RowInv, Accounted, OwnerInv, Owns, Present
<1>4. ASSUME NEW process \in {WorkerThreads, ApiThreads}, Crash(process)
      PROVE  RowInv' /\ OwnerInv'
  <2>1. \A u \in Threads : pc'[u] \in Running =>
          pc'[u] = pc[u] /\ exec'[u] = exec[u]
    BY <1>4 DEF Crash, Running
  <2>2. \A u \in Threads, r \in RunIds :
          Owns(u, r) => Owns(u, r)' \/ r \in orphans'
    BY <1>4 DEF Crash, Owns, Threads
  <2>3. /\ UNCHANGED <<source, runs, nextRun, unanswered>>
        /\ orphans \subseteq orphans'
    BY <1>4 DEF Crash
  <2>4. RowInv'
    BY <2>2, <2>3 DEF RowInv, Accounted, Present
  <2>5. OwnerInv'
    BY <2>1, <2>3 DEF OwnerInv
  <2> QED
    BY <2>4, <2>5
<1>5. ASSUME NEW s \in Sources, Admin(s)
      PROVE  RowInv' /\ OwnerInv'
  <2>f. UNCHANGED <<nextRun, pc, exec, orphans, unanswered>>
    BY <1>5 DEF Admin, AdminCreate, AdminUpdate, AdminDeleteLoad,
                AdminDeleteCommit
  <2>1. CASE AdminCreate(s) \/ AdminUpdate(s)
    <3>1. PICK a \in BOOLEAN, c \in Configs :
            source' = [source EXCEPT ![s] = Form(@, a, c)]
      BY <2>1 DEF AdminCreate, AdminUpdate
    <3>2. \A q \in Sources : Present(q) => Present(q)'
      BY <3>1, FormType DEF TypeOK, Present
    <3>3. runs' = runs
      BY <2>1 DEF AdminCreate, AdminUpdate
    <3> QED
      BY <2>f, <3>2, <3>3 DEF RowInv, Accounted, OwnerInv, Owns
  <2>2. CASE AdminDeleteLoad(s)
    BY <2>2 DEF AdminDeleteLoad, RowInv, Accounted, OwnerInv, Owns, Present
  <2>3. CASE AdminDeleteCommit(s)
    <3>1. \A q \in Sources \ {s} : Present(q) => Present(q)'
      BY <2>3 DEF TypeOK, Present, AdminDeleteCommit
    <3>2. \A r \in RunIds :
            /\ runs'[r].source = runs[r].source
            /\ \/ runs'[r] = runs[r] /\ runs[r].source # s
               \/ runs'[r].status = "deleted" /\ runs[r].source = s
      BY <2>3 DEF TypeOK, Row, AdminDeleteCommit
    <3>4. RowInv'
      <4>1. s # None
        OBVIOUS
      <4> QED
        BY <2>f, <3>1, <3>2, <4>1 DEF RowInv, Accounted, Owns
    <3>5. OwnerInv'
      <4>1. \A t \in Threads : pc[t] \in Running => exec[t].run \in RunIds
        BY DEF ExecInv, Knows, TypeOK, RunIds
      <4> QED
        BY <2>f, <3>2, <4>1 DEF OwnerInv
    <3> QED
      BY <3>4, <3>5
  <2> QED
    BY <1>5, <2>1, <2>2, <2>3 DEF Admin
<1>6. ASSUME NEW k \in RunIds, RetainRuns(k)
      PROVE  RowInv' /\ OwnerInv'
  BY <1>6 DEF RetainRuns, RowInv, Accounted, OwnerInv, Owns, Present
<1>7. CASE UNCHANGED vars
  BY <1>7 DEF vars, RowInv, Accounted, OwnerInv, Owns, Present
<1> QED
  BY <1>1, <1>2, <1>3, <1>4, <1>5, <1>6, <1>7
  DEF Next, Begin, BeginScheduled, BeginManual

-----------------------------------------------------------------------------
(* The theorems. *)

THEOREM Invariance == Spec => []IInv
<1>1. Init => IInv
  BY TypeInit, ExecInit, LockInit, RowInit DEF IInv
<1>2. IInv /\ [Next]_vars => IInv'
  <2> SUFFICES ASSUME IInv, [Next]_vars PROVE IInv'
    OBVIOUS
  <2>1. TypeOK'
    <3>1. CASE UNCHANGED vars
      BY <3>1 DEF vars, IInv, TypeOK
    <3> QED
      BY <3>1, TypeProceed, TypeOthers DEF IInv, Next
  <2>2. ExecInv'
    BY <2>1, ExecStep DEF IInv
  <2>3. LockInv'
    BY <2>1, <2>2, LockStep DEF IInv
  <2>4. RowInv' /\ OwnerInv'
    BY <2>1, <2>2, RowStep DEF IInv
  <2> QED
    BY <2>1, <2>2, <2>3, <2>4 DEF IInv
<1> QED
  BY <1>1, <1>2, PTL DEF Spec

\* Every reachable state of any number of sources and threads is well typed:
\* however a crawl ends, the row it closes has one of the statuses of
\* CrawlStatus.
THEOREM TypeCorrect == Spec => []TypeOK
BY Invariance, PTL DEF IInv

\* Two executions are past the advisory lock of a source only if one of them
\* has lost the connection that held it, for any number of threads in the
\* two processes.
THEOREM Exclusion == Spec => []ExclusiveCrawl
<1>1. IInv => ExclusiveCrawl
  BY DEF IInv, LockInv, ExclusiveCrawl
<1> QED
  BY <1>1, Invariance, PTL

\* A RUNNING row always has exactly one execution that will close it, or was
\* cut short, and nobody closes the row of another: not even when the lock
\* has been lost and two executions of a source overlap.
THEOREM Ownership == Spec => []RowOwnership
<1>1. IInv => RowOwnership
  BY DEF IInv, RowInv, Accounted, OwnerInv, RowOwnership, Owns
<1> QED
  BY <1>1, Invariance, PTL

\* A closed run is not written again by any number of executions, whatever
\* errors occur, except by the one whose commit was not answered, and that one
\* marks it FAILED.
THEOREM ClosedStands == Spec => ClosedRunsStand
<1>1. IInv /\ [Next]_vars =>
        \A r \in RunIds :
            runs[r].status \in Final /\ runs'[r] # runs[r] =>
                \/ runs'[r].status = "deleted"
                \/ /\ r \in unanswered
                   /\ runs[r].status \in {"success", "partial"}
                   /\ runs'[r].status = "failed"
  <2> SUFFICES ASSUME IInv, [Next]_vars, NEW r \in RunIds,
                      runs[r].status \in Final, runs'[r] # runs[r]
               PROVE  \/ runs'[r].status = "deleted"
                      \/ /\ r \in unanswered
                         /\ runs[r].status \in {"success", "partial"}
                         /\ runs'[r].status = "failed"
    OBVIOUS
  <2> USE DEF IInv
  <2>1. ASSUME NEW t \in Threads, Proceed(t)
        PROVE  /\ r \in unanswered
               /\ runs[r].status \in {"success", "partial"}
               /\ runs'[r].status = "failed"
    <3>1. r # nextRun
      BY DEF RowInv, Accounted, Final, TypeOK
    <3>2. pc[t] \in Running /\ r = exec[t].run =>
            /\ pc[t] \in {"failing", "marking"}
            /\ r \in unanswered
            /\ runs[r].status \in {"success", "partial"}
      BY DEF OwnerInv, Final
    <3>3. runs \in [RunIds -> Row]
      BY DEF TypeOK
    <3> QED
      BY <2>1, <3>1, <3>2, <3>3, ProceedRows DEF Running
  <2>2. ASSUME NEW s \in Sources, AdminDeleteCommit(s)
        PROVE  runs'[r].status = "deleted"
    BY <2>2 DEF TypeOK, Row, AdminDeleteCommit
  <2>3. runs' # runs
    OBVIOUS
  <2> QED
    BY <2>1, <2>2, <2>3 DEF Next, vars, database, Begin, BeginScheduled,
       BeginManual, LoadActiveSource, LoseLockConnection, Crash, Admin,
       AdminCreate, AdminUpdate, AdminDeleteLoad, RetainRuns
<1> QED
  BY <1>1, Invariance, PTL DEF Spec, ClosedRunsStand

\* No execution ever switches a source on, however stale the row it writes
\* back: a source goes from inactive to active only in a step that starts,
\* advances and records no crawl.
THEOREM Activation == Spec => OnlyAdminActivates
<1>1. IInv /\ [Next]_vars =>
        \A s \in Sources : source'[s].active /\ ~source[s].active =>
          UNCHANGED <<pc, runs>>
  <2> SUFFICES ASSUME IInv, [Next]_vars, NEW s \in Sources,
                      source'[s].active, ~source[s].active
               PROVE  UNCHANGED <<pc, runs>>
    OBVIOUS
  <2> USE DEF IInv, TypeOK
  <2>1. ASSUME NEW t \in Threads
        PROVE  ~FinishCommit(t)
    <3> SUFFICES ASSUME FinishCommit(t) PROVE FALSE
      OBVIOUS
    <3>1. exec[t] \in Exec /\ exec[t].config \in Configs
      BY DEF FinishCommit, ExecInv, Knows
    <3>2. source[s] \in SourceRow
      OBVIOUS
    <3> QED
      BY <3>1, <3>2, FinishedSourceType DEF FinishCommit
  <2>2. ASSUME NEW t \in Threads
        PROVE  ~FailCommit(t)
    <3> SUFFICES ASSUME FailCommit(t) PROVE FALSE
      OBVIOUS
    <3>1. exec[t] \in Exec /\ exec[t].loaded \in SourceRow
      BY DEF FailCommit, ExecInv, Knows
    <3>2. source[s] \in SourceRow
      OBVIOUS
    <3> QED
      BY <3>1, <3>2, FailedSourceType DEF FailCommit
  <2>3. ASSUME NEW q \in Sources
        PROVE  ~AdminDeleteCommit(q)
    <3> SUFFICES ASSUME AdminDeleteCommit(q) PROVE FALSE
      OBVIOUS
    <3>1. source[s] \in SourceRow
      OBVIOUS
    <3> QED
      BY <3>1, GoneType DEF AdminDeleteCommit
  <2>4. source' # source
    OBVIOUS
  <2> QED
    BY <2>1, <2>2, <2>3, <2>4 DEF Next, vars, database, Begin, BeginScheduled,
       BeginManual, LoadActiveSource, LoseLockConnection, Crash, Admin,
       AdminCreate, AdminUpdate, AdminDeleteLoad, RetainRuns, Proceed, TryLock,
       RecordSkipped, StartRun, StartRaises, CrawlReturns, CrawlRaises, FinishRead,
       CollectRaises, FailRead, FailRaises, SendAlert, Release
<1> QED
  BY <1>1, Invariance, PTL DEF Spec, OnlyAdminActivates

=============================================================================
