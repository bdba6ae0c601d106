------------------------ MODULE WorkerSchedulerProofs ------------------------
(***************************************************************************)
(* Proofs about WorkerScheduler for every set of sources and other jobs,   *)
(* every interval, period, jitter and grace, and every size of the pool.   *)
(***************************************************************************)
EXTENDS WorkerScheduler, FiniteSetTheorems, SequenceTheorems, TLAPS

Entry == [job : Jobs, age : 0..(Grace + 1)]

\* How often a job waits in a queue.
Waiting(q, j) == {k \in DOMAIN q : q[k].job = j}

Count(q, j) == Cardinality(Waiting(q, j))

\* A timer that runs will not end before the interval since the last crawl is
\* over, but for the grace that this crawl may have come late.
TimerInv ==
    \A s \in Sources :
        timer[s] # Off => timer[s] + since[s] >= MinGap(s) - Grace

\* A crawl that waits for a thread is due; and however late it begins within
\* the grace, the timer of the next one allows for it.
QueueInv ==
    \A k \in DOMAIN queue : LET s == queue[k].job IN
        s \in Sources =>
            /\ since[s] >= MinGap(s) - Grace
            /\ timer[s] # Off /\ queue[k].age <= Grace =>
                 timer[s] + queue[k].age >= MinGap(s)

IInv ==
    /\ TypeOK
    /\ queue \in Seq(Entry)
    /\ InstancesAccounted
    /\ OneInstance
    /\ TimerInv
    /\ QueueInv

-----------------------------------------------------------------------------
(* The gaps. *)

LEMMA GapFacts ==
    ASSUME NEW s \in Sources
    PROVE  /\ MinGap(s) \in Nat
           /\ MaxGap(s) \in Nat
           /\ MinGap(s) <= MaxGap(s)
<1>1. Interval[s] \in Nat
  BY ScheduleConstantsOK
<1>2. ASSUME NEW n \in Nat
      PROVE  n \div 10 \in 0..n
  BY <1>2
<1>3. Jitter(s) \in 0..Interval[s]
  BY <1>1, <1>2, ScheduleConstantsOK DEF Jitter
<1>4. QED
  BY <1>1, <1>3 DEF MinGap, MaxGap

LEMMA GapType ==
    ASSUME NEW j \in Jobs, NEW gap \in Gap(j)
    PROVE  /\ gap \in Nat
           /\ j \in Sources => gap >= MinGap(j)
<1>1. CASE j \in Sources
  BY <1>1, GapFacts DEF Gap
<1>2. CASE j \notin Sources
  BY <1>2, ScheduleConstantsOK DEF Gap, Jobs
<1>3. QED
  BY <1>1, <1>2

\* The timers after a registration: those of the sources are new.
LEMMA SyncedFacts ==
    ASSUME NEW wanted \in SUBSET Sources, NEW old,
           \A j \in Housekeeping : old[j] \in Nat,
           NEW new \in Synced(wanted, old)
    PROVE  /\ new \in [Jobs -> Nat \cup {Off}]
           /\ \A j \in Housekeeping : new[j] # Off
           /\ \A s \in Sources : new[s] # Off => new[s] >= MinGap(s)
<1>1. PICK gap \in Gaps(wanted) :
        new = [j \in Jobs |-> CASE j \in wanted -> gap[j]
                                [] j \in Sources \ wanted -> Off
                                [] j \in Housekeeping -> old[j]]
  BY DEF Synced
<1>2. ASSUME NEW j \in Jobs
      PROVE  /\ new[j] \in Nat \cup {Off}
             /\ j \in Housekeeping => new[j] # Off
             /\ j \in Sources /\ new[j] # Off => new[j] >= MinGap(j)
  <2>1. CASE j \in wanted
    <3>1. gap[j] \in FirstGap(j)
      BY <2>1 DEF Gaps
    <3>2. gap[j] \in Nat /\ gap[j] >= MinGap(j)
      BY <2>1, <3>1, GapType DEF FirstGap, Jobs
    <3>3. j \notin Housekeeping
      BY <2>1, ScheduleConstantsOK
    <3>4. QED
      BY <1>1, <2>1, <3>2, <3>3
  <2>2. CASE j \in Sources \ wanted
    BY <1>1, <2>2, ScheduleConstantsOK
  <2>3. CASE j \in Housekeeping
    <3>1. j \notin Sources /\ j \notin wanted
      BY <2>3, ScheduleConstantsOK
    <3>2. new[j] = old[j]
      BY <1>1, <2>3, <3>1
    <3>3. old[j] \in Nat /\ old[j] # Off
      BY <2>3 DEF Off
    <3>4. QED
      BY <3>1, <3>2, <3>3
  <2>4. QED
    BY <2>1, <2>2, <2>3 DEF Jobs
<1>3. new \in [Jobs -> Nat \cup {Off}]
  <2> DEFINE F(j) == CASE j \in wanted -> gap[j]
                       [] j \in Sources \ wanted -> Off
                       [] j \in Housekeeping -> old[j]
  <2>1. new = [j \in Jobs |-> F(j)]
    BY <1>1
  <2> HIDE DEF F
  <2>2. QED
    BY <1>2, <2>1
<1>4. Sources \cup Housekeeping \subseteq Jobs
  BY DEF Jobs
<1>5. QED
  BY <1>2, <1>3, <1>4

-----------------------------------------------------------------------------
(* Counting in the queue and in the pool. *)

LEMMA WaitingFacts ==
    ASSUME NEW q \in Seq(Entry), NEW j
    PROVE  /\ IsFiniteSet(Waiting(q, j))
           /\ Count(q, j) \in Nat
           /\ Count(q, j) = 0 <=> Waiting(q, j) = {}
<1>1. DOMAIN q = 1..Len(q) /\ Len(q) \in Nat
  BY LenProperties
<1>2. IsFiniteSet(1..Len(q))
  BY <1>1, FS_Interval
<1>3. Waiting(q, j) \in SUBSET (1..Len(q))
  BY <1>1 DEF Waiting
<1>4. IsFiniteSet(Waiting(q, j))
  BY <1>2, <1>3, FS_Subset
<1>5. QED
  BY <1>4, FS_CardinalityType, FS_EmptySet DEF Count

LEMMA CountAppend ==
    ASSUME NEW q \in Seq(Entry), NEW e \in Entry, NEW j
    PROVE  Count(Append(q, e), j) =
             IF e.job = j THEN Count(q, j) + 1 ELSE Count(q, j)
<1> DEFINE n == Len(q) + 1
<1>1. /\ Len(q) \in Nat
      /\ DOMAIN q = 1..Len(q)
      /\ DOMAIN Append(q, e) = 1..n
      /\ Append(q, e)[n] = e
      /\ \A k \in 1..Len(q) : Append(q, e)[k] = q[k]
  BY LenProperties, AppendProperties
<1>2. Waiting(Append(q, e), j) =
        IF e.job = j THEN Waiting(q, j) \cup {n} ELSE Waiting(q, j)
  BY <1>1 DEF Waiting
<1>3. n \notin Waiting(q, j)
  BY <1>1 DEF Waiting
<1>4. QED
  BY <1>2, <1>3, WaitingFacts, FS_AddElement DEF Count

LEMMA CountTail ==
    ASSUME NEW q \in Seq(Entry), q # <<>>, NEW j
    PROVE  Count(Tail(q), j) =
             IF Head(q).job = j THEN Count(q, j) - 1 ELSE Count(q, j)
<1> DEFINE old == Waiting(q, j)
           new == Waiting(Tail(q), j)
           f == [k \in new |-> k + 1]
<1>1. /\ Len(q) \in Nat \ {0}
      /\ DOMAIN q = 1..Len(q)
      /\ DOMAIN Tail(q) = 1..(Len(q) - 1)
      /\ Tail(q) \in Seq(Entry)
      /\ \A k \in 1..(Len(q) - 1) : Tail(q)[k] = q[k + 1]
      /\ Head(q) = q[1]
  BY LenProperties, HeadTailProperties, EmptySeq
<1>2. \A k \in new : k \in 1..(Len(q) - 1) /\ k + 1 \in old /\ k + 1 # 1
  BY <1>1 DEF Waiting
<1>3. \A k \in old \ {1} : k - 1 \in new /\ (k - 1) + 1 = k
  BY <1>1 DEF Waiting
<1>4. f \in [new -> old \ {1}]
  BY <1>2
<1>5. f \in Injection(new, old \ {1})
  <2>1. \A k, l \in new : f[k] = f[l] => k = l
    BY <1>2
  <2>2. QED
    BY <1>4, <2>1 DEF Injection, IsInjective
<1>6. f \in Surjection(new, old \ {1})
  BY <1>3, <1>4 DEF Surjection
<1>7. ExistsBijection(new, old \ {1})
  BY <1>5, <1>6 DEF ExistsBijection, Bijection
<1>8. IsFiniteSet(new) /\ IsFiniteSet(old)
  BY <1>1, WaitingFacts
<1>9. Cardinality(new) = Cardinality(old \ {1})
  BY <1>7, <1>8, FS_Bijection
<1>10. 1 \in old <=> Head(q).job = j
  BY <1>1 DEF Waiting
<1>11. QED
  BY <1>8, <1>9, <1>10, FS_RemoveElement DEF Count

LEMMA BusyFacts ==
    ASSUME NEW j
    PROVE  /\ IsFiniteSet(Busy(j))
           /\ Cardinality(Busy(j)) \in Nat
           /\ Cardinality(Busy(j)) = 0 <=> Busy(j) = {}
<1>1. Busy(j) \in SUBSET Pool
  BY DEF Busy
<1>2. IsFiniteSet(Busy(j))
  BY <1>1, FS_Subset, ScheduleConstantsOK
<1>3. QED
  BY <1>2, FS_CardinalityType, FS_EmptySet

\* A thread that takes up or ends a job.
LEMMA BusyChanges ==
    ASSUME NEW i \in Pool, NEW j \in Jobs, NEW k \in Jobs,
           thread \in [Pool -> Jobs \cup {None}]
    PROVE  /\ thread[i] = None /\ thread' = [thread EXCEPT ![i] = j] =>
                Cardinality(Busy(k)') =
                    IF k = j THEN Cardinality(Busy(k)) + 1 ELSE Cardinality(Busy(k))
           /\ thread[i] = j /\ thread' = [thread EXCEPT ![i] = None] =>
                Cardinality(Busy(k)') =
                    IF k = j THEN Cardinality(Busy(k)) - 1 ELSE Cardinality(Busy(k))
<1>0. None \notin Jobs
  BY ScheduleConstantsOK
<1>1. ASSUME thread[i] = None, thread' = [thread EXCEPT ![i] = j]
      PROVE  Cardinality(Busy(k)') =
                IF k = j THEN Cardinality(Busy(k)) + 1 ELSE Cardinality(Busy(k))
  <2>1. i \notin Busy(k)
    BY <1>0, <1>1 DEF Busy
  <2>2. Busy(k)' = IF k = j THEN Busy(k) \cup {i} ELSE Busy(k)
    BY <1>0, <1>1 DEF Busy
  <2>3. QED
    BY <2>1, <2>2, BusyFacts, FS_AddElement
<1>2. ASSUME thread[i] = j, thread' = [thread EXCEPT ![i] = None]
      PROVE  Cardinality(Busy(k)') =
                IF k = j THEN Cardinality(Busy(k)) - 1 ELSE Cardinality(Busy(k))
  <2>1. i \in Busy(k) <=> k = j
    BY <1>2 DEF Busy
  <2>2. Busy(k)' = IF k = j THEN Busy(k) \ {i} ELSE Busy(k)
    BY <1>0, <1>2 DEF Busy
  <2>3. QED
    BY <2>1, <2>2, BusyFacts, FS_RemoveElement
<1>3. QED
  BY <1>1, <1>2

-----------------------------------------------------------------------------
(* The invariant. *)

\* What the invariant says of the numbers of a job.
LEMMA Numbers ==
    ASSUME IInv, NEW j \in Jobs
    PROVE  /\ instances[j] = Count(queue, j) + Cardinality(Busy(j))
           /\ instances[j] \in 0..1
           /\ Count(queue, j) \in 0..1
           /\ Cardinality(Busy(j)) \in 0..1
<1>1. Cardinality(Queued(j)) = Count(queue, j)
  BY DEF Count, Waiting, Queued
<1>2. Count(queue, j) \in Nat /\ Cardinality(Busy(j)) \in Nat
  BY WaitingFacts, BusyFacts DEF IInv
<1>3. /\ instances[j] = Count(queue, j) + Cardinality(Busy(j))
      /\ Count(queue, j) + Cardinality(Busy(j)) <= 1
  BY <1>1 DEF IInv, InstancesAccounted, OneInstance
<1>4. QED
  BY <1>2, <1>3

\* ... and how it follows for the next state.
LEMMA Accounted ==
    ASSUME \A j \in Jobs :
             /\ instances'[j] = Count(queue', j) + Cardinality(Busy(j)')
             /\ instances'[j] <= 1
    PROVE  InstancesAccounted' /\ OneInstance'
<1>1. ASSUME NEW j \in Jobs
      PROVE  Cardinality(Queued(j)') = Count(queue', j)
  BY DEF Count, Waiting, Queued
<1>2. InstancesAccounted'
  BY <1>1 DEF InstancesAccounted
<1>3. OneInstance'
  BY <1>1 DEF OneInstance
<1>4. QED
  BY <1>2, <1>3

LEMMA QueueType ==
    ASSUME NEW q \in Seq(Entry), NEW k \in DOMAIN q
    PROVE  /\ q[k] \in Entry
           /\ q[k].job \in Jobs
           /\ q[k].age \in 0..(Grace + 1)
<1>1. q[k] \in Entry
  BY ElementOfSeq, LenProperties
<1>2. QED
  BY <1>1 DEF Entry

\* A schedule with nothing in the pool and new timers.
LEMMA FreshInv ==
    ASSUME active \subseteq Sources, active' \subseteq Sources,
           NEW old, \A j \in Housekeeping : old[j] \in Nat,
           timer' \in Synced(active, old),
           queue' = <<>>, thread' = NothingRuns, instances' = NothingCounted,
           loaded' = NotLoaded, since' \in [Sources -> Nat]
    PROVE  IInv'
<1>1. /\ timer' \in [Jobs -> Nat \cup {Off}]
      /\ \A j \in Housekeeping : timer'[j] # Off
      /\ \A s \in Sources : timer'[s] # Off => timer'[s] >= MinGap(s)
  BY SyncedFacts
<1>2. queue' \in Seq(Entry) /\ DOMAIN queue' = {}
  BY EmptySeq
<1>3. TypeOK'
  BY <1>1, <1>2 DEF TypeOK, NothingRuns, NothingCounted
<1>4. ASSUME NEW j \in Jobs
      PROVE  /\ instances'[j] = Count(queue', j) + Cardinality(Busy(j)')
             /\ instances'[j] <= 1
  <2>1. Busy(j)' = {}
    BY <1>4, ScheduleConstantsOK DEF Busy, NothingRuns
  <2>2. Waiting(queue', j) = {}
    BY <1>2 DEF Waiting
  <2>3. Count(queue', j) = 0
    BY <2>2, FS_EmptySet DEF Count
  <2>4. Cardinality(Busy(j)') = 0
    BY <2>1, FS_EmptySet
  <2>5. instances'[j] = 0
    BY <1>4 DEF NothingCounted
  <2>6. QED
    BY <2>3, <2>4, <2>5
<1>5. TimerInv'
  <2>1. SUFFICES ASSUME NEW s \in Sources, timer'[s] # Off
                 PROVE  timer'[s] + since'[s] >= MinGap(s) - Grace
    BY DEF TimerInv
  <2>2. timer'[s] \in Nat /\ timer'[s] >= MinGap(s) /\ since'[s] \in Nat
    BY <1>1, <2>1 DEF Jobs
  <2>3. QED
    BY <2>2, GapFacts, ScheduleConstantsOK
<1>6. QueueInv'
  BY <1>2 DEF QueueInv
<1>7. QED
  BY <1>2, <1>3, <1>4, <1>5, <1>6, Accounted DEF IInv

LEMMA InitInv == Init => IInv
<1> SUFFICES ASSUME Init PROVE IInv
  OBVIOUS
<1>1. \A j \in Housekeeping : Period[j] \in Nat
  BY ScheduleConstantsOK
<1>2. /\ timer \in [Jobs -> Nat \cup {Off}]
      /\ \A j \in Housekeeping : timer[j] # Off
      /\ \A s \in Sources : timer[s] # Off => timer[s] >= MinGap(s)
  BY <1>1, SyncedFacts DEF Init
<1>3. queue \in Seq(Entry) /\ DOMAIN queue = {}
  BY EmptySeq DEF Init
<1>4. TypeOK
  BY <1>2, <1>3, GapFacts DEF Init, TypeOK, NothingRuns, NothingCounted
<1>5. InstancesAccounted /\ OneInstance
  <2>1. ASSUME NEW j \in Jobs
        PROVE  Queued(j) = {} /\ Busy(j) = {} /\ instances[j] = 0
    BY <1>3, <2>1, ScheduleConstantsOK
       DEF Init, Queued, Busy, NothingRuns, NothingCounted
  <2>2. ASSUME NEW j \in Jobs
        PROVE  /\ instances[j] = Cardinality(Queued(j)) + Cardinality(Busy(j))
               /\ Cardinality(Queued(j)) + Cardinality(Busy(j)) <= 1
    BY <2>1, FS_EmptySet
  <2>3. QED
    BY <2>2 DEF InstancesAccounted, OneInstance
<1>6. TimerInv
  <2>1. SUFFICES ASSUME NEW s \in Sources, timer[s] # Off
                 PROVE  timer[s] + since[s] >= MinGap(s) - Grace
    BY DEF TimerInv
  <2>2. timer[s] \in Nat /\ timer[s] >= MinGap(s) /\ since[s] \in Nat
    BY <1>2, <1>4, <2>1 DEF Jobs, TypeOK
  <2>3. QED
    BY <2>2, GapFacts, ScheduleConstantsOK
<1>7. QueueInv
  BY <1>3 DEF QueueInv
<1>8. QED
  BY <1>3, <1>4, <1>5, <1>6, <1>7 DEF IInv

LEMMA RestartInv == IInv /\ Restart => IInv'
<1> SUFFICES ASSUME IInv, Restart PROVE IInv'
  OBVIOUS
<1>1. \A j \in Housekeeping : Period[j] \in Nat
  BY ScheduleConstantsOK
<1>2. QED
  BY <1>1, FreshInv DEF IInv, TypeOK, Restart

LEMMA SubmitInv ==
    ASSUME IInv, NEW j \in Jobs, Submit(j)
    PROVE  IInv'
<1>1. /\ TypeOK
      /\ queue \in Seq(Entry)
      /\ TimerInv
      /\ QueueInv
  BY DEF IInv
<1>2. PICK gap \in Gap(j) : timer' = [timer EXCEPT ![j] = gap]
  BY DEF Submit
<1>3. /\ gap \in Nat
      /\ j \in Sources => gap >= MinGap(j)
  BY GapType
<1>4. UNCHANGED <<active, thread, loaded, since>> /\ timer[j] = 0
  BY DEF Submit
<1>5. /\ timer' \in [Jobs -> Nat \cup {Off}]
      /\ \A h \in Housekeeping : timer'[h] # Off
  BY <1>1, <1>2, <1>3 DEF TypeOK, Off, Jobs
<1>6. TimerInv'
  <2>1. SUFFICES ASSUME NEW s \in Sources, timer'[s] # Off
                 PROVE  timer'[s] + since[s] >= MinGap(s) - Grace
    BY <1>4 DEF TimerInv
  <2>2. CASE s = j
    BY <1>1, <1>2, <1>3, <2>2, GapFacts, ScheduleConstantsOK DEF TypeOK
  <2>3. CASE s # j
    BY <1>1, <1>2, <2>1, <2>3 DEF TimerInv, TypeOK
  <2>4. QED
    BY <2>2, <2>3
<1>7. ASSUME NEW k \in DOMAIN queue, queue[k].job \in Sources
      PROVE  LET s == queue[k].job IN
             /\ since[s] >= MinGap(s) - Grace
             /\ timer'[s] # Off /\ queue[k].age <= Grace =>
                  timer'[s] + queue[k].age >= MinGap(s)
  <2> DEFINE s == queue[k].job
  <2>1. queue[k].age \in Nat
    BY <1>1, QueueType, ScheduleConstantsOK
  <2>2. CASE s = j
    BY <1>1, <1>2, <1>3, <1>7, <2>1, <2>2, GapFacts DEF QueueInv, TypeOK
  <2>3. CASE s # j
    BY <1>1, <1>2, <1>7, <2>3 DEF QueueInv, TypeOK
  <2>4. QED
    BY <2>2, <2>3
<1>8. CASE /\ MaySubmit(j)
           /\ queue' = Append(queue, [job |-> j, age |-> 0])
           /\ instances' = [instances EXCEPT ![j] = @ + 1]
  <2> DEFINE e == [job |-> j, age |-> 0]
             n == Len(queue) + 1
  <2>1. e \in Entry /\ e.job = j /\ e.age = 0
    BY ScheduleConstantsOK DEF Entry
  <2> HIDE DEF e
  <2>2. /\ queue' = Append(queue, e)
        /\ queue' \in Seq(Entry)
        /\ DOMAIN queue = 1..Len(queue)
        /\ DOMAIN queue' = 1..n
        /\ Len(queue) \in Nat
        /\ queue'[n] = e
        /\ \A k \in 1..Len(queue) : queue'[k] = queue[k]
    <3>1. queue' = Append(queue, e)
      BY <1>8 DEF e
    <3>2. QED
      BY <1>1, <2>1, <3>1, LenProperties, AppendProperties
  <2>3. TypeOK'
    <3>1. \A k \in DOMAIN queue' :
            queue'[k].job \in Jobs /\ queue'[k].age \in 0..(Grace + 1)
      BY <2>2, QueueType
    <3>2. instances' \in [Jobs -> Nat]
      BY <1>1, <1>8 DEF TypeOK
    <3>3. QED
      BY <1>1, <1>4, <1>5, <3>1, <3>2 DEF TypeOK
  <2>4. InstancesAccounted' /\ OneInstance'
    <3>1. ASSUME NEW h \in Jobs
          PROVE  /\ instances'[h] = Count(queue', h) + Cardinality(Busy(h)')
                 /\ instances'[h] <= 1
      <4>1. Busy(h)' = Busy(h)
        BY <1>4 DEF Busy
      <4>2. Count(queue', h) = IF h = j THEN Count(queue, h) + 1 ELSE Count(queue, h)
        BY <1>1, <2>1, <2>2, CountAppend
      <4>3. instances'[h] = IF h = j THEN instances[h] + 1 ELSE instances[h]
        BY <1>1, <1>8 DEF TypeOK
      <4>4. h = j => instances[h] = 0
        BY <1>8 DEF MaySubmit
      <4>5. QED
        BY <4>1, <4>2, <4>3, <4>4, Numbers
    <3>2. QED
      BY <3>1, Accounted
  <2>5. QueueInv'
    <3>1. SUFFICES ASSUME NEW k \in DOMAIN queue', queue'[k].job \in Sources
                   PROVE  LET s == queue'[k].job IN
                          /\ since[s] >= MinGap(s) - Grace
                          /\ timer'[s] # Off /\ queue'[k].age <= Grace =>
                               timer'[s] + queue'[k].age >= MinGap(s)
      BY <1>4 DEF QueueInv
    <3>2. CASE k = n
      <4>1. queue'[k].job = j /\ queue'[k].age = 0 /\ j \in Sources
        BY <2>1, <2>2, <3>1, <3>2
      <4>2. timer'[j] = gap /\ timer[j] # Off
        BY <1>1, <1>2, <1>4 DEF TypeOK, Off
      <4>3. since[j] >= MinGap(j) - Grace
        BY <1>1, <1>4, <4>1, <4>2, GapFacts, ScheduleConstantsOK DEF TimerInv, TypeOK
      <4>4. QED
        BY <1>3, <4>1, <4>2, <4>3, GapFacts
    <3>3. CASE k # n
      <4>1. k \in DOMAIN queue /\ queue'[k] = queue[k]
        BY <2>2, <3>1, <3>3
      <4>2. QED
        BY <1>7, <3>1, <4>1
    <3>4. QED
      BY <3>2, <3>3
  <2>6. QED
    BY <1>6, <2>2, <2>3, <2>4, <2>5 DEF IInv
<1>9. CASE ~MaySubmit(j) /\ UNCHANGED <<queue, instances>>
  <2>1. TypeOK'
    BY <1>1, <1>4, <1>5, <1>9 DEF TypeOK
  <2>2. QueueInv'
    BY <1>4, <1>7, <1>9 DEF QueueInv
  <2>3. InstancesAccounted' /\ OneInstance'
    BY <1>4, <1>9 DEF IInv, InstancesAccounted, OneInstance, Queued, Busy
  <2>4. QED
    BY <1>1, <1>6, <1>9, <2>1, <2>2, <2>3 DEF IInv
<1>10. QED
  BY <1>8, <1>9 DEF Submit

LEMMA TailFacts ==
    ASSUME NEW q \in Seq(Entry), q # <<>>
    PROVE  /\ Head(q) \in Entry
           /\ Head(q) = q[1]
           /\ 1 \in DOMAIN q
           /\ Tail(q) \in Seq(Entry)
           /\ \A k \in DOMAIN Tail(q) :
                /\ k + 1 \in DOMAIN q
                /\ Tail(q)[k] = q[k + 1]
<1>1. /\ Len(q) \in Nat \ {0}
      /\ DOMAIN q = 1..Len(q)
      /\ Tail(q) \in Seq(Entry)
      /\ DOMAIN Tail(q) = 1..(Len(q) - 1)
      /\ \A k \in 1..(Len(q) - 1) : Tail(q)[k] = q[k + 1]
      /\ Head(q) = q[1]
      /\ Head(q) \in Entry
  BY LenProperties, HeadTailProperties, EmptySeq
<1>2. QED
  BY <1>1

LEMMA RunInv ==
    ASSUME IInv, NEW i \in Pool, Run(i)
    PROVE  IInv'
<1> DEFINE j == Head(queue).job
<1>1. /\ TypeOK
      /\ queue \in Seq(Entry)
      /\ TimerInv
      /\ QueueInv
  BY DEF IInv
<1>2. /\ thread[i] = None
      /\ queue # <<>>
      /\ Head(queue).age <= Grace
      /\ thread' = [thread EXCEPT ![i] = j]
      /\ queue' = Tail(queue)
      /\ since' = [s \in Sources |-> IF s = j THEN 0 ELSE since[s]]
      /\ UNCHANGED <<active, timer, instances, loaded>>
  BY DEF Run, Free
<1>3. /\ j \in Jobs
      /\ Head(queue).age \in Nat
      /\ Head(queue) = queue[1]
      /\ 1 \in DOMAIN queue
  <2>1. /\ Head(queue) \in Entry
        /\ Head(queue) = queue[1]
        /\ 1 \in DOMAIN queue
    BY <1>1, <1>2, TailFacts
  <2>2. Head(queue).job \in Jobs /\ Head(queue).age \in 0..(Grace + 1)
    BY <2>1 DEF Entry
  <2>3. QED
    BY <2>1, <2>2, ScheduleConstantsOK
<1> HIDE DEF j
<1>4. queue' \in Seq(Entry)
  BY <1>1, <1>2, TailFacts
<1>5. TypeOK'
  <2>1. \A k \in DOMAIN queue' :
          queue'[k].job \in Jobs /\ queue'[k].age \in 0..(Grace + 1)
    BY <1>4, QueueType
  <2>2. since' \in [Sources -> Nat] /\ thread' \in [Pool -> Jobs \cup {None}]
    BY <1>1, <1>2, <1>3 DEF TypeOK
  <2>3. QED
    BY <1>1, <1>2, <2>1, <2>2 DEF TypeOK
<1>6. ASSUME NEW h \in Jobs
      PROVE  Count(queue', h) = IF h = j THEN Count(queue, h) - 1 ELSE Count(queue, h)
  BY <1>1, <1>2, CountTail DEF j
<1>7. InstancesAccounted' /\ OneInstance'
  <2>1. ASSUME NEW h \in Jobs
        PROVE  /\ instances'[h] = Count(queue', h) + Cardinality(Busy(h)')
               /\ instances'[h] <= 1
    <3>1. Cardinality(Busy(h)') =
            IF h = j THEN Cardinality(Busy(h)) + 1 ELSE Cardinality(Busy(h))
      BY <1>1, <1>2, <1>3, BusyChanges DEF TypeOK
    <3>2. QED
      BY <1>2, <1>6, <3>1, Numbers
  <2>2. QED
    BY <2>1, Accounted
<1>8. TimerInv'
  <2>1. SUFFICES ASSUME NEW s \in Sources, timer[s] # Off
                 PROVE  timer[s] + since'[s] >= MinGap(s) - Grace
    BY <1>2 DEF TimerInv
  <2>2. CASE s = j
    <3>1. queue[1].job \in Sources /\ queue[1].job = j /\ queue[1].age <= Grace
      BY <1>2, <1>3, <2>2 DEF j
    <3>2. timer[j] + queue[1].age >= MinGap(j)
      BY <1>1, <1>3, <2>1, <2>2, <3>1 DEF QueueInv
    <3>3. timer[j] \in Int /\ since'[s] = 0 /\ queue[1].age \in Nat
      BY <1>1, <1>2, <1>3, <2>1, <2>2 DEF TypeOK, Off
    <3>4. QED
      BY <2>2, <3>1, <3>2, <3>3, GapFacts, ScheduleConstantsOK
  <2>3. CASE s # j
    BY <1>1, <1>2, <2>1, <2>3 DEF TimerInv
  <2>4. QED
    BY <2>2, <2>3
<1>9. QueueInv'
  <2>1. SUFFICES ASSUME NEW k \in DOMAIN queue', queue'[k].job \in Sources
                 PROVE  LET s == queue'[k].job IN
                        /\ since'[s] >= MinGap(s) - Grace
                        /\ timer[s] # Off /\ queue'[k].age <= Grace =>
                             timer[s] + queue'[k].age >= MinGap(s)
    BY <1>2 DEF QueueInv
  <2>2. k + 1 \in DOMAIN queue /\ queue'[k] = queue[k + 1]
    BY <1>1, <1>2, <2>1, TailFacts
  <2>3. queue'[k].job # j
    <3>1. SUFFICES ASSUME queue'[k].job = j PROVE FALSE
      OBVIOUS
    <3>2. Waiting(queue', j) # {}
      BY <2>1, <3>1 DEF Waiting
    <3>3. Count(queue', j) \in Nat \ {0}
      BY <1>4, <3>2, WaitingFacts
    <3>4. Count(queue', j) = Count(queue, j) - 1 /\ Count(queue, j) \in 0..1
      BY <1>3, <1>6, Numbers
    <3>5. QED
      BY <3>3, <3>4
  <2>4. since'[queue'[k].job] = since[queue'[k].job]
    BY <1>2, <2>1, <2>3
  <2>5. QED
    BY <1>1, <2>1, <2>2, <2>4 DEF QueueInv
<1>10. QED
  BY <1>4, <1>5, <1>7, <1>8, <1>9 DEF IInv

LEMMA MissInv ==
    ASSUME IInv, NEW i \in Pool, Miss(i)
    PROVE  IInv'
<1> DEFINE j == Head(queue).job
<1>1. /\ TypeOK
      /\ queue \in Seq(Entry)
      /\ TimerInv
      /\ QueueInv
  BY DEF IInv
<1>2. /\ queue # <<>>
      /\ queue' = Tail(queue)
      /\ instances' = [instances EXCEPT ![j] = @ - 1]
      /\ UNCHANGED <<active, timer, thread, loaded, since>>
  BY DEF Miss, Forgotten
<1>3. j \in Jobs /\ queue' \in Seq(Entry)
  BY <1>1, <1>2, TailFacts DEF Entry
<1>4. ASSUME NEW h \in Jobs
      PROVE  Count(queue', h) = IF h = j THEN Count(queue, h) - 1 ELSE Count(queue, h)
  BY <1>1, <1>2, CountTail DEF j
<1> HIDE DEF j
<1>5. ASSUME NEW h \in Jobs
      PROVE  /\ instances'[h] \in Nat
             /\ instances'[h] = Count(queue', h) + Cardinality(Busy(h)')
             /\ instances'[h] <= 1
  <2>1. Cardinality(Busy(h)') = Cardinality(Busy(h))
    BY <1>2 DEF Busy
  <2>2. Count(queue', h) \in Nat
    BY <1>3, WaitingFacts
  <2>3. instances'[h] = IF h = j THEN instances[h] - 1 ELSE instances[h]
    BY <1>1, <1>2 DEF TypeOK
  <2>4. QED
    BY <1>4, <2>1, <2>2, <2>3, Numbers
<1>6. TypeOK'
  <2>1. \A k \in DOMAIN queue' :
          queue'[k].job \in Jobs /\ queue'[k].age \in 0..(Grace + 1)
    BY <1>3, QueueType
  <2>2. instances' \in [Jobs -> Nat]
    BY <1>1, <1>2, <1>5 DEF TypeOK
  <2>3. QED
    BY <1>1, <1>2, <2>1, <2>2 DEF TypeOK
<1>7. QueueInv'
  <2>1. \A k \in DOMAIN queue' :
          k + 1 \in DOMAIN queue /\ queue'[k] = queue[k + 1]
    BY <1>1, <1>2, TailFacts
  <2>2. QED
    BY <1>1, <1>2, <2>1 DEF QueueInv
<1>8. QED
  BY <1>1, <1>2, <1>3, <1>5, <1>6, <1>7, Accounted DEF IInv, TimerInv

\* A job that ends.
LEMMA EndInv ==
    ASSUME IInv, NEW i \in Pool, NEW j \in Jobs, thread[i] = j,
           thread' = [thread EXCEPT ![i] = None],
           instances' = [instances EXCEPT ![j] = @ - 1],
           UNCHANGED <<active, queue, since>>,
           loaded' = NotLoaded \/ loaded' = loaded,
           timer' \in [Jobs -> Nat \cup {Off}],
           \A h \in Housekeeping : timer'[h] # Off,
           \A s \in Sources : timer'[s] \in {timer[s], Off} \/ timer'[s] >= MinGap(s)
    PROVE  IInv'
<1>1. /\ TypeOK
      /\ queue \in Seq(Entry)
      /\ TimerInv
      /\ QueueInv
  BY DEF IInv
<1>2. ASSUME NEW h \in Jobs
      PROVE  /\ instances'[h] \in Nat
             /\ instances'[h] = Count(queue', h) + Cardinality(Busy(h)')
             /\ instances'[h] <= 1
  <2>1. Cardinality(Busy(h)') =
          IF h = j THEN Cardinality(Busy(h)) - 1 ELSE Cardinality(Busy(h))
    BY <1>1, BusyChanges DEF TypeOK
  <2>2. i \in Busy(j)
    BY DEF Busy
  <2>3. h = j => Cardinality(Busy(h)) \in Nat \ {0}
    BY <2>2, BusyFacts
  <2>4. instances'[h] = IF h = j THEN instances[h] - 1 ELSE instances[h]
    BY <1>1 DEF TypeOK
  <2>5. QED
    BY <2>1, <2>3, <2>4, Numbers
<1>3. TypeOK'
  <2>1. instances' \in [Jobs -> Nat] /\ thread' \in [Pool -> Jobs \cup {None}]
    BY <1>1, <1>2 DEF TypeOK
  <2>2. QED
    BY <1>1, <2>1 DEF TypeOK
<1>4. TimerInv'
  <2>1. SUFFICES ASSUME NEW s \in Sources, timer'[s] # Off
                 PROVE  timer'[s] + since[s] >= MinGap(s) - Grace
    BY DEF TimerInv
  <2>2. CASE timer'[s] = timer[s]
    BY <1>1, <2>1, <2>2 DEF TimerInv
  <2>3. CASE timer'[s] >= MinGap(s)
    BY <1>1, <2>1, <2>3, GapFacts, ScheduleConstantsOK DEF TypeOK, Jobs
  <2>4. QED
    BY <2>1, <2>2, <2>3
<1>5. QueueInv'
  <2>1. SUFFICES ASSUME NEW k \in DOMAIN queue, queue[k].job \in Sources
                 PROVE  LET s == queue[k].job IN
                        /\ since[s] >= MinGap(s) - Grace
                        /\ timer'[s] # Off /\ queue[k].age <= Grace =>
                             timer'[s] + queue[k].age >= MinGap(s)
    BY DEF QueueInv
  <2> DEFINE s == queue[k].job
  <2>2. queue[k].age \in Nat
    BY <1>1, QueueType, ScheduleConstantsOK
  <2>3. CASE timer'[s] \in {timer[s], Off}
    BY <1>1, <2>1, <2>3 DEF QueueInv
  <2>4. CASE timer'[s] >= MinGap(s)
    BY <1>1, <2>1, <2>2, <2>4, GapFacts DEF QueueInv, Jobs
  <2>5. QED
    BY <2>1, <2>3, <2>4
<1>6. QED
  BY <1>1, <1>2, <1>3, <1>4, <1>5, Accounted DEF IInv

\* The threads of the pool, but for taking up and missing a run.
LEMMA WorkInv ==
    ASSUME IInv, NEW i \in Pool,
           Finish(i) \/ LoadSources(i) \/ SyncJobs(i) \/ LoadRaises(i)
    PROVE  IInv'
<1>1. TypeOK
  BY DEF IInv
<1>2. Refresh \in Jobs
  BY DEF Jobs, Housekeeping
<1>3. CASE Finish(i)
  <2>1. thread[i] \in Jobs
    BY <1>3 DEF Finish, Jobs, Housekeeping
  <2>2. QED
    BY <1>1, <1>3, <2>1, EndInv DEF Finish, TypeOK
<1>4. CASE LoadRaises(i)
  BY <1>1, <1>2, <1>4, EndInv DEF LoadRaises, TypeOK
<1>5. CASE SyncJobs(i)
  <2>1. loaded \in SUBSET Sources
    BY <1>1, <1>5 DEF SyncJobs, TypeOK
  <2>2. \A h \in Housekeeping : timer[h] \in Nat
    BY <1>1 DEF TypeOK, Jobs
  <2>3. /\ timer' \in [Jobs -> Nat \cup {Off}]
        /\ \A h \in Housekeeping : timer'[h] # Off
        /\ \A s \in Sources : timer'[s] # Off => timer'[s] >= MinGap(s)
    BY <1>5, <2>1, <2>2, SyncedFacts DEF SyncJobs
  <2>4. \A s \in Sources : timer'[s] \in {timer[s], Off} \/ timer'[s] >= MinGap(s)
    BY <2>3
  <2>5. QED
    BY <1>2, <1>5, <2>3, <2>4, EndInv DEF SyncJobs
<1>6. CASE LoadSources(i)
  <2>1. TypeOK'
    BY <1>1, <1>6 DEF LoadSources, TypeOK
  <2>2. /\ queue' \in Seq(Entry)
        /\ InstancesAccounted' /\ OneInstance' /\ TimerInv' /\ QueueInv'
    BY <1>6 DEF IInv, LoadSources, InstancesAccounted, OneInstance, Queued, Busy,
                TimerInv, QueueInv
  <2>3. QED
    BY <2>1, <2>2 DEF IInv
<1>7. QED
  BY <1>3, <1>4, <1>5, <1>6

LEMMA SwitchInv ==
    ASSUME IInv, (\E s \in Sources : Switch(s)) \/ UNCHANGED vars
    PROVE  IInv'
<1>1. /\ active' \subseteq Sources
      /\ UNCHANGED <<timer, queue, thread, instances, loaded, since>>
  BY DEF IInv, TypeOK, Switch, vars
<1>2. TypeOK'
  BY <1>1 DEF IInv, TypeOK
<1>3. /\ queue' \in Seq(Entry)
      /\ InstancesAccounted' /\ OneInstance' /\ TimerInv' /\ QueueInv'
  BY <1>1 DEF IInv, InstancesAccounted, OneInstance, Queued, Busy, TimerInv, QueueInv
<1>4. QED
  BY <1>2, <1>3 DEF IInv

LEMMA TickInv == IInv /\ Tick => IInv'
<1> SUFFICES ASSUME IInv, Tick PROVE IInv'
  OBVIOUS
<1>1. /\ TypeOK
      /\ queue \in Seq(Entry)
      /\ TimerInv
      /\ QueueInv
  BY DEF IInv
<1>2. /\ \A j \in Jobs : timer[j] # 0
      /\ timer' = [j \in Jobs |-> IF timer[j] = Off THEN Off ELSE timer[j] - 1]
      /\ since' = [s \in Sources |->
            IF since[s] < MaxGap(s) THEN since[s] + 1 ELSE since[s]]
      /\ UNCHANGED <<active, thread, instances, loaded>>
  BY DEF Tick
<1>3. ASSUME NEW j \in Jobs
      PROVE  /\ timer'[j] \in Nat \cup {Off}
             /\ timer'[j] = Off <=> timer[j] = Off
             /\ timer[j] # Off => timer'[j] = timer[j] - 1
  BY <1>1, <1>2 DEF TypeOK, Off
<1>4. ASSUME NEW k \in DOMAIN queue
      PROVE  /\ queue'[k] \in Entry
             /\ queue'[k].job = queue[k].job
             /\ queue'[k].age <= Grace =>
                  queue[k].age <= Grace /\ queue'[k].age = queue[k].age + 1
  <2> DEFINE n == IF queue[k].age > Grace THEN queue[k].age ELSE queue[k].age + 1
             e == [queue[k] EXCEPT !.age = n]
  <2>1. queue[k] \in Entry /\ queue[k].age \in 0..(Grace + 1)
    BY <1>1, QueueType
  <2>2. /\ n \in 0..(Grace + 1)
        /\ n <= Grace => queue[k].age <= Grace /\ n = queue[k].age + 1
    BY <2>1, ScheduleConstantsOK
  <2>3. queue'[k] = e
    BY DEF Tick
  <2> HIDE DEF n
  <2>4. e \in Entry /\ e.job = queue[k].job /\ e.age = n
    BY <2>1, <2>2 DEF Entry
  <2>5. QED
    BY <2>2, <2>3, <2>4
<1>5. DOMAIN queue' = DOMAIN queue /\ queue' \in Seq(Entry)
  <2>1. DOMAIN queue = 1..Len(queue) /\ Len(queue) \in Nat
    BY <1>1, LenProperties
  <2>2. queue' = [k \in DOMAIN queue |-> queue'[k]]
    BY DEF Tick
  <2>3. queue' \in [1..Len(queue) -> Entry]
    BY <1>4, <2>1, <2>2
  <2>4. QED
    BY <2>1, <2>3, SeqDef
<1>6. TypeOK'
  <2>1. \A k \in DOMAIN queue' :
          queue'[k].job \in Jobs /\ queue'[k].age \in 0..(Grace + 1)
    BY <1>5, QueueType
  <2>2. timer' \in [Jobs -> Nat \cup {Off}]
    BY <1>2, <1>3
  <2>3. \A j \in Housekeeping : timer'[j] # Off
    BY <1>1, <1>3 DEF TypeOK, Jobs
  <2>4. since' \in [Sources -> Nat]
    BY <1>1, <1>2 DEF TypeOK
  <2>5. QED
    BY <1>1, <1>2, <2>1, <2>2, <2>3, <2>4 DEF TypeOK
<1>7. InstancesAccounted' /\ OneInstance'
  <2>1. ASSUME NEW j \in Jobs
        PROVE  /\ instances'[j] = Count(queue', j) + Cardinality(Busy(j)')
               /\ instances'[j] <= 1
    <3>1. Waiting(queue', j) = Waiting(queue, j)
      BY <1>4, <1>5 DEF Waiting
    <3>2. Busy(j)' = Busy(j)
      BY <1>2 DEF Busy
    <3>3. QED
      BY <1>2, <3>1, <3>2, Numbers DEF Count
  <2>2. QED
    BY <2>1, Accounted
<1>8. ASSUME NEW s \in Sources
      PROVE  /\ since[s] \in Nat
             /\ since'[s] \in {since[s], since[s] + 1}
             /\ since'[s] = since[s] => since[s] >= MinGap(s)
  BY <1>1, <1>2, GapFacts DEF TypeOK
<1>9. TimerInv'
  <2>1. SUFFICES ASSUME NEW s \in Sources, timer'[s] # Off
                 PROVE  timer'[s] + since'[s] >= MinGap(s) - Grace
    BY DEF TimerInv
  <2>2. /\ timer[s] # Off
        /\ timer'[s] = timer[s] - 1
        /\ timer[s] \in Nat
        /\ timer'[s] \in Nat
    BY <1>1, <1>3, <2>1 DEF Jobs, TypeOK
  <2>3. timer[s] + since[s] >= MinGap(s) - Grace
    BY <1>1, <2>2 DEF TimerInv
  <2>4. QED
    BY <1>8, <2>2, <2>3, GapFacts, ScheduleConstantsOK
<1>10. QueueInv'
  <2>1. SUFFICES ASSUME NEW k \in DOMAIN queue, queue[k].job \in Sources
                 PROVE  LET s == queue[k].job IN
                        /\ since'[s] >= MinGap(s) - Grace
                        /\ timer'[s] # Off /\ queue'[k].age <= Grace =>
                             timer'[s] + queue'[k].age >= MinGap(s)
    BY <1>4, <1>5 DEF QueueInv
  <2> DEFINE s == queue[k].job
  <2>2. since'[s] >= MinGap(s) - Grace
    <3>1. s \in Sources /\ k \in DOMAIN queue
      BY <1>4, <1>5, <2>1
    <3>2. since[s] >= MinGap(s) - Grace
      BY <1>1, <3>1 DEF QueueInv
    <3>3. QED
      BY <1>8, <3>1, <3>2, GapFacts, ScheduleConstantsOK
  <2>3. ASSUME timer'[s] # Off, queue'[k].age <= Grace
        PROVE  timer'[s] + queue'[k].age >= MinGap(s)
    <3>1. /\ timer[s] # Off
          /\ timer'[s] = timer[s] - 1
          /\ timer[s] \in Nat
      BY <1>1, <1>3, <2>1, <2>3 DEF Jobs, TypeOK
    <3>2. /\ queue[k].age <= Grace
          /\ queue'[k].age = queue[k].age + 1
          /\ queue[k].age \in 0..(Grace + 1)
      BY <1>1, <1>4, <2>3, QueueType
    <3>3. timer[s] + queue[k].age >= MinGap(s)
      BY <1>1, <2>1, <3>1, <3>2 DEF QueueInv
    <3>4. QED
      BY <2>1, <3>1, <3>2, <3>3, GapFacts, ScheduleConstantsOK
  <2>4. QED
    BY <2>2, <2>3
<1>11. QED
  BY <1>5, <1>6, <1>7, <1>9, <1>10 DEF IInv

LEMMA NextInv == IInv /\ [Next]_vars => IInv'
BY SubmitInv, RunInv, MissInv, WorkInv, SwitchInv, RestartInv, TickInv DEF Next, Work

-----------------------------------------------------------------------------
(* The theorems. *)

\* The invariant: the pool's count agrees with its queue and its threads, and
\* timers and waiting runs allow for the time since the last crawl.
THEOREM Invariance == Spec => []IInv
<1>1. QED
  BY InitInv, NextInv, PTL DEF Spec

\* Every variable stays in its type; in particular the counts of the pool
\* never fall below zero and the jobs that are no crawls stay registered.
THEOREM TypeCorrect == Spec => []TypeOK
<1>1. IInv => TypeOK
  BY DEF IInv
<1>2. QED
  BY <1>1, Invariance, PTL

\* The count that max_instances rests on never leaks, whatever is replaced,
\* removed, skipped, missed or raises.
THEOREM Accounting == Spec => []InstancesAccounted
<1>1. IInv => InstancesAccounted
  BY DEF IInv
<1>2. QED
  BY <1>1, Invariance, PTL

\* No job ever runs twice at the same time, with any number of threads.
THEOREM NoOverlap == Spec => []OneInstance
<1>1. IInv => OneInstance
  BY DEF IInv
<1>2. QED
  BY <1>1, Invariance, PTL

\* A site is never visited sooner than its interval, less jitter and grace,
\* after the last visit.
THEOREM Spacing == Spec => CrawlSpacing
<1> DEFINE Spaced ==
      \A s \in Sources : Busy(s)' \ Busy(s) # {} => since[s] >= MinGap(s) - Grace
<1>1. IInv /\ [Next]_vars => [Spaced]_vars
  <2> SUFFICES ASSUME IInv, Next, NEW s \in Sources, Busy(s)' \ Busy(s) # {}
               PROVE  since[s] >= MinGap(s) - Grace
    OBVIOUS
  <2>1. PICK i \in Pool : thread'[i] = s /\ thread[i] # s
    BY DEF Busy
  <2>2. s # None
    BY ScheduleConstantsOK DEF Jobs
  <2>3. thread' # thread /\ thread'[i] # None
    BY <2>1, <2>2
  <2>4. PICK h \in Pool : Run(h)
    <3>1. \A j \in Jobs : Submit(j) => thread' = thread
      BY DEF Submit
    <3>2. ~Restart
      BY <2>1, <2>2 DEF Restart, NothingRuns
    <3>3. \A h \in Pool :
            Miss(h) \/ Finish(h) \/ LoadSources(h) \/ SyncJobs(h) \/ LoadRaises(h) =>
              thread' = thread \/ thread' = [thread EXCEPT ![h] = None]
      BY DEF Miss, Finish, LoadSources, SyncJobs, LoadRaises
    <3>4. \A h \in Pool : thread' # [thread EXCEPT ![h] = None]
      BY <2>1, <2>2 DEF IInv, TypeOK
    <3>5. (\E t \in Sources : Switch(t)) \/ Tick => thread' = thread
      BY DEF Switch, Tick
    <3>6. QED
      BY <2>3, <3>1, <3>2, <3>3, <3>4, <3>5 DEF Next, Work
  <2>5. thread' = [thread EXCEPT ![h] = Head(queue).job] /\ queue # <<>>
    BY <2>4 DEF Run
  <2>6. Head(queue).job = s
    BY <2>1, <2>5 DEF IInv, TypeOK
  <2>7. 1 \in DOMAIN queue /\ queue[1].job = s
    BY <2>5, <2>6, TailFacts DEF IInv
  <2>8. QED
    BY <2>7 DEF IInv, QueueInv
<1>2. QED
  BY <1>1, Invariance, PTL DEF Spec, CrawlSpacing

=============================================================================
