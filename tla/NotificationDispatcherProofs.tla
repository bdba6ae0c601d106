---------------------- MODULE NotificationDispatcherProofs ----------------------
(***************************************************************************)
(* Proofs about module NotificationDispatcher, for every number of         *)
(* dispatchers, postings, channels and browsers, every length of the day   *)
(* and all quiet hours, and with or without crashes.                       *)
(***************************************************************************)
EXTENDS NotificationDispatcher, TLAPS

-----------------------------------------------------------------------------
(* The inductive invariant. *)

States == {"idle", "selecting", "queueing", "listing", "sending", "recording"}

Row == [active : BOOLEAN, failures : Nat]

Answer == {r \in [ok : BOOLEAN, invalid : SUBSET Endpoints, failed : SUBSET Endpoints] :
             r.invalid \cap r.failed = {}}

Dispatch == [now : 0..MaxTime, force : BOOLEAN, channels : SUBSET Channels,
             endpoints : SUBSET Endpoints, queue : SUBSET Pairs,
             channel : {Kakao, WebPush}, claim : SUBSET Pairs,
             attempts : 0..(RetryAttempts - 1), result : Answer,
             read : [Endpoints -> Row]]

Notice == [pc : {"idle", "sending", "recording"}, endpoints : SUBSET Endpoints,
           result : Answer, read : [Endpoints -> Row]]

\* The types of all that the dispatches work on, ...
RowsOK ==
    /\ clock \in 0..MaxTime
    /\ quiet \in QuietSettings
    /\ posting \in [Postings -> [status : {"unseen", "present", "deleted"},
                                 wanted : BOOLEAN, firstSeen : 0..MaxTime]]
    /\ note \in [Pairs -> [status : {"none", "pending", "sent", "failed"},
                           scheduled : 0..(MaxTime + Day),
                           sent : {Never} \cup 0..MaxTime]]
    /\ subscription \in [Endpoints -> Row]
    /\ fired \in 0..MaxTime
    /\ pc \in [Dispatchers -> States]
    /\ \A d \in Dispatchers :
         /\ job[d].channels \subseteq Channels
         /\ job[d].queue \cup job[d].claim \subseteq Pairs
         /\ job[d].attempts \in 0..(RetryAttempts - 1)
    /\ acknowledged \cup settled \subseteq Pairs

\* ... and of the notices.
NoticesOK == notice \in [Notifiers -> Notice]

\* What the locals of a dispatch are worth.  Its time is not long past; what
\* it has queued was new then; it carries something only at the channel; an
\* answer that says yes was given; and past the queue it is no quiet hour,
\* unless the administrator has asked.
DispatchFine(d) ==
    /\ pc[d] # "idle" => /\ job[d].now <= clock
                         /\ clock <= job[d].now + DispatchTime
    /\ pc[d] \notin {"sending", "recording"} => job[d].claim = {}
    /\ pc[d] = "queueing" =>
         \A x \in job[d].queue :
             /\ posting[x[1]].status # "unseen"
             /\ posting[x[1]].status = "present" =>
                  posting[x[1]].firstSeen >= job[d].now - Lookback
    /\ pc[d] = "recording" /\ job[d].result.ok => job[d].claim \subseteq acknowledged
    /\ pc[d] \in {"listing", "sending", "recording"} => ~Deferred(d)

\* A row has its posting; what it says of its delivery is true; and it is
\* missing after its delivery only when the posting is too old to be queued.
PairFine(x) ==
    /\ note[x].status # "none" => posting[x[1]].status = "present"
    /\ note[x].status = "sent" => x \in acknowledged
    /\ note[x].sent # Never =>
         /\ x \in acknowledged
         /\ x \in settled
         /\ note[x].status # "none"
         /\ posting[x[1]].firstSeen <= note[x].sent + DispatchTime
    /\ x \in settled =>
         /\ posting[x[1]].status # "unseen"
         /\ note[x].status = "none" /\ posting[x[1]].status = "present" =>
              posting[x[1]].firstSeen < clock - Keep + DispatchTime

\* No posting is seen before its time.
SeenInPast ==
    \A p \in Postings : posting[p].status = "present" => posting[p].firstSeen <= clock

IInv ==
    /\ RowsOK
    /\ job \in [Dispatchers -> Dispatch]
    /\ \A d \in Dispatchers : DispatchFine(d)
    /\ \A x \in Pairs : PairFine(x)
    /\ SeenInPast

-----------------------------------------------------------------------------
(* Hours. *)

LEMMA HourFacts ==
    ASSUME NEW t \in Nat
    PROVE  /\ HourOf(t) \in Hours
           /\ HourOf(t) <= t
           /\ Midnight(t) \in 0..t
<1>1. t % Day \in 0..(Day - 1) /\ t % Day <= t
  BY DispatchConstantsOK
<1>2. QED
  BY <1>1, DispatchConstantsOK DEF HourOf, Midnight, Hours

LEMMA QuietFacts ==
    ASSUME quiet \in QuietSettings
    PROVE  quiet \in [start : Hours, end : Hours]
BY DispatchConstantsOK

\* Whatever is put off is put off by a day at the most.
LEMMA QuietUntilType ==
    ASSUME quiet \in QuietSettings, NEW t \in 0..MaxTime
    PROVE  QuietUntil(t) \in 0..(MaxTime + Day)
<1>1. t \in Nat /\ MaxTime \in Nat /\ Day \in Nat \ {0}
  BY DispatchConstantsOK
<1>2. Midnight(t) \in 0..t /\ HourOf(t) \in 0..t /\ Midnight(t) = t - HourOf(t)
  BY <1>1, HourFacts DEF Midnight, Hours
<1>3. quiet.end \in 0..(Day - 1) /\ quiet.start \in 0..(Day - 1)
  BY QuietFacts DEF Hours
<1>4. CASE quiet.start >= quiet.end /\ HourOf(t) >= quiet.start
  <2>1. QuietUntil(t) = Midnight(t) + Day + quiet.end
    BY <1>4 DEF QuietUntil
  <2>2. QED
    BY <1>1, <1>2, <1>3, <1>4, <2>1
<1>5. CASE ~(quiet.start >= quiet.end /\ HourOf(t) >= quiet.start)
  <2>1. QuietUntil(t) = Midnight(t) + quiet.end
    BY <1>5 DEF QuietUntil
  <2>2. QED
    BY <1>1, <1>2, <1>3, <2>1
<1>6. QED
  BY <1>4, <1>5

\* The hour that is n hours after the start of the quiet hours, n less than
\* their length, is quiet.
LEMMA QuietHour ==
    ASSUME quiet \in QuietSettings, quiet.start # quiet.end,
           NEW n \in 0..((quiet.end - quiet.start + Day - 1) % Day),
           NEW t \in Nat, HourOf(t) = (quiet.start + n) % Day
    PROVE  IsQuiet(t)
<1> DEFINE a == quiet.start
           b == quiet.end
<1>1. a \in 0..(Day - 1) /\ b \in 0..(Day - 1) /\ a # b /\ Day \in Nat \ {0}
  BY QuietFacts, DispatchConstantsOK DEF Hours
<1>2. ASSUME NEW m \in Nat, m < Day
      PROVE  m % Day = m
  BY <1>2, DispatchConstantsOK
<1>3. ASSUME NEW m \in Nat, Day <= m, m < 2 * Day
      PROVE  m % Day = m - Day
  BY <1>3, DispatchConstantsOK
<1> HIDE DEF a, b
<1>4. n \in 0..((b - a + Day - 1) % Day)
  BY DEF a, b
<1>5. HourOf(t) = (a + n) % Day
  BY DEF a
<1>6. CASE a < b
  <2>1. b - a + Day - 1 \in Nat /\ Day <= b - a + Day - 1 /\ b - a + Day - 1 < 2 * Day
    BY <1>1, <1>6
  <2>2. (b - a + Day - 1) % Day = b - a - 1
    BY <1>1, <1>3, <2>1
  <2>3. n \in Nat /\ a + n < b
    BY <1>1, <1>4, <1>6, <2>2
  <2>4. (a + n) % Day = a + n
    BY <1>1, <1>2, <2>3
  <2>5. QED
    BY <1>1, <1>5, <2>3, <2>4 DEF IsQuiet, a, b
<1>7. CASE b < a
  <2>1. (b - a + Day - 1) % Day = b - a + Day - 1
    BY <1>1, <1>2, <1>7
  <2>2. n \in Nat /\ a + n < b + Day
    BY <1>1, <1>4, <1>7, <2>1
  <2>3. CASE a + n < Day
    <3>1. (a + n) % Day = a + n
      BY <1>1, <1>2, <2>2, <2>3
    <3>2. QED
      BY <1>1, <1>5, <1>7, <2>2, <3>1 DEF IsQuiet, a, b
  <2>4. CASE Day <= a + n
    <3>1. (a + n) % Day = a + n - Day
      BY <1>1, <1>3, <2>2, <2>4
    <3>2. QED
      BY <1>1, <1>5, <1>7, <2>2, <3>1 DEF IsQuiet, a, b
  <2>5. QED
    BY <1>1, <2>2, <2>3, <2>4
<1>8. QED
  BY <1>1, <1>6, <1>7

\* Division: the quotient and the remainder are what they should be ...
LEMMA Division ==
    ASSUME NEW n \in Nat, NEW m \in Nat \ {0}
    PROVE  /\ n \div m \in Nat
           /\ n % m \in 0..(m - 1)
           /\ n = m * (n \div m) + (n % m)
OBVIOUS

\* ... and there are no others.
LEMMA NoMultiple ==
    ASSUME NEW m \in Nat \ {0}, NEW z \in Int, NEW b \in 0..(m - 1),
           m * z + b \in 0..(m - 1)
    PROVE  z = 0
<1>1. CASE z >= 1
  <2>1. m * z >= m
    BY <1>1
  <2>2. QED
    BY <2>1
<1>2. CASE z <= -1
  <2>1. m * z <= -m
    BY <1>2
  <2>2. QED
    BY <2>1
<1>3. QED
  BY <1>1, <1>2

LEMMA Remainder ==
    ASSUME NEW m \in Nat \ {0}, NEW q \in Nat, NEW b \in 0..(m - 1)
    PROVE  (m * q + b) % m = b
<1> DEFINE n == m * q + b
           p == n \div m
           r == n % m
<1>1. n \in Nat
  OBVIOUS
<1>2. p \in Nat /\ r \in 0..(m - 1) /\ n = m * p + r
  BY <1>1, Division
<1>3. m * (q - p) + b = r /\ q - p \in Int
  BY <1>2
<1>4. q - p = 0
  BY <1>2, <1>3, NoMultiple
<1>5. QED
  BY <1>2, <1>3, <1>4

\* A time of the day is met again in every day.
LEMMA HourOfDay ==
    ASSUME NEW t \in Nat, NEW b \in Hours
    PROVE  /\ (Midnight(t) + b) % Day = b
           /\ (Midnight(t) + Day + b) % Day = b
<1> DEFINE q == t \div Day
<1>1. Day \in Nat \ {0} /\ b \in 0..(Day - 1)
  BY DispatchConstantsOK DEF Hours
<1>2. q \in Nat /\ t = Day * q + (t % Day)
  BY <1>1, Division
<1> HIDE DEF q
<1>3. Midnight(t) = Day * q
  BY <1>1, <1>2 DEF Midnight, HourOf
<1>4. Midnight(t) + Day = Day * (q + 1) /\ q + 1 \in Nat
  BY <1>1, <1>2, <1>3
<1>5. (Day * q + b) % Day = b
  BY <1>1, <1>2, Remainder
<1>6. (Day * (q + 1) + b) % Day = b
  BY <1>1, <1>4, Remainder
<1>7. QED
  BY <1>3, <1>4, <1>5, <1>6

\* The end of the quiet hours that a time is in comes after it, within a day.
LEMMA QuietEndNext ==
    ASSUME quiet \in QuietSettings, NEW t \in Nat, IsQuiet(t)
    PROVE  /\ QuietUntil(t) % Day = quiet.end
           /\ QuietUntil(t) \in (t + 1)..(t + Day)
<1> DEFINE a == quiet.start
           b == quiet.end
           h == HourOf(t)
           m == Midnight(t)
<1>1. a \in 0..(Day - 1) /\ b \in 0..(Day - 1) /\ b \in Hours /\ Day \in Nat \ {0}
  BY QuietFacts, DispatchConstantsOK DEF Hours
<1>2. h \in 0..(Day - 1) /\ m \in Nat /\ t = m + h
  BY HourFacts, DispatchConstantsOK DEF Hours, Midnight
<1>3. (m + b) % Day = b /\ (m + Day + b) % Day = b
  BY <1>1, HourOfDay
<1>4. \/ a <= h /\ h < b
      \/ a > b /\ (h >= a \/ h < b)
  BY DEF IsQuiet
<1>5. QuietUntil(t) = IF a >= b /\ h >= a THEN m + Day + b ELSE m + b
  BY DEF QuietUntil
<1> HIDE DEF a, b, h, m
<1>6. CASE a >= b /\ h >= a
  <2>1. m + Day + b \in (t + 1)..(t + Day)
    BY <1>1, <1>2, <1>6
  <2>2. QED
    BY <1>3, <1>5, <1>6, <2>1 DEF b
<1>7. CASE ~(a >= b /\ h >= a)
  <2>1. h < b
    BY <1>1, <1>2, <1>4, <1>7
  <2>2. m + b \in (t + 1)..(t + Day)
    BY <1>1, <1>2, <2>1
  <2>3. QED
    BY <1>3, <1>5, <1>7, <2>2 DEF b
<1>8. QED
  BY <1>6, <1>7

-----------------------------------------------------------------------------
(* Records of the dispatches. *)

LEMMA NoJobFacts ==
    /\ NoJob \in Dispatch
    /\ NoJob.claim = {}
<1>1. 0 \in 0..MaxTime /\ 0 \in 0..(RetryAttempts - 1)
  BY DispatchConstantsOK
<1>2. NoResult \in Answer
  BY DEF NoResult, Answer
<1>3. NothingRead \in [Endpoints -> Row]
  BY DEF NothingRead, Inactive, Row
<1>4. QED
  BY <1>1, <1>2, <1>3 DEF NoJob, Dispatch

\* One dispatch moves.
LEMMA OneMoves ==
    ASSUME pc \in [Dispatchers -> States], job \in [Dispatchers -> Dispatch],
           NEW d \in Dispatchers, NEW at \in States, NEW j \in Dispatch,
           pc' = [pc EXCEPT ![d] = at], job' = [job EXCEPT ![d] = j]
    PROVE  /\ pc' \in [Dispatchers -> States]
           /\ job' \in [Dispatchers -> Dispatch]
           /\ pc'[d] = at
           /\ job'[d] = j
           /\ \A e \in Dispatchers \ {d} : pc'[e] = pc[e] /\ job'[e] = job[e]
OBVIOUS

\* A dispatch that does not move stays fine while the postings stay.
LEMMA FineKept ==
    ASSUME NEW d \in Dispatchers, DispatchFine(d),
           pc'[d] = pc[d], job'[d] = job[d], UNCHANGED <<clock, quiet, posting>>,
           acknowledged \subseteq acknowledged'
    PROVE  DispatchFine(d)'
BY DEF DispatchFine, Deferred, IsQuiet, HourOf

\* Whatever a step of dispatch d does to the notifications, the subscriptions
\* and the histories: what is left to show of it.
LEMMA MoveInv ==
    ASSUME IInv,
           NEW d \in Dispatchers, NEW at \in States, NEW j \in Dispatch,
           pc' = [pc EXCEPT ![d] = at], job' = [job EXCEPT ![d] = j],
           UNCHANGED <<clock, quiet, posting>>,
           fired' \in 0..MaxTime,
           note' \in [Pairs -> [status : {"none", "pending", "sent", "failed"},
                                scheduled : 0..(MaxTime + Day),
                                sent : {Never} \cup 0..MaxTime]],
           subscription' \in [Endpoints -> Row],
           acknowledged' \cup settled' \subseteq Pairs,
           acknowledged \subseteq acknowledged',
           DispatchFine(d)',
           \A x \in Pairs : PairFine(x)'
    PROVE  IInv'
<1>1. /\ RowsOK
      /\ job \in [Dispatchers -> Dispatch]
      /\ SeenInPast
      /\ \A e \in Dispatchers : DispatchFine(e)
  BY DEF IInv
<1>2. /\ pc' \in [Dispatchers -> States]
      /\ job' \in [Dispatchers -> Dispatch]
      /\ \A e \in Dispatchers \ {d} : pc'[e] = pc[e] /\ job'[e] = job[e]
  BY <1>1, OneMoves DEF RowsOK
<1>3. ASSUME NEW e \in Dispatchers
      PROVE  /\ job'[e].channels \subseteq Channels
             /\ job'[e].queue \cup job'[e].claim \subseteq Pairs
             /\ job'[e].attempts \in 0..(RetryAttempts - 1)
  BY <1>2 DEF Dispatch
<1>4. RowsOK'
  BY <1>1, <1>2, <1>3 DEF RowsOK, States, Row
<1>5. ASSUME NEW e \in Dispatchers
      PROVE  DispatchFine(e)'
  BY <1>1, <1>2, FineKept
<1>6. SeenInPast'
  BY <1>1 DEF SeenInPast
<1>7. QED
  BY <1>2, <1>4, <1>5, <1>6 DEF IInv

-----------------------------------------------------------------------------
(* The steps of a dispatch. *)

LEMMA InitInv == Init => IInv
<1> SUFFICES ASSUME Init PROVE IInv
  OBVIOUS
<1>1. RowsOK
  <2>1. 0 \in 0..MaxTime /\ 0 \in 0..(MaxTime + Day) /\ 0 \in 0..(RetryAttempts - 1)
    BY DispatchConstantsOK
  <2>2. \A d \in Dispatchers : job[d] = NoJob
    BY DEF Init
  <2>3. NoJob.channels = {} /\ NoJob.queue = {} /\ NoJob.claim = {} /\ NoJob.attempts = 0
    BY DEF NoJob
  <2>4. \A d \in Dispatchers :
           /\ job[d].channels \subseteq Channels
           /\ job[d].queue \cup job[d].claim \subseteq Pairs
           /\ job[d].attempts \in 0..(RetryAttempts - 1)
    BY <2>1, <2>2, <2>3
  <2>5. QED
    BY <2>1, <2>4 DEF Init, RowsOK, States, Row, Unseen, NoNote, Inactive
<1>2. job \in [Dispatchers -> Dispatch]
  BY NoJobFacts DEF Init
<1>3. ASSUME NEW d \in Dispatchers
      PROVE  DispatchFine(d)
  BY NoJobFacts DEF Init, DispatchFine
<1>4. ASSUME NEW x \in Pairs
      PROVE  PairFine(x)
  BY DEF Init, PairFine, NoNote
<1>5. SeenInPast
  BY DEF Init, SeenInPast, Unseen
<1>6. QED
  BY <1>1, <1>2, <1>3, <1>4, <1>5 DEF IInv

\* A pair's row stays fine while time, postings and rows stay.
LEMMA PairsKept ==
    ASSUME NEW x \in Pairs, PairFine(x), UNCHANGED <<clock, posting, settled>>,
           note'[x] = note[x], acknowledged \subseteq acknowledged'
    PROVE  PairFine(x)'
BY DEF PairFine

\* Steps that write no row: the new place and locals of the dispatch suffice.
LEMMA ReadInv ==
    ASSUME IInv,
           NEW d \in Dispatchers, NEW at \in States, NEW j \in Dispatch,
           pc' = [pc EXCEPT ![d] = at], job' = [job EXCEPT ![d] = j],
           UNCHANGED <<clock, rows, settled>>,
           fired' \in 0..MaxTime,
           acknowledged' \subseteq Pairs,
           acknowledged \subseteq acknowledged',
           DispatchFine(d)'
    PROVE  IInv'
<1>1. \A x \in Pairs : PairFine(x)'
  BY PairsKept DEF IInv, rows
<1>2. /\ UNCHANGED <<clock, quiet, posting, note, subscription, settled>>
      /\ note' \in [Pairs -> [status : {"none", "pending", "sent", "failed"},
                                scheduled : 0..(MaxTime + Day),
                                sent : {Never} \cup 0..MaxTime]]
      /\ subscription' \in [Endpoints -> Row]
      /\ acknowledged' \cup settled' \subseteq Pairs
  BY DEF IInv, RowsOK, rows, Row
<1>3. QED
  BY <1>1, <1>2, MoveInv

\* A dispatch that ends is fine.
LEMMA EndInv ==
    ASSUME IInv, NEW d \in Dispatchers,
           pc' = [pc EXCEPT ![d] = "idle"], job' = [job EXCEPT ![d] = NoJob],
           UNCHANGED <<time, rows, history>>
    PROVE  IInv'
<1>1. UNCHANGED <<clock, fired, rows, acknowledged, settled>>
  BY DEF time, history
<1>2. fired' \in 0..MaxTime /\ acknowledged' \subseteq Pairs
  BY <1>1 DEF IInv, RowsOK
<1>3. pc'[d] = "idle" /\ job'[d] = NoJob
  BY NoJobFacts, OneMoves DEF IInv, RowsOK, States
<1>4. DispatchFine(d)'
  BY <1>3, NoJobFacts DEF DispatchFine
<1>5. "idle" \in States
  BY DEF States
<1>6. QED
  BY <1>1, <1>2, <1>4, <1>5, NoJobFacts, ReadInv

LEMMA StartInv ==
    ASSUME IInv, NEW d \in Dispatchers, Start(d)
    PROVE  IInv'
<1>1. PICK force \in BOOLEAN, channels \in SUBSET Channels :
        /\ job' = [job EXCEPT ![d] =
             [NoJob EXCEPT !.now = clock, !.force = force,
                           !.channels = channels,
                           !.endpoints = ActiveEndpoints]]
        /\ pc' = [pc EXCEPT ![d] = "selecting"]
        /\ UNCHANGED <<clock, rows, history>>
  BY DEF Start, DispatchDaily, DispatchNow, Assemble
<1> DEFINE j == [NoJob EXCEPT !.now = clock, !.force = force,
                              !.channels = channels,
                              !.endpoints = ActiveEndpoints]
<1>2. clock \in 0..MaxTime /\ fired \in 0..MaxTime
  BY DEF IInv, RowsOK
<1>3. j \in Dispatch /\ j.now = clock /\ j.claim = {}
  BY <1>2, NoJobFacts DEF Dispatch, ActiveEndpoints, NoJob
<1>4. job' = [job EXCEPT ![d] = j]
  BY <1>1
<1> HIDE DEF j
<1>5. "selecting" \in States
  BY DEF States
<1>6. pc'[d] = "selecting" /\ job'[d] = j
  BY <1>1, <1>3, <1>4, <1>5, OneMoves DEF IInv, RowsOK
<1>7. DispatchFine(d)'
  <2>1. clock <= clock /\ clock <= clock + DispatchTime
    BY <1>2, DispatchConstantsOK
  <2>2. clock' = clock
    BY <1>1
  <2>3. QED
    BY <1>3, <1>6, <2>1, <2>2 DEF DispatchFine
<1>8. fired' \in 0..MaxTime
  BY <1>2 DEF Start, DispatchDaily, DispatchNow
<1>9. UNCHANGED <<clock, rows, acknowledged, settled>> /\ acknowledged \subseteq Pairs
  BY <1>1 DEF history, IInv, RowsOK
<1>10. QED
  BY <1>1, <1>3, <1>4, <1>5, <1>7, <1>8, <1>9, ReadInv

LEMMA SelectInv ==
    ASSUME IInv, NEW d \in Dispatchers, Select(d)
    PROVE  IInv'
<1> DEFINE q == {x \in Pairs : /\ x[2] \in job[d].channels
                               /\ IsCandidate(x[1], x[2], job[d].now)}
           j == [job[d] EXCEPT !.queue = q]
<1>1. /\ pc[d] = "selecting"
      /\ job' = [job EXCEPT ![d] = j]
      /\ pc' = [pc EXCEPT ![d] = "queueing"]
      /\ UNCHANGED <<clock, fired, rows, acknowledged, settled>>
  BY DEF Select, time, history
<1>2. job[d] \in Dispatch /\ DispatchFine(d)
  BY DEF IInv
<1>3. ASSUME NEW x \in q
      PROVE  /\ posting[x[1]].status # "unseen"
             /\ posting[x[1]].firstSeen >= job[d].now - Lookback
  BY DEF IsCandidate
<1>4. q \in SUBSET Pairs
  OBVIOUS
<1> HIDE DEF q
<1>5. j \in Dispatch /\ j.queue = q /\ j.now = job[d].now /\ j.claim = job[d].claim
  BY <1>2, <1>4 DEF Dispatch
<1> HIDE DEF j
<1>6. "queueing" \in States
  BY DEF States
<1>7. pc'[d] = "queueing" /\ job'[d] = j
  BY <1>1, <1>5, <1>6, OneMoves DEF IInv, RowsOK
<1>8. DispatchFine(d)'
  BY <1>1, <1>2, <1>3, <1>5, <1>7 DEF DispatchFine, rows
<1>9. fired' \in 0..MaxTime /\ acknowledged' \subseteq Pairs
  BY <1>1 DEF IInv, RowsOK
<1>10. QED
  BY <1>1, <1>5, <1>6, <1>8, <1>9, ReadInv

LEMMA ListDueInv ==
    ASSUME IInv, NEW d \in Dispatchers, ListDue(d)
    PROVE  IInv'
<1>1. CASE job[d].channels = {}
  BY <1>1, EndInv DEF ListDue
<1>2. CASE job[d].channels # {}
  <2> DEFINE c   == NextChannel(job[d].channels)
             due == Due(c, job[d].now)
             j   == [job[d] EXCEPT !.channels = @ \ {c}, !.channel = c, !.claim = due,
                                   !.endpoints = IF due = {} THEN {} ELSE @]
             at  == IF due = {} THEN "listing" ELSE "sending"
  <2>1. /\ pc[d] = "listing"
        /\ job' = [job EXCEPT ![d] = j]
        /\ pc' = [pc EXCEPT ![d] = at]
        /\ UNCHANGED <<clock, fired, rows, acknowledged, settled>>
    <3>1. pc[d] = "listing" /\ UNCHANGED <<clock, fired, rows, acknowledged, settled>>
      BY DEF ListDue, time, history
    <3>2. pc' = [pc EXCEPT ![d] = at]
      BY <1>2 DEF ListDue
    <3>3. job' = [job EXCEPT ![d] = j]
      BY <1>2 DEF ListDue
    <3>4. QED
      BY <3>1, <3>2, <3>3
  <2>2. job[d] \in Dispatch /\ DispatchFine(d)
    BY DEF IInv
  <2>3. c \in {Kakao, WebPush} /\ due \in SUBSET Pairs
    BY DEF NextChannel, Due
  <2> HIDE DEF c, due
  <2>4. /\ j \in Dispatch
        /\ j.now = job[d].now
        /\ j.force = job[d].force
        /\ j.claim = due
    BY <2>2, <2>3 DEF Dispatch
  <2>5. at \in States /\ at \in {"listing", "sending"} /\ (at = "listing" => due = {})
    BY DEF States
  <2> HIDE DEF j, at
  <2>6. pc'[d] = at /\ job'[d] = j
    BY <2>1, <2>4, <2>5, OneMoves DEF IInv, RowsOK
  <2>7. ~Deferred(d)'
    BY <2>1, <2>2, <2>4, <2>6 DEF DispatchFine, Deferred, IsQuiet, HourOf, rows
  <2>8. DispatchFine(d)'
    BY <2>1, <2>2, <2>4, <2>5, <2>6, <2>7 DEF DispatchFine
  <2>9. fired' \in 0..MaxTime /\ acknowledged' \subseteq Pairs
    BY <2>1 DEF IInv, RowsOK
  <2>10. QED
    BY <2>1, <2>4, <2>5, <2>8, <2>9, ReadInv
<1>3. QED
  BY <1>1, <1>2

LEMMA ResultFacts ==
    ASSUME NEW d \in Dispatchers, job[d] \in Dispatch, NEW r \in Results(d)
    PROVE  r \in Answer
<1>1. job[d].endpoints \subseteq Endpoints
  BY DEF Dispatch
<1>2. CASE job[d].channel = WebPush
  BY <1>1, <1>2 DEF Results, PushResults, Answer
<1>3. CASE job[d].channel # WebPush
  <2>1. PICK ok \in BOOLEAN : r = [NoResult EXCEPT !.ok = ok]
    BY <1>3 DEF Results
  <2>2. QED
    BY <2>1 DEF NoResult, Answer
<1>4. QED
  BY <1>2, <1>3

LEMMA AttemptInv ==
    ASSUME IInv, NEW d \in Dispatchers, Attempt(d)
    PROVE  IInv'
<1>1. PICK r \in Results(d) :
        /\ acknowledged' = IF r.ok THEN acknowledged \cup job[d].claim
                           ELSE acknowledged
        /\ \/ /\ Resend(r.ok, job[d].attempts + 1)
              /\ job' = [job EXCEPT ![d].attempts = @ + 1]
              /\ UNCHANGED pc
           \/ /\ ~Resend(r.ok, job[d].attempts + 1)
              /\ job' = [job EXCEPT ![d] =
                   [@ EXCEPT !.attempts = 0, !.result = r, !.read = ReadAgain(r)]]
              /\ pc' = [pc EXCEPT ![d] = "recording"]
  BY DEF Attempt
<1>2. /\ job[d] \in Dispatch
      /\ DispatchFine(d)
      /\ pc \in [Dispatchers -> States]
      /\ job \in [Dispatchers -> Dispatch]
      /\ subscription \in [Endpoints -> Row]
  BY DEF IInv, RowsOK
<1>3. r \in Answer /\ ReadAgain(r) \in [Endpoints -> Row]
  BY <1>2, ResultFacts DEF ReadAgain, Inactive, Row
<1>4. /\ pc[d] = "sending"
      /\ UNCHANGED <<clock, fired, rows, settled>>
  BY DEF Attempt, time
<1>5. /\ fired' \in 0..MaxTime
      /\ acknowledged' \subseteq Pairs
      /\ acknowledged \subseteq acknowledged'
      /\ r.ok => job[d].claim \subseteq acknowledged'
  BY <1>1, <1>2, <1>4 DEF IInv, RowsOK, Dispatch
<1>6. CASE Resend(r.ok, job[d].attempts + 1)
  <2> DEFINE j == [job[d] EXCEPT !.attempts = @ + 1]
  <2>1. job' = [job EXCEPT ![d] = j] /\ pc' = [pc EXCEPT ![d] = "sending"]
    BY <1>1, <1>2, <1>4, <1>6
  <2>2. job[d].attempts + 1 \in 0..(RetryAttempts - 1)
    BY <1>2, <1>6, DispatchConstantsOK DEF Resend, Dispatch
  <2>3. /\ j \in Dispatch
        /\ j.now = job[d].now /\ j.force = job[d].force /\ j.claim = job[d].claim
    BY <1>2, <2>2 DEF Dispatch
  <2> HIDE DEF j
  <2>4. "sending" \in States
    BY DEF States
  <2>5. pc'[d] = "sending" /\ job'[d] = j
    BY <1>2, <2>1, <2>3, <2>4, OneMoves
  <2>6. ~Deferred(d)'
    BY <1>2, <1>4, <2>3, <2>5 DEF DispatchFine, Deferred, IsQuiet, HourOf, rows
  <2>7. DispatchFine(d)'
    BY <1>2, <1>4, <2>3, <2>5, <2>6 DEF DispatchFine
  <2>8. QED
    BY <1>4, <1>5, <2>1, <2>3, <2>4, <2>7, ReadInv
<1>7. CASE ~Resend(r.ok, job[d].attempts + 1)
  <2> DEFINE j == [job[d] EXCEPT !.attempts = 0, !.result = r, !.read = ReadAgain(r)]
  <2>1. job' = [job EXCEPT ![d] = j] /\ pc' = [pc EXCEPT ![d] = "recording"]
    BY <1>1, <1>7
  <2>2. 0 \in 0..(RetryAttempts - 1)
    BY DispatchConstantsOK
  <2>3. /\ j \in Dispatch
        /\ j.now = job[d].now /\ j.force = job[d].force
        /\ j.claim = job[d].claim /\ j.result = r
    BY <1>2, <1>3, <2>2 DEF Dispatch
  <2> HIDE DEF j
  <2>4. "recording" \in States
    BY DEF States
  <2>5. pc'[d] = "recording" /\ job'[d] = j
    BY <1>2, <2>1, <2>3, <2>4, OneMoves
  <2>6. ~Deferred(d)'
    BY <1>2, <1>4, <2>3, <2>5 DEF DispatchFine, Deferred, IsQuiet, HourOf, rows
  <2>7. DispatchFine(d)'
    BY <1>2, <1>4, <1>5, <2>3, <2>5, <2>6 DEF DispatchFine
  <2>8. QED
    BY <1>4, <1>5, <2>1, <2>3, <2>4, <2>7, ReadInv
<1>8. QED
  BY <1>6, <1>7

LEMMA RaisesInv ==
    ASSUME IInv, NEW d \in Dispatchers, AttemptRaises(d)
    PROVE  IInv'
BY EndInv DEF AttemptRaises

\* What is queued and can be inserted has its posting, and was never settled:
\* what retention has forgotten is too old by then.
LEMMA QueuedIsNew ==
    ASSUME IInv, NEW d \in Dispatchers, pc[d] = "queueing",
           NEW x \in job[d].queue, CanInsert(x)
    PROVE  /\ x \in Pairs
           /\ posting[x[1]].status = "present"
           /\ x \notin settled
<1>1. /\ job[d] \in Dispatch
      /\ DispatchFine(d)
      /\ clock \in 0..MaxTime
  BY DEF IInv, RowsOK
<1>2. x \in Pairs /\ x[1] \in Postings
  BY <1>1 DEF Dispatch, Pairs
<1>3. PairFine(x) /\ posting[x[1]] \in [status : {"unseen", "present", "deleted"},
                                       wanted : BOOLEAN, firstSeen : 0..MaxTime]
  BY <1>2 DEF IInv, RowsOK
<1>4. posting[x[1]].status = "present" /\ note[x].status = "none"
  BY <1>1, <1>3 DEF DispatchFine, CanInsert
<1>5. posting[x[1]].firstSeen >= job[d].now - Lookback /\ clock <= job[d].now + DispatchTime
  BY <1>1, <1>4 DEF DispatchFine
<1>6. /\ {Lookback, Keep, DispatchTime, MaxTime} \subseteq Nat
      /\ Lookback + 2 * DispatchTime <= Keep
      /\ job[d].now \in 0..MaxTime
      /\ posting[x[1]].firstSeen \in 0..MaxTime
  BY <1>1, <1>3, DispatchConstantsOK DEF Dispatch
<1>7. ~(posting[x[1]].firstSeen < clock - Keep + DispatchTime)
  BY <1>1, <1>5, <1>6
<1>8. QED
  BY <1>2, <1>3, <1>4, <1>7 DEF PairFine

LEMMA EnqueueInv ==
    ASSUME IInv, NEW d \in Dispatchers, Enqueue(d)
    PROVE  IInv'
<1>1. CASE ~\A x \in job[d].queue : CanInsert(x)
  <2>1. /\ pc' = [pc EXCEPT ![d] = "idle"]
        /\ job' = [job EXCEPT ![d] = NoJob]
        /\ UNCHANGED <<time, rows, history>>
    BY <1>1 DEF Enqueue, rows
  <2>2. QED
    BY <2>1, EndInv
<1>2. CASE \A x \in job[d].queue : CanInsert(x)
  <2>1. /\ pc[d] = "queueing"
        /\ job[d] \in Dispatch
        /\ DispatchFine(d)
        /\ quiet \in QuietSettings
        /\ UNCHANGED <<clock, fired, quiet, posting, subscription, acknowledged, settled>>
    BY DEF Enqueue, IInv, RowsOK, time, history
  <2> DEFINE due == IF Deferred(d) THEN QuietUntil(job[d].now) ELSE 0
             n   == [NoNote EXCEPT !.status = "pending", !.scheduled = due]
  <2>2. due \in 0..(MaxTime + Day)
    BY <2>1, QuietUntilType, DispatchConstantsOK DEF Dispatch
  <2>3. note' = [x \in Pairs |-> IF x \in job[d].queue THEN n ELSE note[x]]
    BY <1>2 DEF Enqueue
  <2> HIDE DEF due
  <2>4. /\ n.status = "pending" /\ n.sent = Never
        /\ n \in [status : {"none", "pending", "sent", "failed"},
                  scheduled : 0..(MaxTime + Day), sent : {Never} \cup 0..MaxTime]
    BY <2>2 DEF NoNote
  <2> HIDE DEF n
  <2>5. note' \in [Pairs -> [status : {"none", "pending", "sent", "failed"},
                            scheduled : 0..(MaxTime + Day),
                            sent : {Never} \cup 0..MaxTime]]
    BY <2>3, <2>4 DEF IInv, RowsOK
  <2>6. ASSUME NEW x \in Pairs
        PROVE  PairFine(x)'
    <3>1. PairFine(x)
      BY DEF IInv
    <3>2. CASE x \in job[d].queue
      <4>1. note'[x] = n /\ posting[x[1]].status = "present" /\ x \notin settled
        BY <1>2, <2>1, <2>3, <3>2, QueuedIsNew
      <4>2. QED
        BY <2>1, <2>4, <4>1 DEF PairFine
    <3>3. CASE x \notin job[d].queue
      BY <2>1, <2>3, <3>1, <3>3, PairsKept
    <3>4. QED
      BY <3>2, <3>3
  <2>7. /\ fired' \in 0..MaxTime
        /\ subscription' \in [Endpoints -> Row]
        /\ acknowledged' \cup settled' \subseteq Pairs
        /\ acknowledged \subseteq acknowledged'
        /\ UNCHANGED <<clock, quiet, posting>>
    BY <2>1 DEF IInv, RowsOK, Row
  <2>8. CASE Deferred(d)
    <3>1. pc' = [pc EXCEPT ![d] = "idle"] /\ job' = [job EXCEPT ![d] = NoJob]
      BY <1>2, <2>8 DEF Enqueue
    <3>2. "idle" \in States
      BY DEF States
    <3>3. pc'[d] = "idle" /\ job'[d] = NoJob
      BY <3>1, <3>2, NoJobFacts, OneMoves DEF IInv, RowsOK
    <3>4. DispatchFine(d)'
      BY <3>3, NoJobFacts DEF DispatchFine
    <3>5. QED
      BY <2>5, <2>6, <2>7, <3>1, <3>2, <3>4, NoJobFacts, MoveInv
  <2>9. CASE ~Deferred(d)
    <3> DEFINE j == [job[d] EXCEPT !.queue = {}]
    <3>1. pc' = [pc EXCEPT ![d] = "listing"] /\ job' = [job EXCEPT ![d] = j]
      BY <1>2, <2>9 DEF Enqueue
    <3>2. /\ j \in Dispatch
          /\ j.now = job[d].now /\ j.force = job[d].force /\ j.claim = job[d].claim
      BY <2>1 DEF Dispatch
    <3> HIDE DEF j
    <3>3. "listing" \in States
      BY DEF States
    <3>4. pc'[d] = "listing" /\ job'[d] = j
      BY <3>1, <3>2, <3>3, OneMoves DEF IInv, RowsOK
    <3>5. ~Deferred(d)'
      BY <2>1, <2>9, <3>2, <3>4 DEF Deferred, IsQuiet, HourOf
    <3>6. DispatchFine(d)'
      BY <2>1, <3>2, <3>4, <3>5 DEF DispatchFine
    <3>7. QED
      BY <2>5, <2>6, <2>7, <3>1, <3>2, <3>3, <3>6, MoveInv
  <2>10. QED
    BY <2>8, <2>9
<1>3. QED
  BY <1>1, <1>2

LEMMA AppliedType ==
    ASSUME subscription \in [Endpoints -> Row],
           NEW read \in [Endpoints -> Row], NEW r \in Answer
    PROVE  Applied(r, read) \in [Endpoints -> Row]
<1>1. ASSUME NEW e \in Endpoints
      PROVE  Applied(r, read)[e] \in Row
  <2>1. read[e] \in Row /\ subscription[e] \in Row
    OBVIOUS
  <2>2. read[e].failures + 1 \in Nat
    BY <2>1 DEF Row
  <2>3. Punished(read[e]) \in Row
    BY <2>1, <2>2 DEF Punished, Row
  <2>4. ~(e \in r.invalid /\ e \in r.failed)
    BY DEF Answer
  <2>5. CASE e \in r.invalid /\ read[e].active
    <3>1. Applied(r, read)[e] = [subscription[e] EXCEPT !.active = FALSE]
      BY <2>4, <2>5 DEF Applied
    <3>2. QED
      BY <2>1, <3>1 DEF Row
  <2>6. CASE e \in r.failed
    <3> DEFINE a == IF Punished(read[e]).active = read[e].active
                    THEN subscription[e].active ELSE FALSE
    <3>1. Applied(r, read)[e] = [active |-> a, failures |-> Punished(read[e]).failures]
      BY <2>4, <2>6 DEF Applied
    <3>2. a \in BOOLEAN /\ Punished(read[e]).failures \in Nat
      BY <2>1, <2>3 DEF Row
    <3> HIDE DEF a
    <3>3. [active |-> a, failures |-> Punished(read[e]).failures] \in Row
      BY <3>2 DEF Row
    <3>4. QED
      BY <3>1, <3>3
  <2>7. CASE ~(e \in r.invalid /\ read[e].active) /\ e \notin r.failed
    <3>1. Applied(r, read)[e] = subscription[e]
      BY <2>7 DEF Applied
    <3>2. QED
      BY <2>1, <3>1
  <2>8. QED
    BY <2>5, <2>6, <2>7
<1>2. QED
  BY <1>1 DEF Applied

LEMMA RecordInv ==
    ASSUME IInv, NEW d \in Dispatchers, Record(d)
    PROVE  IInv'
<1>1. CASE \E x \in job[d].claim : note[x].status = "none"
  <2>1. /\ pc' = [pc EXCEPT ![d] = "idle"]
        /\ job' = [job EXCEPT ![d] = NoJob]
        /\ UNCHANGED <<time, rows, history>>
    BY <1>1 DEF Record, rows, history
  <2>2. QED
    BY <2>1, EndInv
<1>2. CASE \A x \in job[d].claim : note[x].status # "none"
  <2> DEFINE ok   == job[d].result.ok
             n(x) == [note[x] EXCEPT !.status = Outcome(job[d].result),
                                     !.sent = IF ok THEN job[d].now ELSE @]
             j    == [job[d] EXCEPT !.claim = {}, !.endpoints = {},
                                    !.result = NoResult, !.read = NothingRead]
  <2>1. /\ pc[d] = "recording"
        /\ note' = [x \in Pairs |-> IF x \in job[d].claim THEN n(x) ELSE note[x]]
        /\ subscription' = Applied(job[d].result, job[d].read)
        /\ pc' = [pc EXCEPT ![d] = "listing"]
        /\ job' = [job EXCEPT ![d] = j]
        /\ settled' = settled \cup job[d].claim
        /\ UNCHANGED <<clock, fired, quiet, posting, acknowledged>>
    BY <1>2 DEF Record, time
  <2>2. /\ job[d] \in Dispatch
        /\ DispatchFine(d)
        /\ SeenInPast
        /\ clock \in 0..MaxTime
        /\ subscription \in [Endpoints -> Row]
    BY DEF IInv, RowsOK, Row
  <2>3. /\ ok \in BOOLEAN /\ job[d].now \in 0..MaxTime
        /\ job[d].claim \subseteq Pairs
        /\ job[d].result \in Answer /\ job[d].read \in [Endpoints -> Row]
        /\ Outcome(job[d].result) \in {"sent", "failed"}
        /\ Outcome(job[d].result) = "sent" => ok
    BY <2>2 DEF Dispatch, Answer, Outcome
  <2>4. ok => job[d].claim \subseteq acknowledged
    BY <2>1, <2>2 DEF DispatchFine
  <2>5. ASSUME NEW x \in Pairs
        PROVE  /\ n(x) \in [status : {"none", "pending", "sent", "failed"},
                            scheduled : 0..(MaxTime + Day),
                            sent : {Never} \cup 0..MaxTime]
               /\ n(x).status = Outcome(job[d].result)
               /\ n(x).sent = IF ok THEN job[d].now ELSE note[x].sent
    <3>1. note[x] \in [status : {"none", "pending", "sent", "failed"},
                       scheduled : 0..(MaxTime + Day),
                       sent : {Never} \cup 0..MaxTime]
      BY DEF IInv, RowsOK
    <3>2. QED
      BY <2>3, <3>1
  <2> HIDE DEF n, ok
  <2>6. note' \in [Pairs -> [status : {"none", "pending", "sent", "failed"},
                            scheduled : 0..(MaxTime + Day),
                            sent : {Never} \cup 0..MaxTime]]
    BY <2>1, <2>5 DEF IInv, RowsOK
  <2>7. ASSUME NEW x \in Pairs
        PROVE  PairFine(x)'
    <3>1. PairFine(x) /\ x[1] \in Postings
      BY DEF IInv, Pairs
    <3>2. CASE x \in job[d].claim
      <4>1. note'[x] = n(x) /\ x \in settled' /\ posting'[x[1]] = posting[x[1]]
        BY <2>1, <3>2
      <4>2. posting[x[1]].status = "present"
        BY <1>2, <3>1, <3>2 DEF PairFine
      <4>3. /\ note'[x].status \in {"sent", "failed"}
            /\ note'[x].status = "sent" => x \in acknowledged
        BY <2>3, <2>4, <2>5, <3>2, <4>1
      <4>4. CASE ok
        <5>1. note'[x].sent = job[d].now /\ x \in acknowledged
          BY <2>4, <2>5, <3>2, <4>1, <4>4
        <5>2. /\ posting[x[1]].firstSeen <= clock
              /\ clock <= job[d].now + DispatchTime
          BY <2>1, <2>2, <3>1, <4>2 DEF SeenInPast, DispatchFine
        <5>3. posting[x[1]].firstSeen \in 0..MaxTime
          BY <3>1 DEF IInv, RowsOK
        <5>4. posting[x[1]].firstSeen <= job[d].now + DispatchTime
          BY <2>2, <2>3, <5>2, <5>3, DispatchConstantsOK
        <5>5. QED
          BY <2>1, <4>1, <4>2, <4>3, <5>1, <5>4 DEF PairFine
      <4>5. CASE ~ok
        <5>1. note'[x].sent = note[x].sent
          BY <2>5, <4>1, <4>5
        <5>2. QED
          BY <2>1, <3>1, <4>1, <4>2, <4>3, <5>1 DEF PairFine
      <4>6. QED
        BY <4>4, <4>5
    <3>3. CASE x \notin job[d].claim
      <4>1. note'[x] = note[x] /\ (x \in settled' <=> x \in settled)
        BY <2>1, <3>3
      <4>2. QED
        BY <2>1, <3>1, <4>1 DEF PairFine
    <3>4. QED
      BY <3>2, <3>3
  <2>8. /\ j \in Dispatch
        /\ j.now = job[d].now /\ j.force = job[d].force /\ j.claim = {}
    <3>1. NoResult \in Answer /\ NothingRead \in [Endpoints -> Row]
      BY DEF NoResult, Answer, NothingRead, Inactive, Row
    <3>2. QED
      BY <2>2, <3>1 DEF Dispatch
  <2> HIDE DEF j
  <2>9. "listing" \in States
    BY DEF States
  <2>10. pc'[d] = "listing" /\ job'[d] = j
    BY <2>1, <2>8, <2>9, OneMoves DEF IInv, RowsOK
  <2>11. ~Deferred(d)'
    BY <2>1, <2>2, <2>8, <2>10 DEF DispatchFine, Deferred, IsQuiet, HourOf
  <2>12. DispatchFine(d)'
    BY <2>1, <2>2, <2>8, <2>10, <2>11 DEF DispatchFine
  <2>13. subscription' \in [Endpoints -> Row]
    BY <2>1, <2>2, <2>3, AppliedType
  <2>14. /\ fired' \in 0..MaxTime
         /\ acknowledged' \cup settled' \subseteq Pairs
         /\ acknowledged \subseteq acknowledged'
         /\ UNCHANGED <<clock, quiet, posting>>
    BY <2>1, <2>3 DEF IInv, RowsOK
  <2>15. QED
    BY <2>1, <2>6, <2>7, <2>8, <2>9, <2>12, <2>13, <2>14, MoveInv
<1>3. QED
  BY <1>1, <1>2

LEMMA CrashInv ==
    ASSUME IInv, NEW process, Crash(process)
    PROVE  IInv'
<1>1. /\ pc' = [d \in Dispatchers |-> IF d \in process THEN "idle" ELSE pc[d]]
      /\ job' = [d \in Dispatchers |-> IF d \in process THEN NoJob ELSE job[d]]
      /\ UNCHANGED <<clock, fired, quiet, posting, note, subscription,
                     acknowledged, settled>>
  BY DEF Crash, time, rows, history
<1>2. job' \in [Dispatchers -> Dispatch]
  BY <1>1, NoJobFacts DEF IInv
<1>3. pc' \in [Dispatchers -> States]
  BY <1>1 DEF IInv, RowsOK, States
<1>4. ASSUME NEW d \in Dispatchers
      PROVE  /\ job'[d].channels \subseteq Channels
             /\ job'[d].queue \cup job'[d].claim \subseteq Pairs
             /\ job'[d].attempts \in 0..(RetryAttempts - 1)
  BY <1>2 DEF Dispatch
<1>5. RowsOK'
  BY <1>1, <1>3, <1>4 DEF IInv, RowsOK, States
<1>6. ASSUME NEW d \in Dispatchers
      PROVE  DispatchFine(d)'
  <2>1. CASE d \in process
    <3>1. pc'[d] = "idle" /\ job'[d] = NoJob
      BY <1>1, <2>1
    <3>2. QED
      BY <3>1, NoJobFacts DEF DispatchFine
  <2>2. CASE d \notin process
    BY <1>1, <2>2, FineKept DEF IInv
  <2>3. QED
    BY <2>1, <2>2
<1>7. \A x \in Pairs : PairFine(x)'
  BY <1>1, PairsKept DEF IInv
<1>8. SeenInPast'
  BY <1>1 DEF IInv, SeenInPast
<1>9. QED
  BY <1>2, <1>5, <1>6, <1>7, <1>8 DEF IInv

-----------------------------------------------------------------------------
(* Everybody else's steps. *)

LEMMA PostingInv ==
    ASSUME IInv, NEW p \in Postings, Collect(p) \/ Recollect(p) \/ Discard(p)
    PROVE  IInv'
<1> DEFINE Kind == [status : {"unseen", "present", "deleted"},
                    wanted : BOOLEAN, firstSeen : 0..MaxTime]
           NoteType == [status : {"none", "pending", "sent", "failed"},
                        scheduled : 0..(MaxTime + Day),
                        sent : {Never} \cup 0..MaxTime]
<1>1. /\ UNCHANGED <<clock, fired, quiet, subscription, pc, job, acknowledged, settled>>
      /\ posting \in [Postings -> Kind] /\ note \in [Pairs -> NoteType]
      /\ clock \in 0..MaxTime
  BY DEF IInv, RowsOK, Collect, Recollect, Discard, time, history
<1>2. /\ posting' = [posting EXCEPT ![p] = posting'[p]]
      /\ posting'[p] \in Kind
      /\ posting'[p].status # "unseen"
      /\ posting'[p].status = "present" => posting'[p].firstSeen <= clock
      /\ posting[p].status \in {"unseen", "present"}
      /\ posting[p].status = "present" /\ posting'[p].status = "present" =>
           posting'[p].firstSeen = posting[p].firstSeen
  <2>1. CASE Collect(p)
    <3>1. PICK wanted \in BOOLEAN, begun \in (clock - CrawlTime)..clock :
            /\ begun >= 0
            /\ posting' = [posting EXCEPT ![p] =
                 [status |-> "present", wanted |-> wanted, firstSeen |-> begun]]
            /\ posting[p].status = "unseen"
      BY <2>1 DEF Collect
    <3>2. begun \in 0..MaxTime /\ begun <= clock
      BY <1>1, <3>1, DispatchConstantsOK
    <3>3. posting'[p] = [status |-> "present", wanted |-> wanted, firstSeen |-> begun]
      BY <1>1, <3>1
    <3>4. QED
      BY <1>1, <3>1, <3>2, <3>3
  <2>2. CASE Recollect(p)
    <3> DEFINE r == [posting[p] EXCEPT !.wanted = ~@]
    <3>1. posting[p].status = "present" /\ posting' = [posting EXCEPT ![p] = r]
      BY <2>2 DEF Recollect
    <3>2. /\ r \in Kind /\ r.status = posting[p].status
          /\ r.firstSeen = posting[p].firstSeen
      BY <1>1
    <3> HIDE DEF r
    <3>3. posting'[p] = r /\ posting' = [posting EXCEPT ![p] = posting'[p]]
      BY <1>1, <3>1
    <3>4. posting[p].firstSeen <= clock
      BY <3>1 DEF IInv, SeenInPast
    <3>5. QED
      BY <3>1, <3>2, <3>3, <3>4
  <2>3. CASE Discard(p)
    <3>1. /\ posting[p].status = "present"
          /\ posting' = [posting EXCEPT ![p] = [Unseen EXCEPT !.status = "deleted"]]
      BY <2>3 DEF Discard
    <3>2. 0 \in 0..MaxTime
      BY DispatchConstantsOK
    <3>3. posting'[p] = [Unseen EXCEPT !.status = "deleted"]
      BY <1>1, <3>1
    <3>4. posting'[p] \in Kind /\ posting'[p].status = "deleted"
      BY <3>2, <3>3 DEF Unseen
    <3>5. QED
      BY <1>1, <3>1, <3>3, <3>4
  <2>4. QED
    BY <2>1, <2>2, <2>3
<1>3. /\ posting' \in [Postings -> Kind]
      /\ \A q \in Postings \ {p} : posting'[q] = posting[q]
  BY <1>1, <1>2
<1>4. /\ note' \in [Pairs -> NoteType]
      /\ \A x \in Pairs : \/ note'[x] = note[x]
                          \/ note'[x] = NoNote /\ x[1] = p
      /\ \A x \in Pairs : x[1] = p /\ posting'[p].status # "present" => note'[x] = NoNote
  <2>1. CASE Collect(p) \/ Recollect(p)
    <3>1. note' = note /\ posting'[p].status = "present"
      BY <1>1, <2>1 DEF Collect, Recollect
    <3>2. QED
      BY <1>1, <3>1
  <2>2. CASE Discard(p)
    <3>1. note' = [x \in Pairs |-> IF x[1] = p THEN NoNote ELSE note[x]]
      BY <2>2 DEF Discard
    <3>2. NoNote \in NoteType
      <4>1. 0 \in 0..(MaxTime + Day)
        BY DispatchConstantsOK
      <4>2. QED
        BY <4>1 DEF NoNote
    <3>3. QED
      BY <1>1, <3>1, <3>2
  <2>3. QED
    BY <2>1, <2>2
<1>5. RowsOK'
  BY <1>1, <1>3, <1>4 DEF IInv, RowsOK
<1>6. ASSUME NEW d \in Dispatchers
      PROVE  DispatchFine(d)'
  <2>1. DispatchFine(d) /\ job[d] \in Dispatch
    BY DEF IInv
  <2>2. ASSUME pc[d] = "queueing", NEW x \in job[d].queue
        PROVE  /\ posting'[x[1]].status # "unseen"
               /\ posting'[x[1]].status = "present" =>
                    posting'[x[1]].firstSeen >= job[d].now - Lookback
    <3>1. /\ x[1] \in Postings
          /\ posting[x[1]].status # "unseen"
          /\ posting[x[1]].status = "present" =>
               posting[x[1]].firstSeen >= job[d].now - Lookback
      BY <2>1, <2>2 DEF DispatchFine, Dispatch, Pairs
    <3>2. CASE x[1] = p
      BY <1>2, <3>1, <3>2
    <3>3. CASE x[1] # p
      BY <1>3, <3>1, <3>3
    <3>4. QED
      BY <3>2, <3>3
  <2>3. QED
    BY <1>1, <2>1, <2>2 DEF DispatchFine, Deferred, IsQuiet, HourOf
<1>7. ASSUME NEW x \in Pairs
      PROVE  PairFine(x)'
  <2>1. PairFine(x) /\ x[1] \in Postings
    BY DEF IInv, Pairs
  <2>2. CASE x[1] # p
    BY <1>1, <1>3, <1>4, <2>1, <2>2 DEF PairFine
  <2>3. CASE x[1] = p /\ posting'[p].status # "present"
    <3>1. note'[x] = NoNote
      BY <1>4, <2>3
    <3>2. QED
      BY <1>1, <1>2, <2>3, <3>1 DEF PairFine, NoNote
  <2>4. CASE x[1] = p /\ posting'[p].status = "present"
    <3>1. note'[x] = note[x]
      <4>1. ~Discard(p)
        <5>1. ASSUME posting' = [posting EXCEPT ![p] = [Unseen EXCEPT !.status = "deleted"]]
              PROVE  FALSE
          BY <1>1, <2>4, <5>1 DEF Unseen
        <5>2. QED
          BY <5>1 DEF Discard
      <4>2. QED
        BY <4>1 DEF Collect, Recollect
    <3>2. QED
      BY <1>1, <1>2, <2>1, <2>4, <3>1 DEF PairFine
  <2>5. QED
    BY <2>2, <2>3, <2>4
<1>8. SeenInPast'
  BY <1>1, <1>2, <1>3 DEF IInv, SeenInPast
<1>9. job' \in [Dispatchers -> Dispatch]
  BY <1>1 DEF IInv
<1>10. QED
  BY <1>5, <1>6, <1>7, <1>8, <1>9 DEF IInv

LEMMA RetainInv ==
    ASSUME IInv, Retain
    PROVE  IInv'
<1>1. /\ note' = [x \in Pairs |-> IF Expired(x) THEN NoNote ELSE note[x]]
      /\ UNCHANGED <<clock, fired, quiet, posting, subscription, pc, job,
                     acknowledged, settled>>
  BY DEF Retain, time, history
<1>2. 0 \in 0..(MaxTime + Day)
  BY DispatchConstantsOK
<1>3. NoNote \in [status : {"none", "pending", "sent", "failed"},
                  scheduled : 0..(MaxTime + Day), sent : {Never} \cup 0..MaxTime]
  BY <1>2 DEF NoNote
<1>4. RowsOK'
  BY <1>1, <1>3 DEF IInv, RowsOK
<1>5. \A d \in Dispatchers : DispatchFine(d)'
  BY <1>1, FineKept DEF IInv
<1>6. ASSUME NEW x \in Pairs
      PROVE  PairFine(x)'
  <2>1. PairFine(x) /\ x[1] \in Postings
    BY DEF IInv, Pairs
  <2>2. CASE Expired(x)
    <3>1. note'[x] = NoNote /\ posting[x[1]].firstSeen <= note[x].sent + DispatchTime
      BY <1>1, <2>1, <2>2 DEF PairFine, Expired
    <3>2. /\ note[x].sent < clock - Keep
          /\ note[x].sent \in 0..MaxTime
          /\ posting[x[1]].firstSeen \in 0..MaxTime
          /\ clock \in 0..MaxTime
      BY <2>1, <2>2 DEF Expired, IInv, RowsOK
    <3>3. posting[x[1]].firstSeen < clock - Keep + DispatchTime
      BY <3>1, <3>2, DispatchConstantsOK
    <3>4. QED
      BY <1>1, <2>1, <3>1, <3>3 DEF PairFine, NoNote
  <2>3. CASE ~Expired(x)
    BY <1>1, <2>1, <2>3, PairsKept
  <2>4. QED
    BY <2>2, <2>3
<1>7. SeenInPast' /\ job' \in [Dispatchers -> Dispatch]
  BY <1>1 DEF IInv, SeenInPast
<1>8. QED
  BY <1>4, <1>5, <1>6, <1>7 DEF IInv

\* Browsers and notices change the subscriptions and nothing else.
LEMMA SubscriptionInv ==
    ASSUME IInv, NoticesOK,
           \/ \E e \in Endpoints : Subscribe(e)
           \/ \E n \in Notifiers :
                BeginNotice(n) \/ PushNotice(n) \/ RecordNotice(n) \/ DropNotice(n)
    PROVE  IInv'
<1>1. UNCHANGED <<clock, fired, quiet, posting, note, pc, job, acknowledged, settled>>
  BY DEF Subscribe, BeginNotice, PushNotice, RecordNotice, DropNotice, rows, time, history
<1>2. subscription \in [Endpoints -> Row]
  BY DEF IInv, RowsOK
<1>3. subscription' \in [Endpoints -> Row]
  <2>1. ASSUME NEW e \in Endpoints, Subscribe(e)
        PROVE  subscription' \in [Endpoints -> Row]
    BY <1>2, <2>1 DEF Subscribe, Row
  <2>2. ASSUME NEW n \in Notifiers, RecordNotice(n)
        PROVE  subscription' \in [Endpoints -> Row]
    <3>1. notice[n].result \in Answer /\ notice[n].read \in [Endpoints -> Row]
      BY DEF NoticesOK, Notice
    <3>2. QED
      BY <1>2, <2>2, <3>1, AppliedType DEF RecordNotice
  <2>3. ASSUME NEW n \in Notifiers, BeginNotice(n) \/ PushNotice(n) \/ DropNotice(n)
        PROVE  subscription' \in [Endpoints -> Row]
    BY <1>2, <2>3 DEF BeginNotice, PushNotice, DropNotice, rows
  <2>4. QED
    BY <2>1, <2>2, <2>3
<1>4. RowsOK'
  BY <1>1, <1>3 DEF IInv, RowsOK, Row
<1>5. \A d \in Dispatchers : DispatchFine(d)'
  BY <1>1, FineKept DEF IInv
<1>6. \A x \in Pairs : PairFine(x)'
  BY <1>1, PairsKept DEF IInv
<1>7. QED
  BY <1>1, <1>4, <1>5, <1>6 DEF IInv, SeenInPast

LEMMA TickInv ==
    ASSUME IInv, Tick
    PROVE  IInv'
<1>1. /\ UNCHANGED <<fired, quiet, posting, note, subscription, pc, job,
                     acknowledged, settled>>
      /\ clock < MaxTime
      /\ clock' = clock + 1
      /\ clock \in 0..MaxTime
      /\ \A d \in Dispatchers :
           pc[d] # "idle" => clock < job[d].now + DispatchTime
  BY DEF Tick, rows, history, IInv, RowsOK
<1>2. clock' \in 0..MaxTime /\ clock <= clock'
  BY <1>1, DispatchConstantsOK
<1>3. RowsOK'
  BY <1>1, <1>2 DEF IInv, RowsOK
<1>4. ASSUME NEW d \in Dispatchers
      PROVE  DispatchFine(d)'
  <2>1. DispatchFine(d) /\ job[d].now \in 0..MaxTime
    BY DEF IInv, Dispatch
  <2>2. pc[d] # "idle" => job[d].now <= clock' /\ clock' <= job[d].now + DispatchTime
    BY <1>1, <1>2, <2>1, DispatchConstantsOK DEF DispatchFine
  <2>3. QED
    BY <1>1, <2>1, <2>2 DEF DispatchFine, Deferred, IsQuiet, HourOf
<1>5. ASSUME NEW x \in Pairs
      PROVE  PairFine(x)'
  <2>1. PairFine(x) /\ x[1] \in Postings /\ posting[x[1]].firstSeen \in 0..MaxTime
    BY DEF IInv, RowsOK, Pairs
  <2>2. posting[x[1]].firstSeen < clock - Keep + DispatchTime =>
          posting[x[1]].firstSeen < clock' - Keep + DispatchTime
    BY <1>1, <1>2, <2>1, DispatchConstantsOK
  <2>3. QED
    BY <1>1, <2>1, <2>2 DEF PairFine
<1>6. ASSUME NEW p \in Postings, posting[p].status = "present"
      PROVE  posting[p].firstSeen <= clock'
  <2>1. posting[p].firstSeen <= clock /\ posting[p].firstSeen \in 0..MaxTime
    BY <1>6 DEF IInv, SeenInPast, RowsOK
  <2>2. QED
    BY <1>1, <1>2, <2>1
<1>7. SeenInPast' /\ job' \in [Dispatchers -> Dispatch]
  BY <1>1, <1>6 DEF IInv, SeenInPast
<1>8. QED
  BY <1>3, <1>4, <1>5, <1>7 DEF IInv

LEMMA NextInv == IInv /\ NoticesOK /\ [Next]_vars => IInv'
<1> SUFFICES ASSUME IInv, NoticesOK, [Next]_vars PROVE IInv'
  OBVIOUS
<1>1. ASSUME NEW d \in Dispatchers, Proceed(d)
      PROVE  IInv'
  BY <1>1, SelectInv, EnqueueInv, ListDueInv, AttemptInv, RaisesInv, RecordInv
     DEF Proceed
<1>2. CASE UNCHANGED vars
  <2>1. UNCHANGED <<clock, quiet, posting, note, subscription, fired, pc, job,
                    acknowledged, settled>>
    BY <1>2 DEF vars
  <2>2. RowsOK' /\ SeenInPast' /\ job' \in [Dispatchers -> Dispatch]
    BY <2>1 DEF IInv, RowsOK, SeenInPast
  <2>3. \A d \in Dispatchers : DispatchFine(d)'
    BY <2>1, FineKept DEF IInv
  <2>4. \A x \in Pairs : PairFine(x)'
    BY <2>1, PairsKept DEF IInv
  <2>5. QED
    BY <2>2, <2>3, <2>4 DEF IInv
<1>3. QED
  BY <1>1, <1>2, StartInv, CrashInv, PostingInv, SubscriptionInv, RetainInv, TickInv
     DEF Next

-----------------------------------------------------------------------------
(* The notices. *)

LEMMA NoNoticeType ==
    NoNotice \in Notice /\ NothingRead \in [Endpoints -> Row]
BY DEF NoNotice, Notice, NoResult, Answer, NothingRead, Inactive, Row

LEMMA NoticesInit == Init => NoticesOK
BY NoNoticeType DEF Init, NoticesOK

LEMMA NoticesNext == IInv /\ NoticesOK /\ [Next]_vars => NoticesOK'
<1> SUFFICES ASSUME IInv, NoticesOK, [Next]_vars PROVE NoticesOK'
  OBVIOUS
<1>1. subscription \in [Endpoints -> Row] /\ ActiveEndpoints \in SUBSET Endpoints
  BY DEF IInv, RowsOK, ActiveEndpoints
<1>2. ASSUME NEW n \in Notifiers, NEW c \in Notice, notice' = [notice EXCEPT ![n] = c]
      PROVE  NoticesOK'
  BY <1>2 DEF NoticesOK
<1>3. ASSUME NEW n \in Notifiers, BeginNotice(n)
      PROVE  NoticesOK'
  <2> DEFINE c == [NoNotice EXCEPT !.pc = "sending", !.endpoints = ActiveEndpoints]
  <2>1. c \in Notice
    BY <1>1, NoNoticeType DEF Notice
  <2>2. notice' = [notice EXCEPT ![n] = c]
    BY <1>3 DEF BeginNotice
  <2> HIDE DEF c
  <2>3. QED
    BY <1>2, <2>1, <2>2
<1>4. ASSUME NEW n \in Notifiers, PushNotice(n)
      PROVE  NoticesOK'
  <2>1. PICK r \in PushResults(notice[n].endpoints) :
          notice' = [notice EXCEPT ![n] =
            [NoNotice EXCEPT !.pc = "recording", !.result = r, !.read = ReadAgain(r)]]
    BY <1>4 DEF PushNotice
  <2> DEFINE c == [NoNotice EXCEPT !.pc = "recording", !.result = r,
                                   !.read = ReadAgain(r)]
  <2>2. notice[n].endpoints \in SUBSET Endpoints
    BY DEF NoticesOK, Notice
  <2>3. r \in Answer
    BY <2>1, <2>2 DEF PushResults, Answer
  <2>4. ReadAgain(r) \in [Endpoints -> Row]
    BY <1>1 DEF ReadAgain, Inactive, Row
  <2>5. c \in Notice
    BY <2>3, <2>4, NoNoticeType DEF Notice
  <2>6. notice' = [notice EXCEPT ![n] = c]
    BY <2>1
  <2> HIDE DEF c
  <2>7. QED
    BY <1>2, <2>5, <2>6
<1>5. ASSUME NEW n \in Notifiers, RecordNotice(n) \/ DropNotice(n)
      PROVE  NoticesOK'
  BY <1>2, <1>5, NoNoticeType DEF RecordNotice, DropNotice
<1>6. CASE UNCHANGED notice
  BY <1>6 DEF NoticesOK
<1>7. UNCHANGED notice
        \/ \E n \in Notifiers :
             BeginNotice(n) \/ PushNotice(n) \/ RecordNotice(n) \/ DropNotice(n)
  BY DEF Next, vars, Start, DispatchDaily, DispatchNow, Assemble, Proceed, Select,
         Enqueue, ListDue, Attempt, AttemptRaises, Record, Crash, Collect,
         Recollect, Discard, Subscribe, Retain, Tick
<1>8. QED
  BY <1>3, <1>4, <1>5, <1>6, <1>7

-----------------------------------------------------------------------------
(* The theorems about the rows. *)

\* The invariant: what dispatches know is fresh, what rows say is true, and a
\* notice holds what it has read of the subscriptions.
THEOREM Invariance == Spec => [](IInv /\ NoticesOK)
<1>1. Init => IInv /\ NoticesOK
  BY InitInv, NoticesInit
<1>2. IInv /\ NoticesOK /\ [Next]_vars => IInv' /\ NoticesOK'
  BY NextInv, NoticesNext
<1>3. QED
  BY <1>1, <1>2, PTL DEF Spec

\* Every variable stays in its type; what is put off is put off by a day at
\* the most, and no message is tried more often than the settings allow.
THEOREM TypeCorrect == Spec => []TypeOK
<1>1. IInv /\ NoticesOK => TypeOK
  BY DEF IInv, RowsOK, NoticesOK, TypeOK, Notice, Answer, States, Row
<1>2. QED
  BY <1>1, Invariance, PTL

\* A row says SENT only if its channel has accepted the message, however the
\* dispatches overlap, crash and are delayed.
THEOREM SentIsTrue == Spec => []SentIsAcknowledged
<1>1. IInv => SentIsAcknowledged
  BY DEF IInv, PairFine, SentIsAcknowledged
<1>2. QED
  BY <1>1, Invariance, PTL

\* The daily dispatch sends nothing in the quiet hours, for every length of
\* the day and all settings, across midnight or not.
THEOREM QuietKept == Spec => []QuietHoursKept
<1>1. ASSUME IInv, NEW d \in Dispatchers, pc[d] = "sending", ~job[d].force,
             NEW n \in 0..((quiet.end - quiet.start + Day - 1) % Day),
             quiet.start # quiet.end
      PROVE  HourOf(job[d].now) # (quiet.start + n) % Day
  <2>1. ~IsQuiet(job[d].now)
    BY <1>1 DEF IInv, DispatchFine, Deferred
  <2>2. job[d].now \in Nat /\ quiet \in QuietSettings
    BY <1>1, DispatchConstantsOK DEF IInv, Dispatch, RowsOK
  <2>3. QED
    BY <1>1, <2>1, <2>2, QuietHour
<1>2. IInv => QuietHoursKept
  BY <1>1 DEF QuietHoursKept
<1>3. QED
  BY <1>2, Invariance, PTL

\* The commit that raises a count to the limit deactivates the subscription,
\* unless it was read inactive.
LEMMA AppliedAtLimit ==
    ASSUME subscription \in [Endpoints -> Row], NEW e \in Endpoints,
           NEW r \in Answer, NEW read \in [Endpoints -> Row],
           subscription' = Applied(r, read),
           subscription'[e].failures > subscription[e].failures,
           subscription'[e].failures >= FailureLimit
    PROVE  ~subscription'[e].active \/ ~read[e].active
<1>1. /\ subscription[e] \in Row /\ subscription[e].failures \in Nat
      /\ read[e] \in Row
  BY DEF Row
<1>2. ASSUME Punished(read[e]).failures >= FailureLimit
      PROVE  ~Punished(read[e]).active
  <2>1. read[e].failures \in Nat /\ FailureLimit \in Nat
    BY <1>1, DispatchConstantsOK DEF Row
  <2>2. read[e].failures + 1 >= FailureLimit
    BY <1>2 DEF Punished
  <2>3. ~(read[e].failures + 1 < FailureLimit)
    BY <2>1, <2>2
  <2>4. QED
    BY <2>3 DEF Punished
<1>3. ~(e \in r.invalid /\ e \in r.failed)
  BY DEF Answer
<1>4. CASE e \in r.invalid /\ read[e].active
  <2>1. subscription'[e] = [subscription[e] EXCEPT !.active = FALSE]
    BY <1>3, <1>4 DEF Applied
  <2>2. QED
    BY <1>1, <2>1 DEF Row
<1>5. CASE e \in r.failed
  <2> DEFINE a == IF Punished(read[e]).active = read[e].active
                  THEN subscription[e].active ELSE FALSE
  <2>1. subscription'[e] = [active |-> a, failures |-> Punished(read[e]).failures]
    BY <1>3, <1>5 DEF Applied
  <2>2. ~Punished(read[e]).active
    <3>1. subscription'[e].failures = Punished(read[e]).failures
      BY <2>1
    <3>2. QED
      BY <1>2, <3>1
  <2>3. CASE read[e].active
    <3>1. Punished(read[e]).active # read[e].active
      BY <2>2, <2>3
    <3>2. a = FALSE
      BY <3>1
    <3>3. subscription'[e].active = a
      BY <2>1
    <3>4. QED
      BY <3>2, <3>3
  <2>4. CASE ~read[e].active
    BY <2>4
  <2>5. QED
    BY <2>3, <2>4
<1>6. CASE ~(e \in r.invalid /\ read[e].active) /\ e \notin r.failed
  <2>1. subscription'[e] = subscription[e]
    BY <1>6 DEF Applied
  <2>2. QED
    BY <1>1, <2>1
<1>7. QED
  BY <1>4, <1>5, <1>6

\* The failure that reaches the limit deactivates the subscription, whatever
\* others count or renew meanwhile.
LEMMA LimitStep ==
    ASSUME IInv, NoticesOK, [Next]_vars, NEW e \in Endpoints,
           subscription'[e].failures > subscription[e].failures,
           subscription'[e].failures >= FailureLimit
    PROVE  \/ ~subscription'[e].active
           \/ \E d \in Dispatchers : pc[d] = "recording" /\ ~job[d].read[e].active
           \/ \E n \in Notifiers :
                notice[n].pc = "recording" /\ ~notice[n].read[e].active
<1>1. subscription \in [Endpoints -> Row] /\ subscription[e].failures \in Nat
  BY DEF IInv, RowsOK, Row
<1>2. CASE UNCHANGED subscription
  BY <1>1, <1>2
<1>3. ASSUME NEW f \in Endpoints, Subscribe(f)
      PROVE  FALSE
  <2>1. subscription' = [subscription EXCEPT ![f] = [active |-> TRUE, failures |-> 0]]
    BY <1>3 DEF Subscribe
  <2>2. subscription'[e].failures \in {0, subscription[e].failures}
    BY <1>1, <2>1
  <2>3. QED
    BY <1>1, <2>2
<1>4. ASSUME NEW d \in Dispatchers, Record(d), subscription' # subscription
      PROVE  \/ ~subscription'[e].active
             \/ pc[d] = "recording" /\ ~job[d].read[e].active
  <2>1. /\ job[d].result \in Answer /\ job[d].read \in [Endpoints -> Row]
        /\ pc[d] = "recording"
        /\ subscription' = Applied(job[d].result, job[d].read)
    BY <1>4 DEF IInv, Dispatch, Record
  <2>2. QED
    BY <1>1, <2>1, AppliedAtLimit
<1>5. ASSUME NEW n \in Notifiers, RecordNotice(n)
      PROVE  \/ ~subscription'[e].active
             \/ notice[n].pc = "recording" /\ ~notice[n].read[e].active
  <2>1. /\ notice[n].result \in Answer /\ notice[n].read \in [Endpoints -> Row]
        /\ notice[n].pc = "recording"
        /\ subscription' = Applied(notice[n].result, notice[n].read)
    BY <1>5 DEF NoticesOK, Notice, RecordNotice
  <2>2. QED
    BY <1>1, <2>1, AppliedAtLimit
<1>6. \/ UNCHANGED subscription
      \/ \E f \in Endpoints : Subscribe(f)
      \/ \E d \in Dispatchers : Record(d)
      \/ \E n \in Notifiers : RecordNotice(n)
  BY DEF Next, vars, Start, DispatchDaily, DispatchNow, Assemble, Proceed, Select,
         Enqueue, ListDue, Attempt, AttemptRaises, Crash, Collect, Recollect,
         Discard, Retain, Tick, BeginNotice, PushNotice, DropNotice, rows
<1>7. QED
  BY <1>2, <1>3, <1>4, <1>5, <1>6

\* Failures are counted by dispatches and notices that know nothing of each
\* other; the count that reaches the limit still deactivates.
THEOREM DisabledAtLimit == Spec => LimitDeactivates
<1>1. IInv /\ NoticesOK /\ [Next]_vars =>
        [\A e \in Endpoints :
            /\ subscription'[e].failures > subscription[e].failures
            /\ subscription'[e].failures >= FailureLimit
            => \/ ~subscription'[e].active
               \/ \E d \in Dispatchers :
                    pc[d] = "recording" /\ ~job[d].read[e].active
               \/ \E n \in Notifiers :
                    notice[n].pc = "recording" /\ ~notice[n].read[e].active]_vars
  BY LimitStep
<1>2. QED
  BY <1>1, Invariance, PTL DEF Spec, LimitDeactivates

\* Only a dispatch makes a row that is pending.
LEMMA OnlyEnqueue ==
    ASSUME IInv, [Next]_vars, NEW x \in Pairs,
           note[x].status = "none", note'[x].status = "pending"
    PROVE  \E d \in Dispatchers : Enqueue(d) /\ note' # note
<1>1. note' # note
  OBVIOUS
<1>2. ASSUME NEW d \in Dispatchers, Record(d)
      PROVE  FALSE
  <2>1. /\ \A y \in job[d].claim : note[y].status # "none"
        /\ note' = [y \in Pairs |->
             IF y \in job[d].claim
             THEN [note[y] EXCEPT
                     !.status = Outcome(job[d].result),
                     !.sent = IF job[d].result.ok THEN job[d].now ELSE @]
             ELSE note[y]]
    BY <1>1, <1>2 DEF Record
  <2>2. x \notin job[d].claim
    BY <2>1
  <2>3. QED
    BY <2>1, <2>2
<1>3. ASSUME NEW p \in Postings, Discard(p)
      PROVE  FALSE
  BY <1>3 DEF Discard, NoNote
<1>4. ~Retain
  BY DEF Retain, NoNote
<1>5. QED
  BY <1>1, <1>2, <1>3, <1>4 DEF Next, vars, Start, DispatchDaily, DispatchNow, Assemble,
     Proceed, Select, ListDue, Attempt, AttemptRaises, Crash, Collect, Recollect,
     Subscribe, BeginNotice, PushNotice, RecordNotice, DropNotice, Tick, rows

\* What quiet hours defer is due at the hour that ends them, within a day, for
\* every length of the day and all settings.
THEOREM Deferral == Spec => DeferredToQuietEnd
<1>1. IInv /\ [Next]_vars =>
        [\A x \in Pairs :
            /\ note[x].status = "none"
            /\ note'[x].status = "pending"
            /\ note'[x].scheduled # 0
            => /\ note'[x].scheduled % Day = quiet.end
               /\ \E d \in Dispatchers :
                    /\ x \in job[d].queue
                    /\ note'[x].scheduled \in (job[d].now + 1)..(job[d].now + Day)]_vars
  <2> SUFFICES ASSUME IInv, [Next]_vars, NEW x \in Pairs, note[x].status = "none",
                      note'[x].status = "pending", note'[x].scheduled # 0
               PROVE  /\ note'[x].scheduled % Day = quiet.end
                      /\ \E d \in Dispatchers :
                           /\ x \in job[d].queue
                           /\ note'[x].scheduled \in (job[d].now + 1)..(job[d].now + Day)
    OBVIOUS
  <2>1. PICK d \in Dispatchers : Enqueue(d) /\ note' # note
    BY OnlyEnqueue
  <2>2. PICK n : n = IF Deferred(d) THEN QuietUntil(job[d].now) ELSE 0
    OBVIOUS
  <2>3. note' = [y \in Pairs |->
                   IF y \in job[d].queue
                   THEN [NoNote EXCEPT !.status = "pending", !.scheduled = n]
                   ELSE note[y]]
    BY <2>1, <2>2 DEF Enqueue
  <2>4. x \in job[d].queue
    BY <2>3
  <2>5. note'[x].scheduled = n
    BY <2>3, <2>4 DEF NoNote
  <2>6. n = QuietUntil(job[d].now) /\ IsQuiet(job[d].now)
    BY <2>2, <2>5 DEF Deferred
  <2>7. job[d].now \in Nat /\ quiet \in QuietSettings
    BY DispatchConstantsOK DEF IInv, Dispatch, RowsOK
  <2>8. n % Day = quiet.end /\ n \in (job[d].now + 1)..(job[d].now + Day)
    BY <2>6, <2>7, QuietEndNext
  <2>9. QED
    BY <2>4, <2>5, <2>8
<1>2. QED
  BY <1>1, Invariance, PTL DEF Spec, DeferredToQuietEnd

-----------------------------------------------------------------------------
(* The dispatches implement the ledger. *)

Carrying == [d \in Dispatchers |-> job[d].claim]

\* A step that leaves rows, claims and histories alone is none of the ledger.
LEMMA StutterStep ==
    ASSUME Entry' = Entry, Carrying' = Carrying, UNCHANGED <<acknowledged, settled>>
    PROVE  UNCHANGED Ledger!ledger
BY DEF Ledger!ledger, Carrying

\* A dispatch that writes no row: its claim alone matters.
LEMMA ClaimStays ==
    ASSUME IInv, NEW d \in Dispatchers, NEW j, job' = [job EXCEPT ![d] = j],
           j.claim = job[d].claim
    PROVE  Carrying' = Carrying
<1>1. ASSUME NEW e \in Dispatchers
      PROVE  job'[e].claim = job[e].claim
  <2>1. CASE e = d
    BY <2>1 DEF IInv
  <2>2. CASE e # d
    BY <2>2 DEF IInv
  <2>3. QED
    BY <2>1, <2>2
<1>2. QED
  BY <1>1 DEF Carrying

\* A dispatch that ends drops what it carries.
LEMMA EndDrops ==
    ASSUME IInv, NEW d \in Dispatchers, job' = [job EXCEPT ![d] = NoJob],
           UNCHANGED <<posting, note, acknowledged, settled>>
    PROVE  Ledger!Drop({d})
<1>1. ASSUME NEW e \in Dispatchers
      PROVE  job'[e].claim = IF e \in {d} THEN {} ELSE job[e].claim
  BY NoJobFacts DEF IInv
<1>2. Carrying' = [e \in Dispatchers |-> IF e \in {d} THEN {} ELSE Carrying[e]]
  BY <1>1 DEF Carrying
<1>3. Entry' = Entry
  BY DEF Entry
<1>4. QED
  BY <1>2, <1>3 DEF Ledger!Drop, Carrying

LEMMA EntryFacts ==
    ASSUME NEW x \in Pairs
    PROVE  /\ posting[x[1]].status # "deleted" => Entry[x] = note[x].status
           /\ posting[x[1]].status = "deleted" => Entry[x] = "gone"
BY DEF Entry

LEMMA EntryOfRow ==
    ASSUME IInv, NEW x \in Pairs, note[x].status # "none"
    PROVE  Entry[x] = note[x].status
<1>1. posting[x[1]].status = "present"
  BY DEF IInv, PairFine
<1>2. QED
  BY <1>1, EntryFacts

LEMMA EnqueueEnters ==
    ASSUME IInv, NEW d \in Dispatchers, Enqueue(d)
    PROVE  \/ Ledger!Drop({d})
           \/ \E some \in SUBSET Pairs : Ledger!Enter(some)
<1>1. CASE ~\A x \in job[d].queue : CanInsert(x)
  BY <1>1, EndDrops DEF Enqueue, history
<1>2. CASE \A x \in job[d].queue : CanInsert(x)
  <2>1. /\ pc[d] = "queueing"
        /\ job[d] \in Dispatch
        /\ job[d].claim = {}
        /\ UNCHANGED <<posting, acknowledged, settled>>
    BY DEF Enqueue, IInv, DispatchFine, history
  <2>2. ASSUME NEW x \in job[d].queue
        PROVE  Entry[x] = "none" /\ x \notin settled
    <3>1. x \in Pairs /\ posting[x[1]].status = "present" /\ x \notin settled
      BY <1>2, <2>1, QueuedIsNew
    <3>2. note[x].status = "none"
      BY <1>2 DEF CanInsert
    <3>3. QED
      BY <3>1, <3>2, EntryFacts
  <2>3. ASSUME NEW x \in Pairs
        PROVE  Entry'[x] = IF x \in job[d].queue THEN "pending" ELSE Entry[x]
    <3>1. CASE x \in job[d].queue
      <4>1. note'[x].status = "pending"
        BY <1>2, <3>1 DEF Enqueue, NoNote
      <4>2. posting'[x[1]].status # "deleted"
        BY <1>2, <2>1, <3>1 DEF CanInsert
      <4>3. QED
        BY <3>1, <4>1, <4>2 DEF Entry
    <3>2. CASE x \notin job[d].queue
      <4>1. note'[x] = note[x]
        BY <1>2, <3>2 DEF Enqueue
      <4>2. QED
        BY <2>1, <3>2, <4>1 DEF Entry
    <3>3. QED
      BY <3>1, <3>2
  <2>4. Entry' = [x \in Pairs |-> IF x \in job[d].queue THEN "pending" ELSE Entry[x]]
    BY <2>3 DEF Entry
  <2>5. Carrying' = Carrying
    <3>1. CASE Deferred(d)
      BY <1>2, <2>1, <3>1, ClaimStays, NoJobFacts DEF Enqueue
    <3>2. CASE ~Deferred(d)
      <4> DEFINE j == [job[d] EXCEPT !.queue = {}]
      <4>1. job' = [job EXCEPT ![d] = j] /\ j.claim = job[d].claim
        BY <1>2, <2>1, <3>2 DEF Enqueue, Dispatch
      <4> HIDE DEF j
      <4>2. QED
        BY <4>1, ClaimStays
    <3>3. QED
      BY <3>1, <3>2
  <2>6. PICK some \in SUBSET Pairs : some = job[d].queue
    BY <2>1 DEF Dispatch
  <2>7. Ledger!Enter(some)
    BY <2>1, <2>2, <2>4, <2>5, <2>6 DEF Ledger!Enter, Carrying
  <2>8. QED
    BY <2>7
<1>3. QED
  BY <1>1, <1>2

LEMMA ListDueTakes ==
    ASSUME IInv, NEW d \in Dispatchers, ListDue(d)
    PROVE  \/ Ledger!Drop({d})
           \/ \E some \in SUBSET Pairs : Ledger!Take(d, some)
<1>1. CASE job[d].channels = {}
  BY <1>1, EndDrops DEF ListDue, rows, history
<1>2. CASE job[d].channels # {}
  <2> DEFINE c   == NextChannel(job[d].channels)
             due == Due(c, job[d].now)
             j   == [job[d] EXCEPT !.channels = @ \ {c}, !.channel = c, !.claim = due,
                                   !.endpoints = IF due = {} THEN {} ELSE @]
  <2>1. job' = [job EXCEPT ![d] = j]
    BY <1>2 DEF ListDue
  <2>2. /\ job[d] \in Dispatch
        /\ job[d].claim = {}
        /\ UNCHANGED <<posting, note, acknowledged, settled>>
    BY DEF ListDue, IInv, DispatchFine, rows, history
  <2>3. \A x \in due : x \in Pairs /\ note[x].status = "pending"
    BY DEF Due, IsDue
  <2> HIDE DEF c, due
  <2>4. j.claim = due
    BY <2>2 DEF Dispatch
  <2> HIDE DEF j
  <2>5. ASSUME NEW e \in Dispatchers
        PROVE  job'[e].claim = IF e = d THEN due ELSE job[e].claim
    BY <2>1, <2>4 DEF IInv
  <2>6. Carrying' = [Carrying EXCEPT ![d] = due] /\ Carrying[d] = {}
    BY <2>2, <2>5 DEF Carrying
  <2>7. \A x \in due : Entry[x] = "pending"
    BY <2>3, EntryOfRow
  <2>8. Entry' = Entry
    BY <2>2 DEF Entry
  <2>9. PICK some \in SUBSET Pairs : some = due
    BY <2>3
  <2>10. Ledger!Take(d, some)
    BY <2>2, <2>6, <2>7, <2>8, <2>9 DEF Ledger!Take, Carrying
  <2>11. QED
    BY <2>10
<1>3. QED
  BY <1>1, <1>2

LEMMA AttemptAccepts ==
    ASSUME IInv, NEW d \in Dispatchers, Attempt(d)
    PROVE  Ledger!Accept(d) \/ UNCHANGED Ledger!ledger
<1>1. PICK r \in Results(d) :
        /\ acknowledged' = IF r.ok THEN acknowledged \cup job[d].claim
                           ELSE acknowledged
        /\ \/ job' = [job EXCEPT ![d].attempts = @ + 1]
           \/ job' = [job EXCEPT ![d] =
                [@ EXCEPT !.attempts = 0, !.result = r, !.read = ReadAgain(r)]]
  BY DEF Attempt
<1>2. UNCHANGED <<posting, note, settled>> /\ job[d] \in Dispatch
  BY DEF Attempt, rows, IInv
<1>3. Carrying' = Carrying
  <2>1. CASE job' = [job EXCEPT ![d].attempts = @ + 1]
    <3> DEFINE j == [job[d] EXCEPT !.attempts = @ + 1]
    <3>1. job' = [job EXCEPT ![d] = j] /\ j.claim = job[d].claim
      BY <1>2, <2>1 DEF Dispatch
    <3> HIDE DEF j
    <3>2. QED
      BY <3>1, ClaimStays
  <2>2. CASE job' = [job EXCEPT ![d] =
                [@ EXCEPT !.attempts = 0, !.result = r, !.read = ReadAgain(r)]]
    <3> DEFINE j == [job[d] EXCEPT !.attempts = 0, !.result = r, !.read = ReadAgain(r)]
    <3>1. job' = [job EXCEPT ![d] = j] /\ j.claim = job[d].claim
      BY <1>2, <2>2 DEF Dispatch
    <3> HIDE DEF j
    <3>2. QED
      BY <3>1, ClaimStays
  <2>3. QED
    BY <1>1, <2>1, <2>2
<1>4. Entry' = Entry
  BY <1>2 DEF Entry
<1>5. CASE r.ok
  <2>1. acknowledged' = acknowledged \cup Carrying[d]
    BY <1>1, <1>5 DEF Carrying
  <2>2. QED
    BY <1>2, <1>3, <1>4, <2>1 DEF Ledger!Accept, Carrying
<1>6. CASE ~r.ok
  BY <1>1, <1>2, <1>3, <1>4, <1>6, StutterStep
<1>7. QED
  BY <1>5, <1>6

LEMMA RecordSettles ==
    ASSUME IInv, NEW d \in Dispatchers, Record(d)
    PROVE  \/ Ledger!Drop({d})
           \/ \E o \in {"sent", "failed"} : Ledger!Settle(d, o)
<1>1. CASE \E x \in job[d].claim : note[x].status = "none"
  BY <1>1, EndDrops DEF Record
<1>2. CASE \A x \in job[d].claim : note[x].status # "none"
  <2>0. PICK o \in {"sent", "failed"} : o = Outcome(job[d].result)
    BY DEF Outcome
  <2> DEFINE n(x) == [note[x] EXCEPT !.status = o,
                                     !.sent = IF job[d].result.ok THEN job[d].now ELSE @]
             j    == [job[d] EXCEPT !.claim = {}, !.endpoints = {},
                                    !.result = NoResult, !.read = NothingRead]
  <2>1. /\ pc[d] = "recording"
        /\ note' = [x \in Pairs |-> IF x \in job[d].claim THEN n(x) ELSE note[x]]
        /\ job' = [job EXCEPT ![d] = j]
        /\ settled' = settled \cup job[d].claim
        /\ UNCHANGED <<posting, acknowledged>>
    BY <1>2, <2>0 DEF Record
  <2>2. /\ job[d] \in Dispatch
        /\ job[d].claim \subseteq Pairs
        /\ DispatchFine(d)
    BY DEF IInv, Dispatch
  <2>3. o = "sent" => job[d].claim \subseteq acknowledged
    BY <2>0, <2>1, <2>2 DEF Outcome, DispatchFine
  <2>4. ASSUME NEW x \in Pairs
        PROVE  n(x).status = o
    BY DEF IInv, RowsOK
  <2>5. j.claim = {}
    BY <2>2 DEF Dispatch
  <2> HIDE DEF n, j
  <2>6. ASSUME NEW x \in job[d].claim
        PROVE  Entry[x] \notin {"none", "gone"} /\ posting[x[1]].status = "present"
    <3>1. PairFine(x) /\ x \in Pairs /\ note[x].status # "none"
      BY <1>2, <2>2 DEF IInv
    <3>2. note[x].status \in {"pending", "sent", "failed"}
      BY <3>1 DEF IInv, RowsOK
    <3>3. QED
      BY <3>1, <3>2, EntryOfRow DEF PairFine
  <2>7. ASSUME NEW x \in Pairs
        PROVE  Entry'[x] = IF x \in job[d].claim THEN o ELSE Entry[x]
    <3>1. CASE x \in job[d].claim
      <4>1. note'[x].status = o
        BY <2>1, <2>4, <3>1
      <4>2. posting'[x[1]].status = "present"
        BY <2>1, <2>6, <3>1
      <4>3. QED
        BY <3>1, <4>1, <4>2 DEF Entry
    <3>2. CASE x \notin job[d].claim
      <4>1. note'[x] = note[x]
        BY <2>1, <3>2
      <4>2. QED
        BY <2>1, <3>2, <4>1 DEF Entry
    <3>3. QED
      BY <3>1, <3>2
  <2>8. Entry' = [x \in Pairs |-> IF x \in job[d].claim THEN o ELSE Entry[x]]
    BY <2>7 DEF Entry
  <2>9. ASSUME NEW e \in Dispatchers
        PROVE  job'[e].claim = IF e = d THEN {} ELSE job[e].claim
    BY <2>1, <2>5 DEF IInv
  <2>10. Carrying' = [Carrying EXCEPT ![d] = {}] /\ Carrying[d] = job[d].claim
    BY <2>9 DEF Carrying
  <2>11. Ledger!Settle(d, o)
    BY <2>1, <2>3, <2>6, <2>8, <2>10 DEF Ledger!Settle, Carrying
  <2>12. QED
    BY <2>11
<1>3. QED
  BY <1>1, <1>2

LEMMA CrashDrops ==
    ASSUME IInv, NEW process \in SUBSET Dispatchers, Crash(process)
    PROVE  Ledger!Drop(process)
<1>1. /\ job' = [d \in Dispatchers |-> IF d \in process THEN NoJob ELSE job[d]]
      /\ UNCHANGED <<posting, note, acknowledged, settled>>
  BY DEF Crash, rows, history
<1>2. ASSUME NEW d \in Dispatchers
      PROVE  job'[d].claim = IF d \in process THEN {} ELSE job[d].claim
  BY <1>1, NoJobFacts
<1>3. Carrying' = [d \in Dispatchers |-> IF d \in process THEN {} ELSE Carrying[d]]
  BY <1>2 DEF Carrying
<1>4. Entry' = Entry
  BY <1>1 DEF Entry
<1>5. QED
  BY <1>1, <1>3, <1>4 DEF Ledger!Drop, Carrying

LEMMA DiscardRemoves ==
    ASSUME IInv, NEW p \in Postings, Discard(p)
    PROVE  \E some \in SUBSET Pairs : Ledger!Remove(some)
<1> DEFINE some == {x \in Pairs : x[1] = p}
<1>1. /\ posting' = [posting EXCEPT ![p] = [Unseen EXCEPT !.status = "deleted"]]
      /\ note' = [x \in Pairs |-> IF x[1] = p THEN NoNote ELSE note[x]]
      /\ UNCHANGED <<job, acknowledged, settled>>
      /\ DOMAIN posting = Postings
  BY DEF Discard, history, IInv, RowsOK
<1>2. ASSUME NEW x \in Pairs
      PROVE  Entry'[x] = IF x \in some THEN "gone" ELSE Entry[x]
  <2>0. x[1] \in Postings
    BY DEF Pairs
  <2>1. CASE x[1] = p
    <3>1. posting'[x[1]].status = "deleted"
      BY <1>1, <2>0, <2>1 DEF Unseen
    <3>2. QED
      BY <2>1, <3>1 DEF Entry
  <2>2. CASE x[1] # p
    <3>1. posting'[x[1]] = posting[x[1]] /\ note'[x] = note[x]
      BY <1>1, <2>0, <2>2
    <3>2. QED
      BY <2>2, <3>1 DEF Entry
  <2>3. QED
    BY <2>1, <2>2
<1> HIDE DEF some
<1>3. Entry' = [x \in Pairs |-> IF x \in some THEN "gone" ELSE Entry[x]]
  BY <1>2 DEF Entry
<1>4. Ledger!Remove(some)
  BY <1>1, <1>3 DEF Ledger!Remove, Carrying
<1>5. QED
  BY <1>4 DEF some

LEMMA RetainForgets ==
    ASSUME IInv, Retain
    PROVE  \E some \in SUBSET Pairs : Ledger!Forget(some)
<1>1. PICK some \in SUBSET Pairs : some = {x \in Pairs : Expired(x)}
  OBVIOUS
<1>2. /\ note' = [x \in Pairs |-> IF Expired(x) THEN NoNote ELSE note[x]]
      /\ UNCHANGED <<posting, job, acknowledged, settled>>
  BY DEF Retain, history
<1>3. ASSUME NEW x \in some
      PROVE  /\ x \in acknowledged /\ x \in settled
             /\ Entry[x] # "gone" /\ posting[x[1]].status = "present"
  <2>1. PairFine(x) /\ x \in Pairs /\ note[x].sent # Never
    BY <1>1 DEF IInv, Expired
  <2>2. note[x].status # "gone"
    BY <2>1 DEF IInv, RowsOK
  <2>3. QED
    BY <2>1, <2>2, EntryOfRow DEF PairFine
<1>4. ASSUME NEW x \in Pairs
      PROVE  Entry'[x] = IF x \in some THEN "none" ELSE Entry[x]
  <2>1. CASE x \in some
    <3>1. note'[x] = NoNote
      BY <1>1, <1>2, <2>1
    <3>2. posting'[x[1]].status = "present"
      BY <1>2, <1>3, <2>1
    <3>3. QED
      BY <2>1, <3>1, <3>2 DEF Entry, NoNote
  <2>2. CASE x \notin some
    <3>1. note'[x] = note[x]
      BY <1>1, <1>2, <2>2
    <3>2. QED
      BY <1>2, <2>2, <3>1 DEF Entry
  <2>3. QED
    BY <2>1, <2>2
<1>5. Entry' = [x \in Pairs |-> IF x \in some THEN "none" ELSE Entry[x]]
  BY <1>4 DEF Entry
<1>6. Ledger!Forget(some)
  BY <1>2, <1>3, <1>5 DEF Ledger!Forget, Carrying
<1>7. QED
  BY <1>6

\* New and changed postings do not show in the ledger.
LEMMA CollectStutters ==
    ASSUME IInv, NEW p \in Postings, Collect(p) \/ Recollect(p)
    PROVE  UNCHANGED Ledger!ledger
<1>1. UNCHANGED <<note, job, acknowledged, settled>> /\ DOMAIN posting = Postings
  BY DEF Collect, Recollect, history, IInv, RowsOK
<1>2. ASSUME NEW q \in Postings
      PROVE  posting'[q].status = "deleted" <=> posting[q].status = "deleted"
  <2>1. CASE Collect(p)
    <3>1. PICK wanted \in BOOLEAN, begun \in (clock - CrawlTime)..clock :
            /\ posting[p].status = "unseen"
            /\ posting' = [posting EXCEPT ![p] =
                 [status |-> "present", wanted |-> wanted, firstSeen |-> begun]]
      BY <2>1 DEF Collect
    <3>2. QED
      BY <1>1, <3>1
  <2>2. CASE Recollect(p)
    <3> DEFINE r == [posting[p] EXCEPT !.wanted = ~@]
    <3>1. posting' = [posting EXCEPT ![p] = r]
      BY <2>2 DEF Recollect
    <3>2. r.status = posting[p].status
      BY DEF IInv, RowsOK
    <3> HIDE DEF r
    <3>3. QED
      BY <1>1, <3>1, <3>2
  <2>3. QED
    BY <2>1, <2>2
<1>3. Entry' = Entry
  <2>1. ASSUME NEW x \in Pairs
        PROVE  Entry'[x] = Entry[x]
    <3>1. x[1] \in Postings
      BY DEF Pairs
    <3>2. QED
      BY <1>1, <1>2, <3>1 DEF Entry
  <2>2. QED
    BY <2>1 DEF Entry
<1>4. QED
  BY <1>1, <1>3, StutterStep DEF Carrying

\* A dispatch begins and reads its candidates with nothing in its hands.
LEMMA StartStutters ==
    ASSUME IInv, NEW d \in Dispatchers, Start(d) \/ Select(d)
    PROVE  UNCHANGED Ledger!ledger
<1>1. UNCHANGED <<posting, note, acknowledged, settled>> /\ job[d] \in Dispatch
  BY DEF Start, DispatchDaily, DispatchNow, Assemble, Select, rows, history, IInv
<1>2. job[d].claim = {}
  BY DEF Start, DispatchDaily, DispatchNow, Select, IInv, DispatchFine
<1>3. Carrying' = Carrying
  <2>1. CASE Start(d)
    <3>1. PICK force \in BOOLEAN, channels \in SUBSET Channels :
            job' = [job EXCEPT ![d] =
             [NoJob EXCEPT !.now = clock, !.force = force,
                           !.channels = channels,
                           !.endpoints = ActiveEndpoints]]
      BY <2>1 DEF Start, DispatchDaily, DispatchNow, Assemble
    <3> DEFINE j == [NoJob EXCEPT !.now = clock, !.force = force,
                                  !.channels = channels,
                                  !.endpoints = ActiveEndpoints]
    <3>2. job' = [job EXCEPT ![d] = j] /\ j.claim = {}
      BY <3>1 DEF NoJob
    <3> HIDE DEF j
    <3>3. QED
      BY <1>2, <3>2, ClaimStays
  <2>2. CASE Select(d)
    <3> DEFINE j == [job[d] EXCEPT !.queue =
                       {x \in Pairs : /\ x[2] \in job[d].channels
                                      /\ IsCandidate(x[1], x[2], job[d].now)}]
    <3>1. job' = [job EXCEPT ![d] = j] /\ j.claim = job[d].claim
      BY <1>1, <2>2 DEF Select, Dispatch
    <3> HIDE DEF j
    <3>2. QED
      BY <3>1, ClaimStays
  <2>3. QED
    BY <2>1, <2>2
<1>4. QED
  BY <1>1, <1>3, StutterStep DEF Entry

LEMMA LedgerStep == IInv /\ [Next]_vars => [Ledger!Next]_(Ledger!ledger)
<1> SUFFICES ASSUME IInv, [Next]_vars PROVE Ledger!Next \/ UNCHANGED Ledger!ledger
  OBVIOUS
<1>1. ASSUME NEW d \in Dispatchers, Ledger!Drop({d})
      PROVE  Ledger!Next
  <2>1. {d} \in SUBSET Dispatchers
    OBVIOUS
  <2>2. QED
    BY <1>1, <2>1 DEF Ledger!Next
<1>2. ASSUME NEW d \in Dispatchers, Start(d) \/ Select(d)
      PROVE  UNCHANGED Ledger!ledger
  BY <1>2, StartStutters
<1>3. ASSUME NEW d \in Dispatchers, Enqueue(d)
      PROVE  Ledger!Next
  BY <1>1, <1>3, EnqueueEnters DEF Ledger!Next
<1>4. ASSUME NEW d \in Dispatchers, ListDue(d)
      PROVE  Ledger!Next
  BY <1>1, <1>4, ListDueTakes DEF Ledger!Next
<1>5. ASSUME NEW d \in Dispatchers, Attempt(d)
      PROVE  Ledger!Next \/ UNCHANGED Ledger!ledger
  BY <1>5, AttemptAccepts DEF Ledger!Next
<1>6. ASSUME NEW d \in Dispatchers, AttemptRaises(d)
      PROVE  Ledger!Next
  BY <1>1, <1>6, EndDrops DEF AttemptRaises, rows, history
<1>7. ASSUME NEW d \in Dispatchers, Record(d)
      PROVE  Ledger!Next
  BY <1>1, <1>7, RecordSettles DEF Ledger!Next, Ledger!Outcomes
<1>8. ASSUME NEW process \in {WorkerDispatchers, ApiDispatchers}, Crash(process)
      PROVE  Ledger!Next
  <2>1. process \in SUBSET Dispatchers
    BY DEF Dispatchers
  <2>2. Ledger!Drop(process)
    BY <1>8, <2>1, CrashDrops
  <2>3. QED
    BY <2>1, <2>2 DEF Ledger!Next
<1>9. ASSUME NEW p \in Postings, Discard(p)
      PROVE  Ledger!Next
  BY <1>9, DiscardRemoves DEF Ledger!Next
<1>10. ASSUME Retain
       PROVE  Ledger!Next
  BY <1>10, RetainForgets DEF Ledger!Next
<1>11. ASSUME UNCHANGED <<posting, note, job, acknowledged, settled>>
       PROVE  UNCHANGED Ledger!ledger
  BY <1>11, StutterStep DEF Entry, Carrying
<1>12. ASSUME \/ \E e \in Endpoints : Subscribe(e)
              \/ \E n \in Notifiers :
                   BeginNotice(n) \/ PushNotice(n) \/ RecordNotice(n) \/ DropNotice(n)
              \/ Tick
              \/ UNCHANGED vars
       PROVE  UNCHANGED Ledger!ledger
  BY <1>11, <1>12 DEF Subscribe, BeginNotice, PushNotice, RecordNotice, DropNotice,
                      Tick, vars, rows, history
<1>13. QED
  BY <1>2, <1>3, <1>4, <1>5, <1>6, <1>7, <1>8, <1>9, <1>10, <1>12, CollectStutters
     DEF Next, Proceed

\* However many dispatches run, crash and overlap, and whatever crawls,
\* retention and the administrator do meanwhile, they keep the ledger.
THEOREM Implements == Spec => KeepsLedger
<1>1. Init => Ledger!Init
  <2>1. ASSUME Init
        PROVE  Ledger!Init
    <3>1. \A x \in Pairs : Entry[x] = "none"
      <4>1. ASSUME NEW x \in Pairs
            PROVE  x[1] \in Postings
        BY DEF Pairs
      <4>2. QED
        BY <2>1, <4>1 DEF Init, Entry, Unseen, NoNote
    <3>2. Entry = [x \in Pairs |-> "none"]
      BY <3>1 DEF Entry
    <3>3. [d \in Dispatchers |-> job[d].claim] = [d \in Dispatchers |-> {}]
      BY <2>1, NoJobFacts DEF Init
    <3>4. QED
      BY <2>1, <3>2, <3>3 DEF Init, Ledger!Init
  <2>2. QED
    BY <2>1
<1>2. QED
  BY <1>1, Invariance, LedgerStep, PTL DEF Spec, KeepsLedger, Ledger!Spec

=============================================================================
