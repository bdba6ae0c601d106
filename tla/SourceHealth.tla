------------------------------ MODULE SourceHealth ------------------------------
(***************************************************************************)
(* What the crawls of a source promise about the record that is kept of    *)
(* it: whether it is switched on, how often it has failed since it last    *)
(* succeeded, and how many postings its successes had.  A crawl begins     *)
(* only while the source is on.  One that ends counts at one moment and    *)
(* against the record as it is at that moment, and only if none has begun  *)
(* after it.                                                               *)
(* CrawlExecution implements it, where no lock connection is lost.         *)
(***************************************************************************)
EXTENDS Naturals

CONSTANTS
    Sources,
    Crawls,             \* numbers of crawls, in the order in which they begin
    Items,              \* numbers of postings
    FailureThreshold,   \* failures in succession that switch a source off
    Drops               \* pairs of numbers: the second is far below the first

VARIABLE health         \* of each source

Blank(state) ==
    [state |-> state, active |-> FALSE, failures |-> 0,
     begun |-> {}, accepted |-> {}]

\* accepted has the successes that are still remembered, with their numbers.
Known(active, failures, begun, accepted) ==
    [state |-> "present", active |-> active, failures |-> failures,
     begun |-> begun, accepted |-> accepted]

Init == health = [s \in Sources |-> Blank("new")]

Becomes(s, h) == health' = [health EXCEPT ![s] = h]

\* The administrator's part.  What is deleted does not come back.
Create(s, active) ==
    /\ health[s].state = "new"
    /\ Becomes(s, Known(active, 0, {}, {}))

Switch(s, active) ==
    /\ health[s].state = "present"
    /\ Becomes(s, Known(active, health[s].failures, health[s].begun,
                        health[s].accepted))

Delete(s) ==
    /\ health[s].state = "present"
    /\ Becomes(s, Blank("deleted"))

Begin(s, k) ==
    /\ health[s].state = "present"
    /\ health[s].active
    /\ \A j \in health[s].begun : j < k
    /\ Becomes(s, Known(TRUE, health[s].failures, health[s].begun \cup {k},
                        health[s].accepted))

Newest(s, k) ==
    /\ health[s].state = "present"
    /\ k \in health[s].begun
    /\ \A j \in health[s].begun : j <= k

\* A crawl succeeds only if its postings are no drop from the last success.
Succeed(s, k, n) ==
    /\ Newest(s, k)
    /\ \A x \in health[s].accepted :
          (\A y \in health[s].accepted : y[1] <= x[1]) => <<x[2], n>> \notin Drops
    /\ Becomes(s, Known(health[s].active, 0, health[s].begun,
                        health[s].accepted \cup {<<k, n>>}))

\* A crawl fails: one more, and the one that reaches the threshold switches
\* the source off, unless it has only just been switched on.  What it has
\* reported as a success before is taken back.
Fail(s, k, active) ==
    /\ Newest(s, k)
    /\ active # health[s].active =>
          ~active /\ health[s].failures + 1 = FailureThreshold
    /\ Becomes(s, Known(active, health[s].failures + 1, health[s].begun,
                        {x \in health[s].accepted : x[1] # k}))

\* The crawls up to number k are so old that they are forgotten.
Aged(h, k) ==
    [state |-> h.state, active |-> h.active, failures |-> h.failures,
     begun |-> h.begun, accepted |-> {x \in h.accepted : x[1] > k}]

Forget(k) == health' = [s \in Sources |-> Aged(health[s], k)]

\* A lock is lost: from now on nothing is promised.
Lose(s) == Becomes(s, Blank("unknown"))

Next ==
    \/ \E s \in Sources :
         \/ Delete(s) \/ Lose(s)
         \/ \E a \in BOOLEAN : Create(s, a) \/ Switch(s, a)
         \/ \E k \in Crawls :
              \/ Begin(s, k)
              \/ \E a \in BOOLEAN : Fail(s, k, a)
              \/ \E n \in Items : Succeed(s, k, n)
    \/ \E k \in Crawls : Forget(k)

Spec == Init /\ [][Next]_health

=============================================================================
