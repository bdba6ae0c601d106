--------------------------- MODULE MCCrawlExecution ---------------------------
(***************************************************************************)
(* Instances of CrawlExecution for TLC: one source, crawled by a thread of *)
(* the worker and a thread of the API.                                     *)
(***************************************************************************)
EXTENDS CrawlExecution

CONSTANTS s1, w1, a1, c1, c2

OneSource  == {s1}
OneWorker  == {w1}
OneApi     == {a1}
OneConfig  == {c1}
TwoConfigs == {c1, c2}

\* 5 -> 1 is exactly a drop of 80 percent.
FewItems == {1, 5}
OneItem  == {1}

\* Bounds: one run whose execution is cut short or gets no answer, or one lost
\* lock; and retention deletes one run.
OneMishap ==
    /\ Cardinality(orphans \cup unanswered) + Cardinality(breached) <= 1
    /\ aged <= 1

=============================================================================
