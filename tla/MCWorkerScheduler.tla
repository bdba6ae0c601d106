-------------------------- MODULE MCWorkerScheduler --------------------------
(***************************************************************************)
(* Instances of WorkerScheduler for TLC.  The unit of time is 6 seconds:   *)
(* the sources are refreshed every 10 units, MaxJitter is 5 of them and    *)
(* the grace of one second is less than one.                               *)
(***************************************************************************)
EXTENDS WorkerScheduler

CONSTANTS s1, dispatch, t1, t2

OneSource  == {s1}
OneOther   == {dispatch}
TwoThreads == {t1, t2}

\* One source that is due every minute, the shortest interval there is.
EveryMinute == [s \in Sources |-> 10]

\* ... and every two minutes.
EveryTwoMinutes == [s \in Sources |-> 20]

\* Refresh every minute and the other job every two.
Periods == [j \in Housekeeping |-> IF j = Refresh THEN 10 ELSE 20]

=============================================================================
