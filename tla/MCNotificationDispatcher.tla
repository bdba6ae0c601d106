----------------------- MODULE MCNotificationDispatcher -----------------------
(***************************************************************************)
(* Instances of NotificationDispatcher for TLC: the daily job and one      *)
(* request of the administrator, and a notice beside them.                 *)
(***************************************************************************)
EXTENDS NotificationDispatcher

CONSTANTS w1, a1, n1, p1, kakao, push, e1

OneWorker    == {w1}
OneApi       == {a1}
NoNotifier   == {}
OneNotifier  == {n1}
OnePosting   == {p1}
BothChannels == {kakao, push}
OneEndpoint  == {e1}

\* With the daily dispatch at 1 in a day of 4: quiet hours that end as it
\* begins, and that span midnight around it.
AroundTheDispatch == {[start |-> 0, end |-> 1], [start |-> 3, end |-> 2]}

\* Bounds: notices are pushed before the clock has moved, and renewals that
\* cross them do not let them count for ever.
EarlyNotices ==
    /\ \A n \in Notifiers : notice[n].pc # "idle" => clock = 0
    /\ \A e \in Endpoints : subscription[e].failures <= FailureLimit + 1

=============================================================================
