----------------------------- MODULE DeliveryLedger -----------------------------
(***************************************************************************)
(* What the delivery of notifications promises, without saying how: an     *)
(* entry for each posting and channel, made once, that carriers take to    *)
(* the channel and settle.  No clock, no quiet hours, no subscriptions, no *)
(* transactions.  NotificationDispatcher implements it.                    *)
(*                                                                         *)
(* It promises neither that an entry is carried once, nor that it is       *)
(* carried at all: a carrier may drop what it carries at any moment, and   *)
(* several may carry the same.                                             *)
(***************************************************************************)
CONSTANTS
    Entries,   \* a posting and a channel each
    Carriers   \* those who take entries to their channel

VARIABLES
    entry,     \* what the ledger says of each
    carrying,  \* the entries each carrier has taken
    accepted,  \* entries whose channel has accepted the message
    closed     \* entries that have ever been settled

ledger == <<entry, carrying, accepted, closed>>

Outcomes == {"sent", "failed"}

Init ==
    /\ entry = [x \in Entries |-> "none"]
    /\ carrying = [c \in Carriers |-> {}]
    /\ accepted = {}
    /\ closed = {}

\* Entries are made for what has none, and never again for what was settled,
\* even when the ledger has forgotten it.
Enter(new) ==
    /\ \A x \in new : entry[x] = "none" /\ x \notin closed
    /\ entry' = [x \in Entries |-> IF x \in new THEN "pending" ELSE entry[x]]
    /\ UNCHANGED <<carrying, accepted, closed>>

\* A carrier takes pending entries, whoever else has them.
Take(c, some) ==
    /\ carrying[c] = {}
    /\ \A x \in some : entry[x] = "pending"
    /\ carrying' = [carrying EXCEPT ![c] = some]
    /\ UNCHANGED <<entry, accepted, closed>>

\* The channel says yes.
Accept(c) ==
    /\ accepted' = accepted \cup carrying[c]
    /\ UNCHANGED <<entry, carrying, closed>>

\* All that a carrier has is settled at once, as long as all of it is there;
\* only what was accepted is settled as sent.
Settle(c, outcome) ==
    /\ \A x \in carrying[c] : entry[x] \notin {"none", "gone"}
    /\ outcome = "sent" => carrying[c] \subseteq accepted
    /\ entry' = [x \in Entries |-> IF x \in carrying[c] THEN outcome ELSE entry[x]]
    /\ closed' = closed \cup carrying[c]
    /\ carrying' = [carrying EXCEPT ![c] = {}]
    /\ UNCHANGED accepted

\* Carriers lose what they carry; the entries stay.
Drop(some) ==
    /\ carrying' = [c \in Carriers |-> IF c \in some THEN {} ELSE carrying[c]]
    /\ UNCHANGED <<entry, accepted, closed>>

\* Only what has been sent is forgotten.
Forget(old) ==
    /\ \A x \in old : x \in accepted /\ x \in closed /\ entry[x] # "gone"
    /\ entry' = [x \in Entries |-> IF x \in old THEN "none" ELSE entry[x]]
    /\ UNCHANGED <<carrying, accepted, closed>>

\* The posting is deleted, and does not come back.
Remove(gone) ==
    /\ entry' = [x \in Entries |-> IF x \in gone THEN "gone" ELSE entry[x]]
    /\ UNCHANGED <<carrying, accepted, closed>>

Next ==
    \/ \E some \in SUBSET Carriers : Drop(some)
    \/ \E c \in Carriers : Accept(c) \/ \E o \in Outcomes : Settle(c, o)
    \/ \E some \in SUBSET Entries :
         \/ \E c \in Carriers : Take(c, some)
         \/ Enter(some) \/ Forget(some) \/ Remove(some)

Spec == Init /\ [][Next]_ledger

=============================================================================
