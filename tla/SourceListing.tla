------------------------------ MODULE SourceListing ------------------------------
(***************************************************************************)
(* What collecting a source promises: the table of its postings follows    *)
(* the lists that the site shows, one list at a time.  A list that fails   *)
(* leaves no trace, and nothing between two lists is ever seen.            *)
(* PostingCollection and SiteCrawl implement it.                           *)
(***************************************************************************)
EXTENDS Naturals

CONSTANTS
    Ids,         \* the postings of the source
    CloseAfter   \* lists without a posting that close it

VARIABLE life    \* of each posting: how the table shows it

Unlisted == [state |-> "absent", missed |-> 0]
Open(n) == [state |-> "open", missed |-> n]
Closed == [state |-> "closed", missed |-> 0]

\* ... and a closed posting without its text.
Stripped == [state |-> "stripped", missed |-> 0]

Init == life = [p \in Ids |-> Unlisted]

Missed(l) ==
    CASE l.state = "open" /\ l.missed + 1 < CloseAfter -> Open(l.missed + 1)
      [] l.state = "open" /\ l.missed + 1 >= CloseAfter -> Closed
      [] OTHER -> l

\* A list names some postings; those that somebody is interested in are open
\* afterwards, whatever they were before, and the others are not kept.  If
\* the list is complete, it counts against the open postings that it lacks.
List(named, kept, complete) ==
    life' = [p \in Ids |->
               CASE p \in kept -> Open(0)
                 [] p \in named \ kept -> Unlisted
                 [] p \notin named /\ complete -> Missed(life[p])
                 [] OTHER -> life[p]]

\* Old postings go, and closed ones lose their text.
Retain(gone, stripped) ==
    /\ \A p \in stripped : life[p] = Closed
    /\ life' = [p \in Ids |->
                  CASE p \in gone -> Unlisted
                    [] p \in stripped \ gone -> Stripped
                    [] OTHER -> life[p]]

Next ==
    \/ \E named \in SUBSET Ids : \E kept \in SUBSET named :
         \E complete \in BOOLEAN : List(named, kept, complete)
    \/ \E gone, stripped \in SUBSET Ids : Retain(gone, stripped)

Spec == Init /\ [][Next]_life

=============================================================================
