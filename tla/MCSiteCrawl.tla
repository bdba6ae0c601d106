------------------------------ MODULE MCSiteCrawl ------------------------------
(***************************************************************************)
(* Instances of SiteCrawl for TLC: a site with two postings whose list page *)
(* takes each form that some crawler treats in a way of its own.           *)
(***************************************************************************)
EXTENDS SiteCrawl

CONSTANTS p1, p2

TwoPostings == {p1, p2}

Whole(p) == [posting |-> p, has |-> {"id", "title", "url", "company"}]

Both     == [kind |-> "list", records |-> {Whole(p1), Whole(p2)}]
JustOne  == [kind |-> "list", records |-> {Whole(p1)}]
\* A list whose records lack one thing each: what is left of it differs from
\* crawler to crawler.
Careless == [kind |-> "list",
             records |-> {[posting |-> p1, has |-> {"title", "url", "activity"}],
                          [posting |-> p2, has |-> {"id", "title", "company"}]}]
Broken   == [kind |-> "broken", records |-> {Whole(p1), Whole(p2)}]
Bare     == [kind |-> "bare", records |-> {}]
Foreign  == [kind |-> "foreign", records |-> {}]

SixPages == {Both, JustOne, Careless, Broken, Bare, Foreign}

\* Some answers carry no tag.
TaggedPages == {Both, JustOne, Broken, Foreign}

=============================================================================
