------------------------- MODULE MCPostingCollection -------------------------
(***************************************************************************)
(* Instances of PostingCollection for TLC: a source with one posting whose *)
(* content changes, wanted for one keyword and excluded by another.        *)
(***************************************************************************)
EXTENDS PostingCollection, TLC

CONSTANTS p1, k1, k2, data, internship, analyst, sales

OnePosting     == {p1}
TwoContents    == {analyst, sales}
TwoKeywords    == {k1, k2}
TwoWordings    == {data, internship}
JustData       == {data}
JustInternship == {internship}

OwnTerms   == [w \in TwoWordings |-> w]
WhereFound == {<<data, analyst>>, <<data, sales>>, <<internship, sales>>}

\* The deadline of one of the contents is on the day before the first.
DayBefore == [c \in Contents |-> IF c = analyst THEN 0 ELSE Never]

AnyKeyword == Permutations(TwoKeywords)

=============================================================================
