------------------------ MODULE PostingCollectionProofs ------------------------
(***************************************************************************)
(* Proofs about module PostingCollection, for any number of postings, of   *)
(* contents and of keywords, lists of any length and any number of days.   *)
(***************************************************************************)
EXTENDS PostingCollection, FiniteSetTheorems, SequenceTheorems, TLAPS

-----------------------------------------------------------------------------
(* The inductive invariant. *)

Shapes == {NoRow} \cup
          [there : {TRUE}, content : Contents, text : BOOLEAN, open : BOOLEAN,
           missing : 0..CloseAfter, firstSeen : Days, revisions : Seq(Revision)]

\* The revisions of a row lead from one content to the next, and to its own.
Chained(row) ==
    LET r == row.revisions IN
    /\ \A n \in 1..(Len(r) - 1) : r[n].new = r[n + 1].old
    /\ r # <<>> => r[Len(r)].new = row.content
    /\ \A n \in DOMAIN r : r[n].old # r[n].new

\* An open row has its text and has not been missed too often.
Rows == {row \in Shapes : /\ row.open => row.text /\ row.missing < CloseAfter
                          /\ Chained(row)}

Pcs == {"idle", "upserting", "locking", "matching", "committing"}

Collection ==
    [pc : Pcs, begun : Days \cup {Never}, complete : BOOLEAN, todo : Seq(RawJobs),
     seen : SUBSET Ids, kind : {"none", "new", "changed", "same"},
     touched : SUBSET Ids, dropped : SUBSET Ids, doomed : SUBSET Ids,
     rows : [Ids -> Rows], match : SUBSET Matches, fetched : Nat, new : Nat, updated : Nat,
     closed : {Cardinality(S) : S \in SUBSET Ids}]

TablesOK ==
    /\ day \in Days
    /\ keyword \in [Keywords -> KeywordRow \cup {NoKeyword}]
    /\ deleting \subseteq Keywords
    /\ posting \in [Ids -> Rows]
    /\ match \subseteq Matches
    /\ note \subseteq Ids
    /\ missed \in [Ids -> 0..CloseAfter]

\* The column missing_count agrees with the lists that have been seen.
MissesAgree(p) ==
    posting[p].there =>
        IF posting[p].open THEN posting[p].missing = missed[p]
        ELSE missed[p] = CloseAfter

\* Where the collection is in its list.
Handling ==
    /\ col.pc \in {"locking", "matching"} =>
         /\ col.todo # <<>>
         /\ Head(col.todo).content \in Contents
         /\ Head(col.todo).id \in col.seen
    /\ col.pc = "matching" =>
         /\ Head(col.todo).id \in col.touched
         /\ col.rows[Head(col.todo).id].there
         /\ col.rows[Head(col.todo).id].content = Head(col.todo).content

\* The rows it has written.
Pending(p) ==
    /\ p \in col.seen => \/ p \in col.touched
                         \/ col.pc = "locking" /\ p = Head(col.todo).id
    /\ p \in col.touched /\ p \in col.seen /\ col.rows[p].there =>
         /\ col.rows[p].open
         /\ col.rows[p].missing = 0
    /\ p \in col.touched /\ p \notin col.seen =>
         /\ col.pc = "committing"
         /\ col.complete
         /\ posting[p].there
         /\ posting[p].open
         /\ col.rows[p] = Missed(posting[p])
    /\ col.pc = "committing" /\ col.complete /\ p \notin col.seen
         /\ posting[p].there /\ posting[p].open => p \in col.touched

\* The rows that it is about to delete are rows of its own.
Doomed ==
    /\ col.doomed \subseteq col.dropped
    /\ col.doomed \subseteq col.seen
    /\ col.doomed \subseteq col.touched
    /\ col.pc = "committing" => col.doomed = {}

\* The evidence it has written, but that of the posting at hand.
PendingEvidence(x) ==
    /\ x[1] \in col.seen
    /\ x[1] \in col.touched
    /\ x[1] \notin col.doomed
    /\ keyword[x[2]].there
    /\ ~(col.pc = "matching" /\ x[1] = Head(col.todo).id) =>
         /\ col.rows[x[1]].there
         /\ <<x[3], col.rows[x[1]].content>> \in Finds

IInv ==
    /\ TablesOK
    /\ col \in Collection
    /\ col.pc = "idle" => col = Idle
    /\ col.pc # "idle" => col.begun \in Days
    /\ \A p \in Ids : MissesAgree(p) /\ Pending(p)
    /\ Handling
    /\ Doomed
    /\ EvidenceCurrent
    /\ \A x \in col.match : PendingEvidence(x)

-----------------------------------------------------------------------------
(* Rows. *)

LEMMA NoRowFacts ==
    /\ NoRow \in Rows
    /\ NoRow.there = FALSE
    /\ NoRow.open = FALSE
<1>1. NoRow.revisions = <<>> /\ NoRow.there = FALSE /\ NoRow.open = FALSE
  BY DEF NoRow
<1>2. Chained(NoRow)
  BY <1>1 DEF Chained
<1>3. QED
  BY <1>1, <1>2 DEF Rows, Shapes

LEMMA RowFacts ==
    ASSUME NEW row \in Rows
    PROVE  /\ row.there \in BOOLEAN
           /\ row.open \in BOOLEAN
           /\ row.text \in BOOLEAN
           /\ row.revisions \in Seq(Revision)
           /\ ~row.there => row = NoRow
           /\ row.there =>
                /\ row \in [there : {TRUE}, content : Contents, text : BOOLEAN,
                            open : BOOLEAN, missing : 0..CloseAfter,
                            firstSeen : Days, revisions : Seq(Revision)]
                /\ row.open => row.text /\ row.missing < CloseAfter
           /\ Chained(row)
           /\ IsRow(row)
<1>1. CASE row = NoRow
  <2>1. NoRow.revisions = <<>> /\ <<>> \in Seq(Revision)
    BY DEF NoRow
  <2>2. QED
    BY <1>1, <2>1, NoRowFacts DEF NoRow, Rows, IsRow
<1>2. CASE row \in [there : {TRUE}, content : Contents, text : BOOLEAN,
                    open : BOOLEAN, missing : 0..CloseAfter,
                    firstSeen : Days, revisions : Seq(Revision)]
  <2>1. row.revisions \in Seq(Revision)
    BY <1>2
  <2>2. \A n \in DOMAIN row.revisions : row.revisions[n] \in Revision
    BY <2>1, LenProperties
  <2>3. QED
    BY <1>2, <2>1, <2>2 DEF Rows, IsRow
<1>3. QED
  BY <1>1, <1>2 DEF Rows, Shapes

LEMMA NewRowFacts ==
    ASSUME col.begun \in Days, NEW content \in Contents
    PROVE  /\ NewRow(content) \in Rows
           /\ NewRow(content).there
           /\ NewRow(content).open
           /\ NewRow(content).missing = 0
           /\ NewRow(content).content = content
<1> DEFINE row == NewRow(content)
<1>1. /\ row.there = TRUE /\ row.content = content /\ row.text = TRUE
      /\ row.open = TRUE /\ row.missing = 0 /\ row.firstSeen = col.begun
      /\ row.revisions = <<>>
  BY DEF NewRow, NoRow
<1>2. 0 \in 0..CloseAfter /\ 0 < CloseAfter /\ <<>> \in Seq(Revision)
  BY CollectionConstantsOK
<1>3. row \in Shapes
  BY <1>2 DEF NewRow, NoRow, Shapes
<1>4. Chained(row)
  BY <1>1 DEF Chained
<1> HIDE DEF row
<1>5. row \in Rows
  BY <1>1, <1>2, <1>3, <1>4 DEF Rows
<1>6. QED
  BY <1>1, <1>5 DEF row

\* A row that is seen again, with the revision that its content makes.
LEMMA SeenFacts ==
    ASSUME NEW row \in Rows, row.there, NEW content \in Contents,
           NEW revised,
           revised = IF row.content # content
                     THEN [row EXCEPT !.revisions = Revised(row, content)]
                     ELSE row
    PROVE  /\ Seen(revised, content) \in Rows
           /\ Seen(revised, content).there
           /\ Seen(revised, content).open
           /\ Seen(revised, content).missing = 0
           /\ Seen(revised, content).content = content
<1> DEFINE r == IF row.content # content THEN Revised(row, content) ELSE row.revisions
           new == Seen(revised, content)
<1>1. /\ row \in [there : {TRUE}, content : Contents, text : BOOLEAN,
                  open : BOOLEAN, missing : 0..CloseAfter,
                  firstSeen : Days, revisions : Seq(Revision)]
      /\ Chained(row)
  BY RowFacts
<1>2. r \in Seq(Revision)
  <2>1. [old |-> row.content, new |-> content] \in Revision
    BY <1>1 DEF Revision
  <2>2. QED
    BY <1>1, <2>1, AppendProperties DEF Revised
<1>3. 0 \in 0..CloseAfter /\ 0 < CloseAfter
  BY CollectionConstantsOK
<1>4. /\ new \in [there : {TRUE}, content : Contents, text : BOOLEAN,
                  open : BOOLEAN, missing : 0..CloseAfter,
                  firstSeen : Days, revisions : Seq(Revision)]
      /\ new.there = TRUE /\ new.content = content /\ new.text = TRUE
      /\ new.open = TRUE /\ new.missing = 0 /\ new.revisions = r
  <2>1. CASE row.content # content
    <3> DEFINE q == Revised(row, content)
    <3>1. q \in Seq(Revision) /\ r = q /\ revised = [row EXCEPT !.revisions = q]
      BY <1>2, <2>1
    <3> HIDE DEF q, r
    <3>2. QED
      BY <1>1, <1>3, <3>1 DEF Seen
  <2>2. CASE row.content = content
    BY <1>1, <1>3, <2>2 DEF Seen
  <2>3. QED
    BY <2>1, <2>2
<1>5. /\ \A n \in 1..(Len(r) - 1) : r[n].new = r[n + 1].old
      /\ r # <<>> => r[Len(r)].new = content
      /\ \A n \in DOMAIN r : r[n].old # r[n].new
  <2>1. CASE row.content # content
    <3> DEFINE old == row.revisions
               e   == [old |-> row.content, new |-> content]
    <3>1. e \in Revision /\ e.old = row.content /\ e.new = content
      BY <1>1 DEF Revision
    <3>2. old \in Seq(Revision) /\ r = Append(old, e)
      BY <1>1, <2>1 DEF Revised
    <3>3. /\ \A n \in 1..(Len(old) - 1) : old[n].new = old[n + 1].old
          /\ old # <<>> => old[Len(old)].new = row.content
          /\ \A n \in DOMAIN old : old[n].old # old[n].new
      BY <1>1 DEF Chained
    <3> HIDE DEF old, e, r
    <3>4. /\ Len(old) \in Nat /\ Len(r) = Len(old) + 1
          /\ DOMAIN old = 1..Len(old) /\ DOMAIN r = 1..Len(r)
          /\ \A n \in 1..Len(old) : r[n] = old[n]
          /\ r[Len(old) + 1] = e
      BY <1>2, <3>1, <3>2, AppendProperties, LenProperties
    <3>5. r[Len(r)].new = content
      BY <3>1, <3>4
    <3>6. ASSUME NEW n \in 1..(Len(r) - 1)
          PROVE  r[n].new = r[n + 1].old
      <4>1. CASE n = Len(old)
        <5>1. old # <<>>
          BY <3>4, <4>1
        <5>2. QED
          BY <3>1, <3>3, <3>4, <4>1, <5>1
      <4>2. CASE n # Len(old)
        <5>1. n \in 1..(Len(old) - 1) /\ n \in 1..Len(old) /\ n + 1 \in 1..Len(old)
          BY <3>4, <4>2
        <5>2. QED
          BY <3>3, <3>4, <5>1
      <4>3. QED
        BY <4>1, <4>2
    <3>7. ASSUME NEW n \in DOMAIN r
          PROVE  r[n].old # r[n].new
      <4>1. CASE n = Len(old) + 1
        BY <2>1, <3>1, <3>4, <4>1
      <4>2. CASE n # Len(old) + 1
        <5>1. n \in 1..Len(old)
          BY <3>4, <4>2
        <5>2. QED
          BY <3>3, <3>4, <5>1
      <4>3. QED
        BY <4>1, <4>2
    <3>8. QED
      BY <3>5, <3>6, <3>7
  <2>2. CASE row.content = content
    BY <1>1, <2>2 DEF Chained
  <2>3. QED
    BY <2>1, <2>2
<1> HIDE DEF r, new
<1>6. Chained(new)
  BY <1>4, <1>5 DEF Chained
<1>7. new \in Rows
  BY <1>3, <1>4, <1>6 DEF Rows, Shapes
<1>8. QED
  BY <1>4, <1>7 DEF new

LEMMA MissedFacts ==
    ASSUME NEW row \in Rows, row.there, row.open
    PROVE  /\ Missed(row) \in Rows
           /\ Missed(row).there
           /\ Missed(row).content = row.content
           /\ Missed(row).text
           /\ Missed(row).missing = row.missing + 1
           /\ Missed(row).open <=> row.missing + 1 < CloseAfter
           /\ row.missing \in 0..(CloseAfter - 1)
<1> DEFINE new == Missed(row)
<1>1. /\ row \in [there : {TRUE}, content : Contents, text : BOOLEAN,
                  open : BOOLEAN, missing : 0..CloseAfter,
                  firstSeen : Days, revisions : Seq(Revision)]
      /\ row.text = TRUE /\ row.missing < CloseAfter /\ row.open = TRUE
      /\ Chained(row)
  BY RowFacts
<1>2. row.missing \in 0..(CloseAfter - 1) /\ row.missing + 1 \in 0..CloseAfter
  BY <1>1, CollectionConstantsOK
<1>3. /\ new \in [there : {TRUE}, content : Contents, text : BOOLEAN,
                  open : BOOLEAN, missing : 0..CloseAfter,
                  firstSeen : Days, revisions : Seq(Revision)]
      /\ new.content = row.content /\ new.text = TRUE
      /\ new.missing = row.missing + 1 /\ new.revisions = row.revisions
  BY <1>1, <1>2 DEF Missed
<1>4. new.open <=> row.missing + 1 < CloseAfter
  <2>1. CASE row.missing + 1 >= CloseAfter
    BY <1>1, <1>2, <2>1, CollectionConstantsOK DEF Missed
  <2>2. CASE ~(row.missing + 1 >= CloseAfter)
    BY <1>1, <1>2, <2>2, CollectionConstantsOK DEF Missed
  <2>3. QED
    BY <2>1, <2>2
<1> HIDE DEF new
<1>5. Chained(new)
  BY <1>1, <1>3 DEF Chained
<1>6. new \in Rows
  BY <1>2, <1>3, <1>4, <1>5 DEF Rows, Shapes
<1>7. QED
  BY <1>2, <1>3, <1>4, <1>6 DEF new

\* Retention keeps rows whole, or all but the text of those that are closed.
LEMMA RetainedFacts ==
    ASSUME NEW row \in Rows, NEW new \in Retained(row)
    PROVE  /\ new \in Rows
           /\ new.there => /\ row.there
                           /\ new.content = row.content
                           /\ new.open = row.open
                           /\ new.missing = row.missing
                           /\ new.text => row.text
                           /\ row.text /\ ~new.text => ~row.open
<1>1. CASE Expired(row)
  BY <1>1, NoRowFacts DEF Retained
<1>2. CASE ~Expired(row)
  <2>1. PICK text \in {row.text, row.text /\ ~MayClear(row)},
             n \in 1..(Len(row.revisions) + 1) :
          new = [row EXCEPT !.text = text,
                            !.revisions = SubSeq(@, n, Len(@))]
    <3> DEFINE kept(t, n) == [row EXCEPT !.text = t,
                                         !.revisions = SubSeq(@, n, Len(@))]
               texts  == {row.text, row.text /\ ~MayClear(row)}
               starts == 1..(Len(row.revisions) + 1)
    <3>1. Retained(row) = UNION {{kept(t, n) : n \in starts} : t \in texts}
      BY <1>2 DEF Retained
    <3> HIDE DEF kept, texts, starts
    <3>2. PICK t \in texts : new \in {kept(t, n) : n \in starts}
      BY <3>1
    <3>3. PICK n \in starts : new = kept(t, n)
      BY <3>2
    <3>4. QED
      BY <3>3 DEF kept, texts, starts
  <2> DEFINE old == row.revisions
             r   == SubSeq(old, n, Len(old))
  <2>2. old \in Seq(Revision)
    BY RowFacts
  <2>3. Len(old) \in Nat /\ DOMAIN old = 1..Len(old) /\ \A i \in 1..Len(old) : old[i] \in Revision
    BY <2>2, LenProperties
  <2>4. n \in 1..(Len(old) + 1)
    OBVIOUS
  <2>5. new = [row EXCEPT !.text = text, !.revisions = r]
    BY <2>1
  <2>6. /\ r \in Seq(Revision)
        /\ Len(r) = IF n <= Len(old) THEN Len(old) - n + 1 ELSE 0
        /\ \A i \in 1..(Len(old) - n + 1) : r[i] = old[n + i - 1]
    <3> HIDE DEF old
    <3>1. n \in Int /\ Len(old) \in Int /\ \A i \in n..Len(old) : old[i] \in Revision
      BY <2>3, <2>4
    <3>2. QED
      BY <3>1, SubSeqProperties
  <2> HIDE DEF r
  <2>7. CASE row.there
    <3>1. /\ row \in [there : {TRUE}, content : Contents, text : BOOLEAN,
                      open : BOOLEAN, missing : 0..CloseAfter,
                      firstSeen : Days, revisions : Seq(Revision)]
          /\ row.open => row.text /\ row.missing < CloseAfter
          /\ Chained(row)
      BY <2>7, RowFacts
    <3>2. /\ text \in BOOLEAN
          /\ text => row.text
          /\ row.text /\ ~text => ~row.open
      BY <2>1, <3>1 DEF MayClear
    <3>3. /\ new \in [there : {TRUE}, content : Contents, text : BOOLEAN,
                      open : BOOLEAN, missing : 0..CloseAfter,
                      firstSeen : Days, revisions : Seq(Revision)]
          /\ new.content = row.content /\ new.open = row.open
          /\ new.missing = row.missing /\ new.text = text /\ new.revisions = r
      BY <2>5, <2>6, <3>1, <3>2
    <3>4. /\ \A i \in 1..(Len(old) - 1) : old[i].new = old[i + 1].old
          /\ old # <<>> => old[Len(old)].new = row.content
          /\ \A i \in DOMAIN old : old[i].old # old[i].new
      BY <3>1 DEF Chained
    <3> HIDE DEF old
    <3>5. Len(r) \in Nat /\ DOMAIN r = 1..Len(r) /\ (r # <<>> => Len(r) # 0)
      BY <2>6, LenProperties, EmptySeq
    <3>6. ASSUME NEW i \in 1..(Len(r) - 1)
          PROVE  r[i].new = r[i + 1].old
      <4>1. /\ i \in 1..(Len(old) - n + 1) /\ i + 1 \in 1..(Len(old) - n + 1)
            /\ n + i - 1 \in 1..(Len(old) - 1)
            /\ n + (i + 1) - 1 = (n + i - 1) + 1
        <5>1. n <= Len(old) /\ Len(r) = Len(old) - n + 1
          BY <2>3, <2>4, <2>6, <3>6
        <5>2. QED
          BY <2>3, <2>4, <3>6, <5>1
      <4>2. r[i] = old[n + i - 1] /\ r[i + 1] = old[(n + i - 1) + 1]
        <5>1. r[i] = old[n + i - 1] /\ r[i + 1] = old[n + (i + 1) - 1]
          BY <2>6, <4>1
        <5>2. QED
          BY <4>1, <5>1
      <4>3. QED
        BY <3>4, <4>1, <4>2
    <3>7. ASSUME r # <<>>
          PROVE  r[Len(r)].new = row.content
      <4>1. n <= Len(old) /\ Len(r) \in 1..(Len(old) - n + 1) /\ n + Len(r) - 1 = Len(old)
        <5>1. n <= Len(old) /\ Len(r) = Len(old) - n + 1
          BY <2>3, <2>4, <2>6, <3>5, <3>7
        <5>2. QED
          BY <2>3, <2>4, <5>1
      <4>2. r[Len(r)] = old[Len(old)] /\ old # <<>>
        <5>1. r[Len(r)] = old[n + Len(r) - 1]
          BY <2>6, <4>1
        <5>2. old # <<>>
          <6>1. Len(old) # 0
            BY <2>3, <2>4, <4>1
          <6>2. QED
            BY <6>1, EmptySeq
        <5>3. QED
          BY <4>1, <5>1, <5>2
      <4>3. QED
        BY <3>4, <4>2
    <3>8. ASSUME NEW i \in DOMAIN r
          PROVE  r[i].old # r[i].new
      <4>1. i \in 1..(Len(old) - n + 1) /\ n + i - 1 \in DOMAIN old
        BY <2>3, <2>4, <2>6, <3>5
      <4>2. QED
        BY <2>6, <3>4, <4>1
    <3>9. Chained(new)
      BY <3>3, <3>6, <3>7, <3>8 DEF Chained
    <3>10. new \in Rows
      BY <3>1, <3>2, <3>3, <3>9 DEF Rows, Shapes
    <3>11. QED
      BY <2>7, <3>2, <3>3, <3>10
  <2>8. CASE ~row.there
    <3>1. row = NoRow /\ old = <<>> /\ text = FALSE
      <4>1. row = NoRow
        BY <2>8, RowFacts
      <4>2. NoRow.revisions = <<>> /\ NoRow.text = FALSE
        BY DEF NoRow
      <4>3. QED
        BY <2>1, <4>1, <4>2
    <3>2. r = <<>>
      BY <2>4, <2>6, <3>1, EmptySeq
    <3>3. new = NoRow
      BY <2>5, <3>1, <3>2 DEF NoRow
    <3>4. QED
      BY <3>3, NoRowFacts
  <2>9. QED
    BY <2>7, <2>8, RowFacts
<1>3. QED
  BY <1>1, <1>2

-----------------------------------------------------------------------------
(* The steps of the collection. *)

LEMMA IdleFacts ==
    /\ Idle \in Collection
    /\ Idle.pc = "idle"
    /\ Idle.seen = {}
    /\ Idle.touched = {}
    /\ Idle.match = {}
    /\ Idle.doomed = {}
<1>1. Unwritten \in [Ids -> Rows]
  BY NoRowFacts DEF Unwritten
<1>2. 0 \in {Cardinality(S) : S \in SUBSET Ids}
  BY FS_EmptySet
<1>3. <<>> \in Seq(RawJobs)
  OBVIOUS
<1>4. QED
  BY <1>1, <1>2, <1>3 DEF Idle, Collection, Pcs

\* Nothing is pending when no collection is under way.
LEMMA IdleInv ==
    ASSUME TablesOK', col' = Idle, EvidenceCurrent',
           \A p \in Ids : MissesAgree(p)'
    PROVE  IInv'
<1>1. \A p \in Ids : Pending(p)'
  BY IdleFacts DEF Pending
<1>2. Handling'
  BY IdleFacts DEF Handling
<1>3. (\A x \in col'.match : PendingEvidence(x)') /\ Doomed'
  BY IdleFacts DEF Doomed
<1>4. QED
  BY <1>1, <1>2, <1>3, IdleFacts DEF IInv

LEMMA InitInv == Init => IInv
<1> SUFFICES ASSUME Init PROVE IInv
  OBVIOUS
<1>1. TablesOK
  <2>1. 1 \in Days /\ 0 \in 0..CloseAfter
    BY CollectionConstantsOK DEF Days
  <2>2. Unwritten \in [Ids -> Rows]
    BY NoRowFacts DEF Unwritten
  <2>3. QED
    BY <2>1, <2>2 DEF Init, TablesOK, NoKeyword
<1>2. \A p \in Ids : MissesAgree(p) /\ Pending(p)
  BY IdleFacts, NoRowFacts DEF Init, Unwritten, MissesAgree, Pending
<1>3. /\ Handling /\ Doomed /\ EvidenceCurrent
      /\ \A x \in col.match : PendingEvidence(x)
  BY IdleFacts DEF Init, Handling, Doomed, EvidenceCurrent
<1>4. QED
  BY <1>1, <1>2, <1>3, IdleFacts DEF Init, IInv

\* A step within the collection: the tables stay.
LEMMA ColStep ==
    ASSUME IInv, UNCHANGED <<day, admin, tables, missed>>,
           col' \in Collection, col'.pc # "idle", col'.begun \in Days,
           \A p \in Ids : Pending(p)',
           Handling', Doomed',
           \A x \in col'.match : PendingEvidence(x)'
    PROVE  IInv'
<1>1. UNCHANGED <<day, keyword, deleting, posting, match, note, missed>>
  BY DEF admin, tables
<1>2. TablesOK' /\ EvidenceCurrent' /\ \A p \in Ids : MissesAgree(p)'
  BY <1>1 DEF IInv, TablesOK, EvidenceCurrent, MissesAgree
<1>3. QED
  BY <1>2 DEF IInv

LEMMA BeginInv ==
    ASSUME IInv, Begin
    PROVE  IInv'
<1>1. PICK batch \in Batches, complete \in BOOLEAN :
         col' = [Idle EXCEPT !.pc = "upserting", !.begun = day,
                             !.complete = complete, !.todo = batch,
                             !.fetched = Len(batch)]
  BY DEF Begin
<1>2. batch \in Seq(RawJobs) /\ Len(batch) \in Nat
  <2>1. PICK n \in 0..MaxBatch : batch \in [1..n -> RawJobs]
    BY DEF Batches
  <2>2. n \in Nat
    OBVIOUS
  <2>3. batch \in Seq(RawJobs)
    BY <2>1, <2>2, SeqDef
  <2>4. QED
    BY <2>3, LenProperties
<1>3. day \in Days
  BY DEF IInv, TablesOK
<1>4. /\ col' \in Collection
      /\ col'.pc = "upserting" /\ col'.begun = day
      /\ col'.seen = {} /\ col'.touched = {} /\ col'.match = {}
      /\ col'.doomed = {}
  <2>1. "upserting" \in Pcs
    BY DEF Pcs
  <2>2. Idle \in Collection
    BY IdleFacts
  <2>3. col' \in Collection
    BY <1>1, <1>2, <1>3, <2>1, <2>2 DEF Collection
  <2>4. QED
    BY <1>1, <2>2, <2>3, IdleFacts DEF Collection
<1>5. (\A p \in Ids : Pending(p)') /\ Handling' /\ Doomed'
  BY <1>4 DEF Pending, Handling, Doomed
<1>6. UNCHANGED <<day, admin, tables, missed>>
  BY DEF Begin
<1>7. QED
  BY <1>3, <1>4, <1>5, <1>6, ColStep

\* The raw posting at hand.
LEMMA HeadFacts ==
    ASSUME col \in Collection, col.todo # <<>>
    PROVE  /\ Head(col.todo).id \in Ids
           /\ Head(col.todo).content \in Contents \cup {Blank}
           /\ Tail(col.todo) \in Seq(RawJobs)
<1>1. col.todo \in Seq(RawJobs)
  BY DEF Collection
<1>2. Head(col.todo) \in RawJobs /\ Tail(col.todo) \in Seq(RawJobs)
  BY <1>1, HeadTailProperties
<1>3. QED
  BY <1>2 DEF RawJobs

LEMMA RowIsRow ==
    ASSUME IInv, NEW p \in Ids
    PROVE  Row(p) \in Rows
BY DEF IInv, TablesOK, Collection, Row

LEMMA UpsertInv ==
    ASSUME IInv, Upsert
    PROVE  IInv'
<1> DEFINE h == Head(col.todo)
           p == h.id
           new == NewRow(h.content)
<1>1. /\ col.pc = "upserting"
      /\ col.todo # <<>>
      /\ h.content # Blank
      /\ col \in Collection
      /\ col.begun \in Days
      /\ UNCHANGED <<day, admin, tables, missed>>
  BY DEF Upsert, IInv
<1>2. p \in Ids /\ h.content \in Contents
  BY <1>1, HeadFacts
<1>3. UNCHANGED <<keyword, posting>>
  BY <1>1 DEF admin, tables
<1>4. \A q \in Ids : Pending(q)
  BY DEF IInv
<1>5. (\A x \in col.match : PendingEvidence(x)) /\ Doomed
  BY DEF IInv
<1>6. CASE ~Row(p).there
  <2> DEFINE t == col.touched \cup {p}
             r == [col.rows EXCEPT ![p] = new]
             c == [col EXCEPT !.pc = "matching", !.kind = "new",
                              !.seen = @ \cup {p}, !.touched = t, !.rows = r]
  <2>1. col' = c
    BY <1>6 DEF Upsert, Write
  <2>2. new \in Rows /\ new.there /\ new.open /\ new.missing = 0 /\ new.content = h.content
    BY <1>1, <1>2, NewRowFacts
  <2>3. t \in SUBSET Ids /\ r \in [Ids -> Rows]
        /\ r[p] = new /\ \A q \in Ids \ {p} : r[q] = col.rows[q]
    BY <1>1, <1>2, <2>2 DEF Collection
  <2>4. /\ p \in t
        /\ \A q : q \in t <=> q \in col.touched \/ q = p
    OBVIOUS
  <2> HIDE DEF h, p, new, t, r
  <2>5. /\ c \in Collection
        /\ c.pc = "matching" /\ c.begun = col.begun /\ c.todo = col.todo
        /\ c.seen = col.seen \cup {p} /\ c.touched = t /\ c.rows = r
        /\ c.match = col.match /\ c.complete = col.complete
        /\ c.doomed = col.doomed /\ c.dropped = col.dropped
    BY <1>1, <1>2, <2>3 DEF Collection, Pcs
  <2> HIDE DEF c
  <2>6. Head(col'.todo).id = p /\ Head(col'.todo).content = h.content
    BY <2>1, <2>5 DEF p, h
  <2>7. ASSUME NEW q \in Ids
        PROVE  Pending(q)'
    <3>1. CASE q = p
      BY <2>1, <2>2, <2>3, <2>4, <2>5, <3>1 DEF Pending
    <3>2. CASE q # p
      <4>1. /\ q \in col'.seen <=> q \in col.seen
            /\ q \in col'.touched <=> q \in col.touched
            /\ col'.rows[q] = col.rows[q]
            /\ col'.pc = "matching"
        BY <2>1, <2>3, <2>4, <2>5, <3>2
      <4>2. QED
        BY <1>1, <1>4, <4>1 DEF Pending
    <3>3. QED
      BY <3>1, <3>2
  <2>8. Handling'
    BY <1>1, <1>2, <2>1, <2>2, <2>3, <2>4, <2>5, <2>6 DEF Handling
  <2>9. ASSUME NEW x \in col'.match
        PROVE  PendingEvidence(x)'
    <3>1. x \in col.match /\ PendingEvidence(x) /\ x[1] \in Ids
      BY <1>1, <1>5, <2>1, <2>5 DEF Collection, Matches
    <3>2. CASE x[1] = p
      BY <1>3, <2>1, <2>4, <2>5, <2>6, <3>1, <3>2 DEF PendingEvidence
    <3>3. CASE x[1] # p
      <4>1. col'.rows[x[1]] = col.rows[x[1]]
        BY <2>1, <2>3, <2>5, <3>1, <3>3
      <4>2. QED
        BY <1>1, <1>3, <2>1, <2>4, <2>5, <3>1, <4>1 DEF PendingEvidence
    <3>4. QED
      BY <3>2, <3>3
  <2>10. Doomed'
    BY <1>1, <1>5, <2>1, <2>4, <2>5 DEF Doomed
  <2>11. QED
    BY <1>1, <2>1, <2>5, <2>7, <2>8, <2>9, <2>10, ColStep
<1>7. CASE Row(p).there
  <2> DEFINE c == [col EXCEPT !.pc = "locking", !.seen = @ \cup {p}]
  <2>1. col' = c
    BY <1>7 DEF Upsert
  <2> HIDE DEF h, p, new
  <2>2. /\ c \in Collection
        /\ c.pc = "locking" /\ c.begun = col.begun /\ c.todo = col.todo
        /\ c.seen = col.seen \cup {p} /\ c.touched = col.touched /\ c.rows = col.rows
        /\ c.match = col.match /\ c.complete = col.complete
        /\ c.doomed = col.doomed /\ c.dropped = col.dropped
    BY <1>1, <1>2 DEF Collection, Pcs
  <2> HIDE DEF c
  <2>3. Head(col'.todo).id = p /\ Head(col'.todo).content = h.content
    BY <2>1, <2>2 DEF p, h
  <2>4. ASSUME NEW q \in Ids
        PROVE  Pending(q)'
    <3>1. q \in col.touched => q \in col.seen
      BY <1>1, <1>4 DEF Pending
    <3>2. q \in col'.seen => q = p \/ q \in col.touched
      BY <1>1, <1>4, <2>1, <2>2 DEF Pending
    <3>3. QED
      BY <1>1, <1>4, <2>1, <2>2, <2>3, <3>1, <3>2 DEF Pending
  <2>5. Handling'
    BY <1>1, <1>2, <2>1, <2>2, <2>3 DEF Handling
  <2>6. ASSUME NEW x \in col'.match
        PROVE  PendingEvidence(x)'
    BY <1>1, <1>3, <1>5, <2>1, <2>2 DEF PendingEvidence
  <2>7. Doomed'
    BY <1>1, <1>5, <2>1, <2>2 DEF Doomed
  <2>8. QED
    BY <1>1, <2>1, <2>2, <2>4, <2>5, <2>6, <2>7, ColStep
<1>8. QED
  BY <1>6, <1>7

LEMMA LockInv ==
    ASSUME IInv, Lock
    PROVE  IInv'
<1> DEFINE h == Head(col.todo)
           p == h.id
           row == Row(p)
           revised == IF row.content # h.content
                      THEN [row EXCEPT !.revisions = Revised(row, h.content)]
                      ELSE row
           new == Seen(revised, h.content)
           t == col.touched \cup {p}
           r == [col.rows EXCEPT ![p] = new]
           kind == IF row.content # h.content THEN "changed" ELSE "same"
           c == [col EXCEPT !.pc = "matching", !.kind = kind,
                            !.touched = t, !.rows = r]
<1>1. /\ col.pc = "locking"
      /\ row.there
      /\ col' = c
      /\ UNCHANGED <<day, admin, tables, missed>>
  BY DEF Lock, Write
<1>2. /\ col \in Collection
      /\ col.begun \in Days
      /\ col.todo # <<>>
      /\ h.content \in Contents
      /\ p \in col.seen
      /\ \A q \in Ids : Pending(q)
      /\ \A x \in col.match : PendingEvidence(x)
      /\ Doomed
  BY <1>1 DEF IInv, Handling
<1>3. p \in Ids /\ row \in Rows
  BY <1>2, HeadFacts, RowIsRow
<1>4. new \in Rows /\ new.there /\ new.open /\ new.missing = 0 /\ new.content = h.content
  <2> HIDE DEF row, h
  <2>1. QED
    BY <1>1, <1>2, <1>3, SeenFacts
<1>5. t \in SUBSET Ids /\ r \in [Ids -> Rows]
        /\ r[p] = new /\ \A q \in Ids \ {p} : r[q] = col.rows[q]
  <2> HIDE DEF new, p
  <2>1. QED
    BY <1>2, <1>3, <1>4 DEF Collection
<1>6. \A q : q \in t <=> q \in col.touched \/ q = p
  OBVIOUS
<1>7. UNCHANGED <<keyword, posting>> /\ kind \in {"changed", "same"}
  BY <1>1 DEF admin, tables
<1> HIDE DEF h, p, row, new, t, r, kind, revised
<1>8. /\ c \in Collection
      /\ c.pc = "matching" /\ c.begun = col.begun /\ c.todo = col.todo
      /\ c.seen = col.seen /\ c.touched = t /\ c.rows = r
      /\ c.match = col.match /\ c.complete = col.complete
      /\ c.doomed = col.doomed /\ c.dropped = col.dropped
  BY <1>2, <1>3, <1>5, <1>7 DEF Collection, Pcs
<1> HIDE DEF c
<1>9. Head(col'.todo).id = p /\ Head(col'.todo).content = h.content
  BY <1>1, <1>8 DEF p, h
<1>10. ASSUME NEW q \in Ids
       PROVE  Pending(q)'
  <2>1. CASE q = p
    BY <1>1, <1>2, <1>4, <1>5, <1>6, <1>8, <2>1 DEF Pending
  <2>2. CASE q # p
    <3>1. /\ q \in col'.seen <=> q \in col.seen
          /\ q \in col'.touched <=> q \in col.touched
          /\ col'.rows[q] = col.rows[q]
          /\ col'.pc = "matching"
      BY <1>1, <1>5, <1>6, <1>8, <2>2
    <3>2. q \in col.seen => q \in col.touched
      BY <1>2, <2>2 DEF Pending, p, h
    <3>3. QED
      BY <1>1, <1>2, <3>1, <3>2 DEF Pending
  <2>3. QED
    BY <2>1, <2>2
<1>11. Handling'
  BY <1>1, <1>2, <1>3, <1>4, <1>5, <1>6, <1>8, <1>9 DEF Handling
<1>12. ASSUME NEW x \in col'.match
       PROVE  PendingEvidence(x)'
  <2>1. x \in col.match /\ PendingEvidence(x) /\ x[1] \in Ids
    BY <1>1, <1>2, <1>8 DEF Collection, Matches
  <2>2. CASE x[1] = p
    BY <1>1, <1>2, <1>6, <1>7, <1>8, <1>9, <2>1, <2>2 DEF PendingEvidence
  <2>3. CASE x[1] # p
    <3>1. col'.rows[x[1]] = col.rows[x[1]]
      BY <1>1, <1>5, <1>8, <2>1, <2>3
    <3>2. QED
      BY <1>1, <1>6, <1>7, <1>8, <2>1, <3>1 DEF PendingEvidence
  <2>4. QED
    BY <2>2, <2>3
<1>13. Doomed'
  BY <1>1, <1>2, <1>6, <1>8 DEF Doomed
<1>14. QED
  BY <1>1, <1>2, <1>8, <1>10, <1>11, <1>12, <1>13, ColStep

LEMMA MatchInv ==
    ASSUME IInv, Match
    PROVE  IInv'
<1> DEFINE h == Head(col.todo)
           p == h.id
           found == Found(h.content)
           persist == ShouldPersist(found)
           counted == Counted(col.kind, persist)
           m == (col.match \ Of(p)) \cup (IF persist THEN Evidence(p, found) ELSE {})
           doomed == IF persist THEN {} ELSE {p} \ col.doomed
           dropped == IF persist THEN col.dropped ELSE col.dropped \cup {p}
           new == IF counted /\ col.kind = "new" THEN col.new + 1 ELSE col.new
           updated == IF counted /\ col.kind = "changed" THEN col.updated + 1
                      ELSE col.updated
           c == [col EXCEPT !.pc = "upserting", !.kind = "none", !.todo = Tail(@),
                            !.match = m, !.rows = Flushed, !.doomed = doomed,
                            !.dropped = dropped,
                            !.new = new, !.updated = updated]
<1>1. col.pc = "matching" /\ UNCHANGED <<day, admin, tables, missed>>
  BY DEF Match
<1>2. col' = c
  BY DEF Match
<1>3. /\ col \in Collection
      /\ col.begun \in Days
      /\ col.todo # <<>>
      /\ h.content \in Contents
      /\ p \in col.seen /\ p \in col.touched
      /\ col.rows[p].there /\ col.rows[p].content = h.content
      /\ \A q \in Ids : Pending(q)
      /\ \A x \in col.match : PendingEvidence(x)
      /\ Doomed
  BY <1>1 DEF IInv, Handling
<1>4. p \in Ids /\ Tail(col.todo) \in Seq(RawJobs)
  BY <1>3, HeadFacts
<1>5. /\ found \subseteq Keywords
      /\ p \in col.doomed => found = {}
      /\ \A k \in found : /\ keyword[k].there
                          /\ Says(k) \in Wordings
                          /\ <<Says(k), h.content>> \in Finds
  <2>1. keyword \in [Keywords -> KeywordRow \cup {NoKeyword}]
    BY DEF IInv, TablesOK
  <2>2. p \in col.doomed => found = {}
    BY DEF Match
  <2>3. ASSUME NEW k \in Keywords, keyword[k].there
        PROVE  Says(k) \in Wordings
    <3>1. NoKeyword.there = FALSE
      BY DEF NoKeyword
    <3>2. keyword[k] \in KeywordRow
      BY <2>1, <2>3, <3>1
    <3> QED
      BY <3>2 DEF Says, KeywordRow
  <2> QED
    BY <2>2, <2>3 DEF Found, Active
<1> HIDE DEF h, p, found, persist, counted
<1>6. /\ Flushed \in [Ids -> Rows]
      /\ \A q \in Ids : Flushed[q] = IF q \in col.doomed THEN NoRow ELSE col.rows[q]
  BY <1>3, NoRowFacts DEF Collection, Flushed
<1>7. /\ m \in SUBSET Matches
      /\ \A x \in m : \/ x \in col.match /\ x[1] # p
                      \/ persist /\ \E k \in found : x = <<p, k, Says(k)>>
  <2>1. col.match \subseteq Matches
    BY <1>3 DEF Collection
  <2>2. ASSUME NEW x \in m
        PROVE  /\ x \in Matches
               /\ \/ x \in col.match /\ x[1] # p
                  \/ persist /\ \E k \in found : x = <<p, k, Says(k)>>
    <3>1. CASE x \in col.match \ Of(p)
      BY <2>1, <3>1 DEF Of
    <3>2. CASE x \notin col.match \ Of(p)
      <4>1. persist /\ x \in Evidence(p, found)
        BY <3>2
      <4>2. PICK k \in found : x = <<p, k, Says(k)>>
        BY <4>1 DEF Evidence
      <4>3. x \in Matches
        BY <1>4, <1>5, <4>2 DEF Matches
      <4> QED
        BY <4>1, <4>2, <4>3
    <3>3. QED
      BY <3>1, <3>2
  <2>3. QED
    BY <2>2
<1>8. /\ dropped \in SUBSET Ids /\ new \in Nat /\ updated \in Nat
      /\ doomed \in SUBSET Ids
      /\ doomed \subseteq {p} /\ (persist => doomed = {}) /\ (~persist => p \in dropped)
  BY <1>3, <1>4 DEF Collection
<1> HIDE DEF m, doomed, dropped, new, updated
<1>9. /\ c \in Collection
      /\ c.pc = "upserting" /\ c.begun = col.begun /\ c.seen = col.seen
      /\ c.touched = col.touched /\ c.rows = Flushed /\ c.match = m
      /\ c.complete = col.complete /\ c.doomed = doomed /\ c.dropped = dropped
  BY <1>3, <1>4, <1>6, <1>7, <1>8 DEF Collection, Pcs
<1> HIDE DEF c
<1>10. UNCHANGED <<keyword, posting>>
  BY <1>1 DEF admin, tables
<1>11. ASSUME NEW q \in Ids
       PROVE  Pending(q)'
  <2>1. CASE q \in col.doomed
    <3>1. col'.rows[q] = NoRow /\ q \in col.seen /\ q \in col.touched
      BY <1>2, <1>3, <1>6, <1>9, <2>1 DEF Doomed
    <3> QED
      BY <1>2, <1>9, <3>1, NoRowFacts DEF Pending
  <2>2. CASE q \notin col.doomed
    <3>1. col'.rows[q] = col.rows[q]
      BY <1>2, <1>6, <1>9, <2>2
    <3>2. QED
      BY <1>1, <1>2, <1>3, <1>9, <3>1 DEF Pending
  <2>3. QED
    BY <2>1, <2>2
<1>12. Handling' /\ Doomed'
  BY <1>2, <1>3, <1>8, <1>9 DEF Handling, Doomed
<1>13. ASSUME NEW x \in col'.match
       PROVE  PendingEvidence(x)'
  <2>1. CASE x \in col.match /\ x[1] # p
    <3>1. PendingEvidence(x) /\ x[1] \in Ids
      BY <1>3, <2>1 DEF Collection, Matches
    <3>2. col.rows[x[1]].there /\ <<x[3], col.rows[x[1]].content>> \in Finds
      BY <2>1, <3>1 DEF PendingEvidence, p, h
    <3>3. col'.rows[x[1]] = col.rows[x[1]] /\ x[1] \notin col'.doomed
      BY <1>2, <1>6, <1>8, <1>9, <2>1, <3>1 DEF PendingEvidence
    <3>4. QED
      BY <1>2, <1>9, <1>10, <3>1, <3>2, <3>3 DEF PendingEvidence
  <2>2. CASE persist /\ \E k \in found : x = <<p, k, Says(k)>>
    <3>1. PICK k \in found : x = <<p, k, Says(k)>>
      BY <2>2
    <3>2. x[1] = p /\ x[2] = k /\ x[3] = Says(k)
      BY <3>1
    <3>3. col'.rows[p] = col.rows[p] /\ p \notin col'.doomed
      BY <1>2, <1>4, <1>5, <1>6, <1>8, <1>9, <2>2, <3>1
    <3>4. keyword'[k].there /\ <<Says(k), h.content>> \in Finds
      BY <1>5, <1>10, <3>1
    <3>5. QED
      BY <1>2, <1>3, <1>9, <3>2, <3>3, <3>4 DEF PendingEvidence
  <2>3. QED
    BY <1>2, <1>7, <1>9, <2>1, <2>2
<1>14. QED
  BY <1>1, <1>2, <1>3, <1>9, <1>11, <1>12, <1>13, ColStep

LEMMA CloseMissingInv ==
    ASSUME IInv, CloseMissing
    PROVE  IInv'
<1> DEFINE t == col.touched \cup Missing
           r == [p \in Ids |-> IF p \in Missing THEN Missed(Row(p)) ELSE Flushed[p]]
           n == Cardinality({p \in Missing : ~Missed(Row(p)).open})
           c == [col EXCEPT !.pc = "committing", !.touched = t, !.rows = r,
                            !.doomed = {}, !.closed = n]
<1>1. /\ col.pc = "upserting"
      /\ col' = c
      /\ UNCHANGED <<day, admin, tables, missed>>
  BY DEF CloseMissing
<1>2. /\ col \in Collection
      /\ col.begun \in Days
      /\ \A q \in Ids : Pending(q)
      /\ \A x \in col.match : PendingEvidence(x)
      /\ posting \in [Ids -> Rows]
      /\ Doomed
  BY <1>1 DEF IInv, TablesOK
<1>3. \A q \in Ids : /\ q \in col.touched => q \in col.seen
                     /\ q \in col.seen => q \in col.touched
  BY <1>1, <1>2 DEF Pending
<1>4. ASSUME NEW q \in Missing
      PROVE  /\ q \in Ids /\ q \notin col.seen /\ col.complete
             /\ Row(q) = posting[q]
             /\ posting[q].there /\ posting[q].open
  BY <1>3 DEF Missing, Row
<1>5. r \in [Ids -> Rows] /\ t \in SUBSET Ids
  <2>1. ASSUME NEW q \in Ids
        PROVE  r[q] \in Rows
    <3>1. CASE q \in Missing
      BY <1>2, <1>4, <3>1, MissedFacts
    <3>2. CASE q \notin Missing
      BY <1>2, <3>2, NoRowFacts DEF Collection, Flushed
    <3>3. QED
      BY <3>1, <3>2
  <2>2. t \in SUBSET Ids
    BY <1>2, <1>4 DEF Collection
  <2>3. QED
    BY <2>1, <2>2
<1>6. n \in {Cardinality(S) : S \in SUBSET Ids}
  <2>1. {p \in Missing : ~Missed(Row(p)).open} \in SUBSET Ids
    BY <1>4
  <2>2. QED
    BY <2>1
<1>7. ASSUME NEW q \in Ids
      PROVE  /\ q \in t <=> q \in col.touched \/ q \in Missing
             /\ q \in Missing => r[q] = Missed(posting[q])
             /\ q \notin Missing =>
                  r[q] = IF q \in col.doomed THEN NoRow ELSE col.rows[q]
  BY <1>4 DEF Flushed
<1> HIDE DEF t, r, n
<1>8. /\ c \in Collection
      /\ c.pc = "committing" /\ c.begun = col.begun /\ c.seen = col.seen
      /\ c.touched = t /\ c.rows = r /\ c.match = col.match
      /\ c.complete = col.complete /\ c.doomed = {}
  BY <1>2, <1>5, <1>6 DEF Collection, Pcs
<1> HIDE DEF c
<1>9. UNCHANGED <<keyword, posting>>
  BY <1>1 DEF admin, tables
<1>10. ASSUME NEW q \in Ids
       PROVE  Pending(q)'
  <2>1. CASE q \in Missing
    BY <1>1, <1>4, <1>7, <1>8, <1>9, <2>1 DEF Pending
  <2>2. CASE q \notin Missing /\ q \in col.doomed
    <3>1. /\ col'.rows[q] = NoRow
          /\ q \in col.seen /\ q \in col'.touched
      BY <1>1, <1>2, <1>7, <1>8, <2>2 DEF Doomed
    <3> QED
      BY <1>1, <1>8, <3>1, NoRowFacts DEF Pending
  <2>3. CASE q \notin Missing /\ q \notin col.doomed
    <3>1. /\ col'.rows[q] = col.rows[q]
          /\ q \in col'.touched <=> q \in col.touched
      BY <1>1, <1>7, <1>8, <2>3
    <3>2. q \notin col.seen /\ col.complete => ~(posting[q].there /\ posting[q].open)
      BY <1>3, <2>3 DEF Missing, Row
    <3>3. QED
      BY <1>1, <1>2, <1>3, <1>8, <1>9, <3>1, <3>2 DEF Pending
  <2>4. QED
    BY <2>1, <2>2, <2>3
<1>11. Handling' /\ Doomed'
  BY <1>1, <1>8 DEF Handling, Doomed
<1>12. ASSUME NEW x \in col'.match
       PROVE  PendingEvidence(x)'
  <2>1. x \in col.match /\ PendingEvidence(x) /\ x[1] \in Ids
    BY <1>1, <1>2, <1>8 DEF Collection, Matches
  <2>2. x[1] \notin Missing
    BY <1>4, <2>1 DEF PendingEvidence
  <2>3. col'.rows[x[1]] = col.rows[x[1]] /\ x[1] \in col'.touched
    BY <1>1, <1>7, <1>8, <2>1, <2>2 DEF PendingEvidence
  <2>4. QED
    BY <1>1, <1>8, <1>9, <2>1, <2>3 DEF PendingEvidence
<1>13. QED
  BY <1>1, <1>2, <1>8, <1>10, <1>11, <1>12, ColStep

\* What a collection has found of each posting when it commits.
LEMMA CommitFacts ==
    ASSUME IInv, col.pc = "committing", NEW p \in Ids
    PROVE  /\ Row(p) \in Rows
           /\ p \in col.seen => /\ Row(p) = col.rows[p]
                                /\ Row(p).there => Row(p).open /\ Row(p).missing = 0
           /\ p \notin col.seen => \/ Row(p) = posting[p]
                                   \/ /\ Row(p) = Missed(posting[p])
                                      /\ col.complete
                                      /\ posting[p].there
                                      /\ posting[p].open
           /\ p \notin col.seen /\ col.complete
              /\ posting[p].there /\ posting[p].open => Row(p) = Missed(posting[p])
<1>1. Pending(p)
  BY DEF IInv
<1>2. Row(p) \in Rows
  BY RowIsRow
<1>3. QED
  BY <1>1, <1>2 DEF Pending, Row

LEMMA CommitInv ==
    ASSUME IInv, Commit
    PROVE  IInv'
<1>1. /\ col.pc = "committing"
      /\ posting' = [p \in Ids |-> Row(p)]
      /\ match' = {x \in match : x[1] \notin col.seen} \cup col.match
      /\ note' = note \ col.dropped
      /\ col' = Idle
      /\ UNCHANGED <<day, keyword, deleting>>
  BY DEF Commit, admin
<1>2. missed' = [p \in Ids |->
         CASE p \in col.seen -> 0
           [] p \notin col.seen /\ col.complete /\ missed[p] < CloseAfter -> missed[p] + 1
           [] OTHER -> missed[p]]
  BY DEF Commit
<1>3. TablesOK /\ col \in Collection /\ EvidenceCurrent
  BY DEF IInv
<1>4. ASSUME NEW p \in Ids
      PROVE  /\ p \in col.seen => missed'[p] = 0
             /\ p \notin col.seen /\ col.complete /\ missed[p] < CloseAfter =>
                  missed'[p] = missed[p] + 1
             /\ p \notin col.seen /\ ~(col.complete /\ missed[p] < CloseAfter) =>
                  missed'[p] = missed[p]
             /\ missed'[p] \in 0..CloseAfter
  <2>1. missed[p] \in 0..CloseAfter /\ 0 \in 0..CloseAfter
    BY <1>3, CollectionConstantsOK DEF TablesOK
  <2>2. missed[p] < CloseAfter => missed[p] + 1 \in 0..CloseAfter
    BY <2>1, CollectionConstantsOK
  <2>3. CASE p \in col.seen
    BY <1>2, <2>1, <2>3
  <2>4. CASE p \notin col.seen /\ col.complete /\ missed[p] < CloseAfter
    BY <1>2, <2>1, <2>2, <2>4
  <2>5. CASE p \notin col.seen /\ ~(col.complete /\ missed[p] < CloseAfter)
    BY <1>2, <2>1, <2>5
  <2>6. QED
    BY <2>3, <2>4, <2>5
<1>5. TablesOK'
  <2>1. posting' \in [Ids -> Rows]
    BY <1>1, CommitFacts
  <2>2. missed' \in [Ids -> 0..CloseAfter]
    BY <1>2, <1>4
  <2>3. match' \subseteq Matches
    BY <1>1, <1>3 DEF TablesOK, Collection
  <2>4. QED
    BY <1>1, <1>3, <2>1, <2>2, <2>3 DEF TablesOK
<1>6. ASSUME NEW p \in Ids
      PROVE  MissesAgree(p)'
  <2>1. MissesAgree(p) /\ posting'[p] = Row(p) /\ posting[p] \in Rows
    BY <1>1, <1>3 DEF IInv, TablesOK
  <2>2. CASE p \in col.seen
    BY <1>1, <1>4, <2>1, <2>2, CommitFacts DEF MissesAgree
  <2>3. CASE p \notin col.seen /\ Row(p) = posting[p]
    <3>1. ASSUME posting[p].there
          PROVE  missed'[p] = missed[p]
      <4>1. CASE posting[p].open /\ col.complete
        <5>1. Row(p) = Missed(posting[p])
          BY <1>1, <2>3, <3>1, <4>1, CommitFacts
        <5>2. posting[p].missing \in 0..(CloseAfter - 1)
              /\ posting[p].missing = posting[p].missing + 1
          BY <2>1, <2>3, <3>1, <4>1, <5>1, MissedFacts
        <5>3. QED
          BY <5>2, CollectionConstantsOK
      <4>2. CASE ~col.complete
        BY <1>4, <2>3, <4>2
      <4>3. CASE ~posting[p].open
        <5>1. missed[p] = CloseAfter
          BY <2>1, <3>1, <4>3 DEF MissesAgree
        <5>2. ~(missed[p] < CloseAfter)
          BY <5>1, CollectionConstantsOK
        <5>3. QED
          BY <1>4, <2>3, <5>2
      <4>4. QED
        BY <4>1, <4>2, <4>3
    <3>2. QED
      BY <2>1, <2>3, <3>1 DEF MissesAgree
  <2>4. CASE p \notin col.seen /\ Row(p) # posting[p]
    <3>1. /\ Row(p) = Missed(posting[p]) /\ col.complete
          /\ posting[p].there /\ posting[p].open
      BY <1>1, <2>4, CommitFacts
    <3>2. /\ posting'[p].missing = posting[p].missing + 1
          /\ posting'[p].open <=> posting[p].missing + 1 < CloseAfter
          /\ posting[p].missing \in 0..(CloseAfter - 1)
          /\ posting[p].missing = missed[p]
      BY <2>1, <3>1, MissedFacts DEF MissesAgree
    <3>3. missed[p] < CloseAfter
      BY <3>2, CollectionConstantsOK
    <3>4. missed'[p] = posting'[p].missing
      BY <1>4, <2>4, <3>1, <3>2, <3>3
    <3>5. ~posting'[p].open => missed'[p] = CloseAfter
      BY <3>2, <3>4, CollectionConstantsOK
    <3>6. QED
      BY <3>4, <3>5 DEF MissesAgree
  <2>5. QED
    BY <2>2, <2>3, <2>4
<1>7. ASSUME NEW x \in match'
      PROVE  /\ posting'[x[1]].there
             /\ keyword'[x[2]].there
             /\ <<x[3], posting'[x[1]].content>> \in Finds
  <2>1. CASE x \in col.match
    <3>1. PendingEvidence(x) /\ x[1] \in Ids
      BY <1>3, <2>1 DEF IInv, Collection, Matches
    <3>2. posting'[x[1]] = col.rows[x[1]]
      BY <1>1, <3>1, CommitFacts DEF PendingEvidence
    <3>3. QED
      BY <1>1, <3>1, <3>2 DEF PendingEvidence
  <2>2. CASE x \in match /\ x[1] \notin col.seen
    <3>1. /\ x[1] \in Ids
          /\ posting[x[1]].there
          /\ keyword[x[2]].there
          /\ <<x[3], posting[x[1]].content>> \in Finds
          /\ posting[x[1]] \in Rows
      BY <1>3, <2>2 DEF EvidenceCurrent, TablesOK, Matches
    <3>2. \/ Row(x[1]) = posting[x[1]]
          \/ Row(x[1]) = Missed(posting[x[1]]) /\ posting[x[1]].open
      BY <1>1, <2>2, <3>1, CommitFacts
    <3>3. Row(x[1]).there /\ Row(x[1]).content = posting[x[1]].content
      BY <3>1, <3>2, MissedFacts
    <3>4. QED
      BY <1>1, <3>1, <3>3
  <2>3. QED
    BY <1>1, <2>1, <2>2
<1>8. EvidenceCurrent'
  BY <1>7 DEF EvidenceCurrent
<1>9. QED
  BY <1>1, <1>5, <1>6, <1>8, IdleInv

LEMMA FailInv ==
    ASSUME IInv, Fail
    PROVE  IInv'
<1>1. /\ UNCHANGED <<day, keyword, deleting, posting, match, note, missed>>
      /\ col' = Idle
  BY DEF Fail, admin, tables
<1>2. TablesOK' /\ EvidenceCurrent' /\ \A p \in Ids : MissesAgree(p)'
  BY <1>1 DEF IInv, TablesOK, EvidenceCurrent, MissesAgree
<1>3. QED
  BY <1>1, <1>2, IdleInv

-----------------------------------------------------------------------------
(* Everybody else's steps. *)

\* While the rows that a collection has written stay, and no keyword goes that
\* it refers to, what it has found stays true.
LEMMA OtherInv ==
    ASSUME IInv, TablesOK', UNCHANGED col,
           \A p \in Ids : MissesAgree(p)',
           \A p \in col.touched : posting'[p] = posting[p],
           \A p \in Ids : posting'[p].there /\ posting'[p].open =>
                            posting[p].there /\ posting[p].open,
           \A x \in col.match : keyword'[x[2]].there,
           EvidenceCurrent'
    PROVE  IInv'
<1>1. ASSUME NEW p \in Ids
      PROVE  Pending(p)'
  <2>1. Pending(p)
    BY DEF IInv
  <2>2. QED
    BY <2>1 DEF Pending
<1>2. Handling' /\ Doomed'
  BY DEF IInv, Handling, Doomed
<1>3. ASSUME NEW x \in col'.match
      PROVE  PendingEvidence(x)'
  BY DEF IInv, PendingEvidence
<1>4. QED
  BY <1>1, <1>2, <1>3 DEF IInv

LEMMA SaveInv ==
    ASSUME IInv, (\E k \in Keywords : SaveKeyword(k)) \/ Seed
    PROVE  IInv'
<1>1. /\ UNCHANGED <<day, deleting, posting, match, note, col, missed>>
      /\ TablesOK /\ EvidenceCurrent
  BY DEF SaveKeyword, Seed, tables, IInv
<1>2. /\ keyword' \in [Keywords -> KeywordRow \cup {NoKeyword}]
      /\ \A k \in Keywords : keyword[k].there => keyword'[k].there
  <2>1. keyword \in [Keywords -> KeywordRow \cup {NoKeyword}]
    BY <1>1 DEF TablesOK
  <2>2. CASE Seed
    <3> DEFINE absent == {w \in Defaults : Taken(Term[w]) = {}}
    <3>0. absent \subseteq Defaults
      OBVIOUS
    <3> HIDE DEF absent
    <3>1. PICK row \in [absent -> Keywords] :
                  keyword' = [k \in Keywords |->
                                  IF \E w \in absent : row[w] = k
                                  THEN [there |-> TRUE, active |-> TRUE,
                                        wording |-> CHOOSE w \in absent : row[w] = k]
                                  ELSE keyword[k]]
      BY <2>2, Zenon DEF Seed, absent
    <3>2. ASSUME NEW k \in Keywords
          PROVE  /\ keyword'[k] \in KeywordRow \cup {NoKeyword}
                 /\ keyword[k].there => keyword'[k].there
      <4>1. CASE \E w \in absent : row[w] = k
        <5>1. (CHOOSE w \in absent : row[w] = k) \in Wordings
          BY <3>0, <4>1, CollectionConstantsOK
        <5> QED
          BY <3>1, <4>1, <5>1 DEF KeywordRow
      <4>2. CASE ~\E w \in absent : row[w] = k
        BY <2>1, <3>1, <4>2
      <4> QED
        BY <4>1, <4>2
    <3> QED
      BY <3>1, <3>2
  <2>3. CASE \E k \in Keywords : SaveKeyword(k)
    <3>1. PICK k \in Keywords, w \in Wordings, a \in BOOLEAN :
            keyword' = [keyword EXCEPT ![k] =
                          [there |-> TRUE, active |-> a, wording |-> w]]
      BY <2>3 DEF SaveKeyword
    <3>2. [there |-> TRUE, active |-> a, wording |-> w] \in KeywordRow
      BY <3>1 DEF KeywordRow
    <3>3. QED
      BY <2>1, <3>1, <3>2
  <2>4. QED
    BY <2>2, <2>3
<1>3. TablesOK' /\ \A p \in Ids : MissesAgree(p)'
  BY <1>1, <1>2 DEF IInv, TablesOK, MissesAgree
<1>4. ASSUME NEW x \in match
      PROVE  keyword'[x[2]].there
  <2>1. x[2] \in Keywords
    BY <1>1 DEF TablesOK, Matches
  <2>2. QED
    BY <1>1, <1>2, <2>1 DEF EvidenceCurrent
<1>5. EvidenceCurrent'
  BY <1>1, <1>4 DEF EvidenceCurrent
<1>6. ASSUME NEW x \in col.match
      PROVE  keyword'[x[2]].there
  <2>1. x[2] \in Keywords /\ PendingEvidence(x)
    BY DEF IInv, Collection, Matches
  <2>2. QED
    BY <1>2, <2>1 DEF PendingEvidence
<1>7. QED
  BY <1>1, <1>3, <1>5, <1>6, OtherInv

LEMMA DeleteLoadInv ==
    ASSUME IInv, NEW k \in Keywords, DeleteKeywordLoad(k)
    PROVE  IInv'
<1>1. /\ UNCHANGED <<day, keyword, posting, match, note, col, missed>>
      /\ deleting' = deleting \cup {k}
  BY DEF DeleteKeywordLoad, tables
<1>2. /\ TablesOK' /\ EvidenceCurrent'
      /\ \A p \in Ids : MissesAgree(p)'
      /\ \A x \in col.match : keyword'[x[2]].there
  BY <1>1 DEF IInv, TablesOK, EvidenceCurrent, MissesAgree, PendingEvidence
<1>3. QED
  BY <1>1, <1>2, OtherInv

LEMMA DeleteCommitInv ==
    ASSUME IInv, NEW k \in Keywords, DeleteKeywordCommit(k)
    PROVE  IInv'
<1>1. /\ UNCHANGED <<day, posting, note, col, missed>>
      /\ deleting' = deleting \ {k}
      /\ keyword' = [keyword EXCEPT ![k] = NoKeyword]
      /\ match' = {x \in match : x[2] # k}
      /\ \A x \in col.match : x[2] # k
      /\ TablesOK /\ EvidenceCurrent /\ col \in Collection
  BY DEF DeleteKeywordCommit, Bereft, IInv
<1>2. TablesOK' /\ \A p \in Ids : MissesAgree(p)'
  BY <1>1 DEF IInv, TablesOK, MissesAgree, NoKeyword
<1>3. ASSUME NEW x \in match'
      PROVE  keyword'[x[2]] = keyword[x[2]] /\ x \in match
  BY <1>1 DEF TablesOK, Matches
<1>4. EvidenceCurrent'
  BY <1>1, <1>3 DEF EvidenceCurrent
<1>5. ASSUME NEW x \in col.match
      PROVE  keyword'[x[2]].there
  <2>1. x[2] \in Keywords /\ PendingEvidence(x) /\ x[2] # k
    BY <1>1 DEF IInv, Collection, Matches
  <2>2. QED
    BY <1>1, <2>1 DEF PendingEvidence, TablesOK
<1>6. QED
  BY <1>1, <1>2, <1>4, <1>5, OtherInv

LEMMA RetainInv ==
    ASSUME IInv, Retain
    PROVE  IInv'
<1>1. /\ UNCHANGED <<day, keyword, deleting, col, missed>>
      /\ \A p \in Ids : posting'[p] \in Retained(posting[p])
      /\ \A p \in col.touched : posting'[p] = posting[p]
      /\ match' = {x \in match : posting'[x[1]].there}
      /\ note' = {p \in note : posting'[p].there}
      /\ TablesOK /\ EvidenceCurrent
  BY DEF Retain, admin, IInv
<1>2. DOMAIN posting' = Ids /\ posting' = [p \in Ids |-> posting'[p]]
  <2>1. posting' \in [Ids -> UNION {Retained(posting[p]) : p \in Ids}]
    BY DEF Retain
  <2>2. QED
    BY <2>1
<1>3. ASSUME NEW p \in Ids
      PROVE  /\ posting'[p] \in Rows
             /\ posting'[p].there =>
                  /\ posting[p].there
                  /\ posting'[p].content = posting[p].content
                  /\ posting'[p].open = posting[p].open
                  /\ posting'[p].missing = posting[p].missing
  BY <1>1, RetainedFacts DEF TablesOK
<1>4. posting' \in [Ids -> Rows]
  BY <1>2, <1>3
<1>5. TablesOK'
  BY <1>1, <1>4 DEF TablesOK
<1>6. ASSUME NEW p \in Ids
      PROVE  MissesAgree(p)'
  <2>1. MissesAgree(p)
    BY DEF IInv
  <2>2. QED
    BY <1>1, <1>3, <2>1 DEF MissesAgree
<1>7. ASSUME NEW x \in match'
      PROVE  /\ posting'[x[1]].there
             /\ keyword'[x[2]].there
             /\ <<x[3], posting'[x[1]].content>> \in Finds
  <2>1. x \in match /\ posting'[x[1]].there /\ x[1] \in Ids
    BY <1>1 DEF TablesOK, Matches
  <2>2. QED
    BY <1>1, <1>3, <2>1 DEF EvidenceCurrent
<1>8. EvidenceCurrent'
  BY <1>7 DEF EvidenceCurrent
<1>9. \A x \in col.match : keyword'[x[2]].there
  BY <1>1 DEF IInv, PendingEvidence
<1>10. \A p \in Ids : posting'[p].there /\ posting'[p].open =>
                        posting[p].there /\ posting[p].open
  BY <1>3
<1>11. QED
  BY <1>1, <1>5, <1>6, <1>8, <1>9, <1>10, OtherInv

LEMMA QuietInv ==
    ASSUME IInv, Dispatch \/ NextDay \/ UNCHANGED vars
    PROVE  IInv'
<1>1. /\ UNCHANGED <<keyword, deleting, posting, match, col, missed>>
      /\ TablesOK /\ EvidenceCurrent
  BY DEF Dispatch, NextDay, vars, admin, tables, IInv
<1>2. day' \in Days /\ note' \subseteq Ids
  <2>1. CASE Dispatch
    BY <1>1, <2>1 DEF Dispatch, TablesOK
  <2>2. CASE NextDay
    BY <1>1, <2>2, CollectionConstantsOK DEF NextDay, TablesOK, tables, Days
  <2>3. CASE UNCHANGED vars
    BY <1>1, <2>3 DEF vars, TablesOK
  <2>4. QED
    BY <2>1, <2>2, <2>3
<1>3. /\ TablesOK' /\ EvidenceCurrent'
      /\ \A p \in Ids : MissesAgree(p)'
      /\ \A x \in col.match : keyword'[x[2]].there
  BY <1>1, <1>2 DEF IInv, TablesOK, EvidenceCurrent, MissesAgree, PendingEvidence
<1>4. QED
  BY <1>1, <1>3, OtherInv

LEMMA NextInv == IInv /\ [Next]_vars => IInv'
BY BeginInv, UpsertInv, LockInv, MatchInv, CloseMissingInv, CommitInv, FailInv,
   SaveInv, DeleteLoadInv, DeleteCommitInv, RetainInv, QuietInv DEF Next, Collect

-----------------------------------------------------------------------------
(* The theorems about the tables. *)

\* The invariant: the rows, the evidence and the counts of misses are in
\* order, and so is what a collection has not committed yet.
THEOREM Invariance == Spec => []IInv
<1>1. QED
  BY InitInv, NextInv, PTL DEF Spec

\* Every variable stays in its type: no row is half written, and none is
\* missed more often than closes it.
THEOREM TypeCorrect == Spec => []TypeOK
<1>1. IInv => TypeOK
  <2>1. ASSUME IInv
        PROVE  TypeOK
    <3>1. \A p \in Ids : IsRow(posting[p]) /\ IsRow(col.rows[p])
      BY <2>1, RowFacts DEF IInv, TablesOK, Collection
    <3>2. QED
      BY <2>1, <3>1 DEF IInv, TablesOK, Collection, Doomed, TypeOK
  <2>2. QED
    BY <2>1
<1>2. QED
  BY <1>1, Invariance, PTL

\* A posting is closed by the complete lists in succession that lack it, as
\* many as it takes, and by nothing else.
THEOREM ClosedOnlyByMisses == Spec => []ClosedAfterMisses
<1>1. IInv => ClosedAfterMisses
  <2>1. ASSUME IInv, NEW p \in Ids, posting[p].there
        PROVE  posting[p].open <=> missed[p] < CloseAfter
    <3>1. MissesAgree(p) /\ posting[p] \in Rows
      BY <2>1 DEF IInv, TablesOK
    <3>2. CASE posting[p].open
      BY <2>1, <3>1, <3>2, RowFacts DEF MissesAgree
    <3>3. CASE ~posting[p].open
      BY <2>1, <3>1, <3>3, CollectionConstantsOK DEF MissesAgree
    <3>4. QED
      BY <3>2, <3>3
  <2>2. QED
    BY <2>1 DEF ClosedAfterMisses
<1>2. QED
  BY <1>1, Invariance, PTL

\* The revisions that are left tell how the posting came to its content.
THEOREM RevisionsLead == Spec => []RevisionChain
<1>1. IInv => RevisionChain
  <2>1. ASSUME IInv, NEW p \in Ids
        PROVE  Chained(posting[p])
    BY <2>1, RowFacts DEF IInv, TablesOK
  <2>2. QED
    BY <2>1 DEF RevisionChain, Chained
<1>2. QED
  BY <1>1, Invariance, PTL

\* A match is what its keyword said when it was found, found in the content
\* that the posting has now: whatever keywords are reworded or deleted, and
\* postings changed or deleted, while collections are under way.
THEOREM EvidenceIsTrue == Spec => []EvidenceCurrent
<1>1. IInv => EvidenceCurrent
  BY DEF IInv
<1>2. QED
  BY <1>1, Invariance, PTL

-----------------------------------------------------------------------------
(* Collections follow the lists. *)

\* How a row looks in the listing.
LEMMA ShownFacts ==
    ASSUME NEW row \in Rows
    PROVE  /\ ~row.there => Shown(row) = Listing!Unlisted
           /\ row.there /\ row.open =>
                Shown(row) = Listing!Open(row.missing)
           /\ row.there /\ ~row.open /\ row.text =>
                Shown(row) = Listing!Closed
           /\ row.there /\ ~row.open /\ ~row.text =>
                Shown(row) = Listing!Stripped
<1> DEFINE state == CASE ~row.there -> "absent"
                      [] row.there /\ row.open /\ row.text -> "open"
                      [] row.there /\ ~row.open /\ row.text -> "closed"
                      [] OTHER -> "stripped"
           n == IF row.open THEN row.missing ELSE 0
<1>1. Shown(row) = [state |-> state, missed |-> n]
  BY DEF Shown
<1>2. /\ row.open => row.text
      /\ ~row.there => ~row.open
      /\ row.there \in BOOLEAN /\ row.open \in BOOLEAN /\ row.text \in BOOLEAN
  <2>1. ~row.there => row = NoRow
    BY RowFacts
  <2>2. QED
    BY <2>1, RowFacts, NoRowFacts
<1>3. CASE ~row.there
  <2>1. state = "absent" /\ n = 0
    BY <1>2, <1>3
  <2>2. QED
    BY <1>1, <1>3, <2>1 DEF Listing!Unlisted
<1>4. CASE row.there /\ row.open
  <2>1. state = "open" /\ n = row.missing
    BY <1>2, <1>4
  <2>2. QED
    BY <1>1, <1>4, <2>1 DEF Listing!Open
<1>5. CASE row.there /\ ~row.open /\ row.text
  <2>1. state = "closed" /\ n = 0
    BY <1>5
  <2>2. QED
    BY <1>1, <1>5, <2>1 DEF Listing!Closed
<1>6. CASE row.there /\ ~row.open /\ ~row.text
  <2>1. state = "stripped" /\ n = 0
    BY <1>6
  <2>2. QED
    BY <1>1, <1>6, <2>1 DEF Listing!Stripped
<1>7. QED
  BY <1>2, <1>3, <1>4, <1>5, <1>6

LEMMA LifeFacts ==
    ASSUME NEW p \in Ids
    PROVE  Life[p] = Shown(posting[p]) /\ Life'[p] = Shown(posting'[p])
BY DEF Life

\* A miss of a row is a miss in the listing; what is not open is not missed.
LEMMA ListingMissed ==
    ASSUME NEW n \in Nat
    PROVE  /\ n + 1 < CloseAfter => Listing!Missed(Listing!Open(n)) = Listing!Open(n + 1)
           /\ ~(n + 1 < CloseAfter) => Listing!Missed(Listing!Open(n)) = Listing!Closed
           /\ Listing!Missed(Listing!Unlisted) = Listing!Unlisted
           /\ Listing!Missed(Listing!Closed) = Listing!Closed
           /\ Listing!Missed(Listing!Stripped) = Listing!Stripped
<1>1. Listing!Open(n).state = "open" /\ Listing!Open(n).missed = n
  BY DEF Listing!Open
<1>2. n + 1 >= CloseAfter <=> ~(n + 1 < CloseAfter)
  BY CollectionConstantsOK
<1>3. n + 1 < CloseAfter => Listing!Missed(Listing!Open(n)) = Listing!Open(n + 1)
  BY <1>1, <1>2 DEF Listing!Missed
<1>4. ~(n + 1 < CloseAfter) => Listing!Missed(Listing!Open(n)) = Listing!Closed
  BY <1>1, <1>2 DEF Listing!Missed
<1>5. ASSUME NEW l, l.state # "open"
      PROVE  Listing!Missed(l) = l
  BY <1>5 DEF Listing!Missed
<1>6. /\ Listing!Unlisted.state # "open"
      /\ Listing!Closed.state # "open"
      /\ Listing!Stripped.state # "open"
  BY DEF Listing!Unlisted, Listing!Closed, Listing!Stripped
<1>7. QED
  BY <1>3, <1>4, <1>5, <1>6

LEMMA CommitLists ==
    ASSUME IInv, Commit
    PROVE  \E named \in SUBSET Ids : \E kept \in SUBSET named :
             \E complete \in BOOLEAN : Listing!List(named, kept, complete)
<1>1. col.pc = "committing" /\ posting' = [p \in Ids |-> Row(p)]
  BY DEF Commit
<1>2. PICK named \in SUBSET Ids : named = col.seen
  BY DEF IInv, Collection
<1>3. PICK kept \in SUBSET named : kept = {p \in named : Row(p).there}
  OBVIOUS
<1>4. PICK complete \in BOOLEAN : complete = col.complete
  BY DEF IInv, Collection
<1>5. ASSUME NEW p \in Ids
      PROVE  Life'[p] = CASE p \in kept -> Listing!Open(0)
                          [] p \in named \ kept -> Listing!Unlisted
                          [] p \notin named /\ complete -> Listing!Missed(Life[p])
                          [] OTHER -> Life[p]
  <2>1. posting'[p] = Row(p) /\ posting[p] \in Rows /\ Row(p) \in Rows
    BY <1>1, CommitFacts DEF IInv, TablesOK
  <2>2. CASE p \in kept
    <3>1. Row(p).there /\ Row(p).open /\ Row(p).missing = 0
      BY <1>1, <1>2, <1>3, <2>2, CommitFacts
    <3>2. Life'[p] = Listing!Open(0)
      BY <2>1, <3>1, LifeFacts, ShownFacts
    <3>3. QED
      BY <2>2, <3>2
  <2>3. CASE p \in named \ kept
    <3>1. ~Row(p).there
      BY <1>3, <2>3
    <3>2. Life'[p] = Listing!Unlisted
      BY <2>1, <3>1, LifeFacts, ShownFacts
    <3>3. QED
      BY <2>3, <3>2
  <2>4. CASE p \notin named /\ complete
    <3>1. Life'[p] = Listing!Missed(Life[p])
      <4>1. CASE posting[p].there /\ posting[p].open
        <5>1. Row(p) = Missed(posting[p])
          BY <1>1, <1>2, <1>4, <2>4, <4>1, CommitFacts
        <5>2. /\ posting'[p].there /\ posting'[p].text
              /\ posting'[p].missing = posting[p].missing + 1
              /\ posting'[p].open <=> posting[p].missing + 1 < CloseAfter
              /\ posting[p].missing \in Nat
          BY <2>1, <4>1, <5>1, MissedFacts
        <5>3. Life[p] = Listing!Open(posting[p].missing)
          BY <2>1, <4>1, LifeFacts, ShownFacts
        <5>4. CASE posting[p].missing + 1 < CloseAfter
          BY <2>1, <5>2, <5>3, <5>4, LifeFacts, ShownFacts, ListingMissed
        <5>5. CASE ~(posting[p].missing + 1 < CloseAfter)
          BY <2>1, <5>2, <5>3, <5>5, LifeFacts, ShownFacts, ListingMissed
        <5>6. QED
          BY <5>4, <5>5
      <4>2. CASE ~(posting[p].there /\ posting[p].open)
        <5>1. posting'[p] = posting[p]
          BY <1>1, <1>2, <2>1, <2>4, <4>2, CommitFacts
        <5>2. Life'[p] = Life[p]
          BY <5>1 DEF Life
        <5>3. Life[p] \in {Listing!Unlisted, Listing!Closed, Listing!Stripped}
          BY <2>1, <4>2, LifeFacts, ShownFacts
        <5>4. 0 \in Nat
          OBVIOUS
        <5>5. QED
          BY <5>2, <5>3, <5>4, ListingMissed
      <4>3. QED
        BY <4>1, <4>2
    <3>2. QED
      BY <1>3, <2>4, <3>1
  <2>5. CASE p \notin named /\ ~complete
    <3>1. posting'[p] = posting[p]
      BY <1>1, <1>2, <1>4, <2>1, <2>5, CommitFacts
    <3>2. Life'[p] = Life[p]
      BY <3>1 DEF Life
    <3>3. QED
      BY <1>3, <2>5, <3>2
  <2>6. QED
    BY <1>4, <2>2, <2>3, <2>4, <2>5
<1>6. Life' = [p \in Ids |->
               CASE p \in kept -> Listing!Open(0)
                 [] p \in named \ kept -> Listing!Unlisted
                 [] p \notin named /\ complete -> Listing!Missed(Life[p])
                 [] OTHER -> Life[p]]
  BY <1>5 DEF Life
<1>7. Listing!List(named, kept, complete)
  BY <1>6 DEF Listing!List
<1>8. QED
  BY <1>7

LEMMA RetainStrips ==
    ASSUME IInv, Retain
    PROVE  \E gone, stripped \in SUBSET Ids : Listing!Retain(gone, stripped)
<1>1. \A p \in Ids : posting'[p] \in Retained(posting[p]) /\ posting[p] \in Rows
  BY DEF Retain, IInv, TablesOK
<1>2. PICK gone \in SUBSET Ids : gone = {p \in Ids : ~posting'[p].there}
  OBVIOUS
<1>3. PICK stripped \in SUBSET Ids :
        stripped = {p \in Ids : posting'[p].there /\ posting[p].text /\ ~posting'[p].text}
  OBVIOUS
<1>4. ASSUME NEW p \in Ids
      PROVE  /\ posting'[p] \in Rows
             /\ posting'[p].there =>
                  /\ posting[p].there
                  /\ posting'[p].open = posting[p].open
                  /\ posting'[p].missing = posting[p].missing
                  /\ posting'[p].text => posting[p].text
                  /\ posting[p].text /\ ~posting'[p].text => ~posting[p].open
  BY <1>1, RetainedFacts
<1>5. ASSUME NEW p \in stripped
      PROVE  Life[p] = Listing!Closed
  BY <1>1, <1>3, <1>4, LifeFacts, ShownFacts
<1>6. ASSUME NEW p \in Ids
      PROVE  Life'[p] = CASE p \in gone -> Listing!Unlisted
                          [] p \in stripped \ gone -> Listing!Stripped
                          [] OTHER -> Life[p]
  <2>1. CASE p \in gone
    <3>1. Life'[p] = Listing!Unlisted
      BY <1>2, <1>4, <2>1, LifeFacts, ShownFacts
    <3>2. QED
      BY <2>1, <3>1
  <2>2. CASE p \in stripped \ gone
    <3>1. Life'[p] = Listing!Stripped
      BY <1>3, <1>4, <2>2, LifeFacts, ShownFacts
    <3>2. QED
      BY <2>2, <3>1
  <2>3. CASE p \notin gone /\ p \notin stripped
    <3>1. /\ posting'[p].there /\ posting[p].there
          /\ posting'[p].open = posting[p].open
          /\ posting'[p].missing = posting[p].missing
          /\ posting'[p].text <=> posting[p].text
      BY <1>2, <1>3, <1>4, <2>3
    <3>2. Life'[p] = Life[p]
      <4>1. CASE posting[p].open
        BY <1>1, <1>4, <3>1, <4>1, LifeFacts, ShownFacts
      <4>2. CASE ~posting[p].open /\ posting[p].text
        BY <1>1, <1>4, <3>1, <4>2, LifeFacts, ShownFacts
      <4>3. CASE ~posting[p].open /\ ~posting[p].text
        BY <1>1, <1>4, <3>1, <4>3, LifeFacts, ShownFacts
      <4>4. QED
        BY <4>1, <4>2, <4>3
    <3>3. QED
      BY <2>3, <3>2
  <2>4. QED
    BY <2>1, <2>2, <2>3
<1>7. Life' = [p \in Ids |-> CASE p \in gone -> Listing!Unlisted
                               [] p \in stripped \ gone -> Listing!Stripped
                               [] OTHER -> Life[p]]
  BY <1>6 DEF Life
<1>8. Listing!Retain(gone, stripped)
  BY <1>5, <1>7 DEF Listing!Retain
<1>9. QED
  BY <1>8

LEMMA ListingStep == IInv /\ [Next]_vars => [Listing!Next]_Life
<1> SUFFICES ASSUME IInv, [Next]_vars PROVE Listing!Next \/ Life' = Life
  OBVIOUS
<1>1. CASE Commit
  BY <1>1, CommitLists DEF Listing!Next
<1>2. CASE Retain
  BY <1>2, RetainStrips DEF Listing!Next
<1>3. CASE UNCHANGED posting
  BY <1>3 DEF Life
<1>4. Commit \/ Retain \/ UNCHANGED posting
  BY DEF Next, Collect, Begin, Upsert, Lock, Match, CloseMissing, Fail, SaveKeyword,
         Seed, DeleteKeywordLoad, DeleteKeywordCommit, Dispatch, NextDay, vars, tables
<1>5. QED
  BY <1>1, <1>2, <1>3, <1>4

\* Whatever the administrator, retention and the dispatch do while it runs, a
\* collection takes the postings from one list to the next in one step.
THEOREM Implements == Spec => FollowsListing
<1>1. Init => Listing!Init
  <2>1. ASSUME Init
        PROVE  Listing!Init
    <3>1. ASSUME NEW p \in Ids
          PROVE  Life[p] = Listing!Unlisted
      <4>1. posting[p] = NoRow
        BY <2>1 DEF Init, Unwritten
      <4>2. QED
        BY <4>1, LifeFacts, ShownFacts, NoRowFacts
    <3>2. Life = [p \in Ids |-> Listing!Unlisted]
      BY <3>1 DEF Life
    <3>3. QED
      BY <3>2 DEF Listing!Init
  <2>2. QED
    BY <2>1
<1>2. QED
  BY <1>1, Invariance, ListingStep, PTL DEF Spec, FollowsListing, Listing!Spec

-----------------------------------------------------------------------------
(* What a collection reports.                                              *)
(*                                                                         *)
(* As long as no name has come twice the counters count the rows that the  *)
(* collection holds, compared with the table as it is now: keywords and    *)
(* retention may change it meanwhile, but no row that has been written.    *)

\* The names of the list that have been read.
NamesRead == IF col.pc \in {"locking", "matching"}
             THEN col.fetched - Len(col.todo) + 1
             ELSE col.fetched - Len(col.todo)

\* The named postings that are dealt with; the one at hand is not yet.
DealtWith == IF col.pc \in {"locking", "matching"}
             THEN (col.seen \cap col.touched) \ {Head(col.todo).id}
             ELSE col.seen \cap col.touched

Keeps(p) == col.rows[p].there /\ p \notin col.doomed

Adds(p) == Keeps(p) /\ ~posting[p].there

Alters(p) == /\ Keeps(p)
             /\ posting[p].there
             /\ posting[p].content # col.rows[p].content

Added == {p \in DealtWith : Adds(p)}

Altered == {p \in DealtWith : Alters(p)}

\* The postings that the list has closed.
Shut == {p \in col.touched \ col.seen : ~col.rows[p].open}

\* What is known of the posting at hand.
AtHandKnown ==
    /\ col.pc = "locking" => Head(col.todo).id \notin col.touched
    /\ col.pc = "matching" => /\ col.kind = "new" <=> Adds(Head(col.todo).id)
                              /\ col.kind = "changed" <=> Alters(Head(col.todo).id)

Counting ==
    /\ col.new = Cardinality(Added)
    /\ col.updated = Cardinality(Altered)
    /\ AtHandKnown

CountInv ==
    /\ IsFiniteSet(col.seen)
    /\ Cardinality(col.seen) <= NamesRead
    /\ Cardinality(col.seen) = NamesRead => Counting
    /\ col.pc # "committing" => col.touched \subseteq col.seen
    /\ col.pc = "committing" => col.todo = <<>> /\ col.closed = Cardinality(Shut)

\* Between two collections, and before the first, nothing is counted.
LEMMA CountIdle ==
    ASSUME col' = Idle
    PROVE  CountInv'
<1>1. /\ col'.pc = "idle" /\ col'.seen = {} /\ col'.touched = {} /\ col'.todo = <<>>
      /\ col'.fetched = 0 /\ col'.new = 0 /\ col'.updated = 0
  BY DEF Idle
<1>2. NamesRead' = 0 /\ DealtWith' = {}
  <2>1. Len(<<>>) = 0
    OBVIOUS
  <2>2. Len(col'.todo) = 0
    BY <1>1, <2>1
  <2>3. NamesRead' = 0
    <3>1. NamesRead' = col'.fetched - Len(col'.todo)
      BY <1>1 DEF NamesRead
    <3>2. col'.fetched = 0
      BY <1>1
    <3>3. QED
      BY <2>2, <3>1, <3>2
  <2>4. DealtWith' = {}
    BY <1>1 DEF DealtWith
  <2>5. QED
    BY <2>3, <2>4
<1>3. Added' = {} /\ Altered' = {}
  BY <1>2 DEF Added, Altered
<1>4. IsFiniteSet({}) /\ Cardinality({}) = 0
  BY FS_EmptySet
<1>5. Counting'
  BY <1>1, <1>3, <1>4 DEF Counting, AtHandKnown
<1>6. QED
  BY <1>1, <1>2, <1>4, <1>5 DEF CountInv

LEMMA CountInit == Init => CountInv
<1> SUFFICES ASSUME Init PROVE CountInv
  OBVIOUS
<1>1. /\ col.pc = "idle" /\ col.seen = {} /\ col.touched = {} /\ col.todo = <<>>
      /\ col.fetched = 0 /\ col.new = 0 /\ col.updated = 0
  BY DEF Init, Idle
<1>2. NamesRead = 0 /\ DealtWith = {}
  <2>1. Len(<<>>) = 0
    OBVIOUS
  <2>2. Len(col.todo) = 0
    BY <1>1, <2>1
  <2>3. NamesRead = 0
    <3>1. NamesRead = col.fetched - Len(col.todo)
      BY <1>1 DEF NamesRead
    <3>2. col.fetched = 0
      BY <1>1
    <3>3. QED
      BY <2>2, <3>1, <3>2
  <2>4. DealtWith = {}
    BY <1>1 DEF DealtWith
  <2>5. QED
    BY <2>3, <2>4
<1>3. Added = {} /\ Altered = {}
  BY <1>2 DEF Added, Altered
<1>4. IsFiniteSet({}) /\ Cardinality({}) = 0
  BY FS_EmptySet
<1>5. Counting
  BY <1>1, <1>3, <1>4 DEF Counting, AtHandKnown
<1>6. QED
  BY <1>1, <1>2, <1>4, <1>5 DEF CountInv

LEMMA CountBegin ==
    ASSUME IInv, Begin
    PROVE  CountInv'
<1>1. PICK batch \in Batches, complete \in BOOLEAN :
         col' = [Idle EXCEPT !.pc = "upserting", !.begun = day,
                             !.complete = complete, !.todo = batch,
                             !.fetched = Len(batch)]
  BY DEF Begin
<1>2. Len(batch) \in Nat
  <2>1. PICK n \in 0..MaxBatch : batch \in [1..n -> RawJobs]
    BY DEF Batches
  <2>2. n \in Nat
    OBVIOUS
  <2>3. batch \in Seq(RawJobs)
    BY <2>1, <2>2, SeqDef
  <2>4. QED
    BY <2>3, LenProperties
<1>3. /\ col'.pc = "upserting" /\ col'.seen = {} /\ col'.touched = {}
      /\ col'.todo = batch /\ col'.fetched = Len(batch)
      /\ col'.new = 0 /\ col'.updated = 0
  BY <1>1 DEF Idle
<1>4. NamesRead' = 0 /\ DealtWith' = {}
  BY <1>2, <1>3 DEF NamesRead, DealtWith
<1>5. Added' = {} /\ Altered' = {}
  BY <1>4 DEF Added, Altered
<1>6. IsFiniteSet({}) /\ Cardinality({}) = 0
  BY FS_EmptySet
<1>7. Counting'
  BY <1>3, <1>5, <1>6 DEF Counting, AtHandKnown
<1>8. QED
  BY <1>3, <1>4, <1>6, <1>7 DEF CountInv

\* A step of somebody else leaves the rows that the collection has written.
LEMMA CountKept ==
    ASSUME IInv, CountInv, UNCHANGED col,
           \A p \in col.touched : posting'[p] = posting[p]
    PROVE  CountInv'
<1>1. NamesRead' = NamesRead /\ DealtWith' = DealtWith /\ Shut' = Shut
  BY DEF NamesRead, DealtWith, Shut
<1>2. DealtWith \subseteq col.touched
  BY DEF DealtWith
<1>3. ASSUME NEW p \in col.touched
      PROVE  Adds(p)' = Adds(p) /\ Alters(p)' = Alters(p)
  BY DEF Keeps, Adds, Alters
<1>4. Added' = Added /\ Altered' = Altered
  BY <1>1, <1>2, <1>3 DEF Added, Altered
<1>5. Counting => Counting'
  <2>1. col.pc = "matching" => Head(col.todo).id \in col.touched
    BY DEF IInv, Handling
  <2>2. AtHandKnown => AtHandKnown'
    BY <2>1 DEF AtHandKnown, Keeps, Adds, Alters
  <2>3. QED
    BY <1>4, <2>2 DEF Counting
<1>6. QED
  BY <1>1, <1>5 DEF CountInv

\* How far the list has been read is a number.
LEMMA ListFacts ==
    ASSUME col \in Collection
    PROVE  /\ col.fetched \in Nat /\ Len(col.todo) \in Nat
           /\ NamesRead \in Int
           /\ col.todo # <<>> => Len(Tail(col.todo)) = Len(col.todo) - 1
<1>1. col.todo \in Seq(RawJobs) /\ col.fetched \in Nat
  BY DEF Collection
<1>2. Len(col.todo) \in Nat
  BY <1>1, LenProperties
<1>3. col.todo # <<>> => Len(Tail(col.todo)) = Len(col.todo) - 1
  BY <1>1, HeadTailProperties
<1>4. QED
  BY <1>1, <1>2, <1>3 DEF NamesRead

\* The next name: unless it has come before, the rows that count stay the same.
LEMMA NextName ==
    ASSUME col \in Collection, CountInv,
           col.pc = "upserting", col.todo # <<>>,
           UNCHANGED <<posting>>,
           NEW p, p = Head(col.todo).id,
           col'.pc \in {"locking", "matching"},
           col'.todo = col.todo, col'.fetched = col.fetched,
           col'.new = col.new, col'.updated = col.updated,
           col'.seen = col.seen \cup {p},
           col'.touched \subseteq col.touched \cup {p},
           col.touched \subseteq col'.touched,
           \A q \in Ids \ {p} : col'.rows[q] = col.rows[q],
           col'.doomed = col.doomed,
           p \notin col.touched => AtHandKnown'
    PROVE  CountInv'
<1>1. /\ IsFiniteSet(col.seen)
      /\ Cardinality(col.seen) \in Nat
      /\ Cardinality(col.seen) <= NamesRead
      /\ col.touched \subseteq col.seen
      /\ NamesRead \in Int
  BY FS_CardinalityType, ListFacts DEF CountInv
<1>2. /\ IsFiniteSet(col'.seen)
      /\ Cardinality(col'.seen) =
           IF p \in col.seen THEN Cardinality(col.seen) ELSE Cardinality(col.seen) + 1
  <2>1. /\ IsFiniteSet(col.seen \cup {p})
        /\ Cardinality(col.seen \cup {p}) =
             IF p \in col.seen THEN Cardinality(col.seen) ELSE Cardinality(col.seen) + 1
    <3>1. IsFiniteSet(col.seen)
      BY <1>1
    <3>2. QED
      BY <3>1, FS_AddElement, Zenon
  <2>2. QED
    BY <2>1
<1>3. NamesRead' = NamesRead + 1
  BY ListFacts DEF NamesRead
<1>4. Cardinality(col'.seen) <= NamesRead'
  BY <1>1, <1>2, <1>3
<1>5. ASSUME Cardinality(col'.seen) = NamesRead'
      PROVE  Counting'
  <2>1. p \notin col.seen /\ Cardinality(col.seen) = NamesRead
    BY <1>1, <1>2, <1>3, <1>5
  <2>2. Counting /\ p \notin col.touched
    BY <1>1, <2>1 DEF CountInv
  <2>3. DealtWith' = DealtWith /\ p \notin DealtWith
    BY <1>1, <2>1 DEF DealtWith
  <2>4. DealtWith \subseteq Ids
    BY DEF DealtWith, Collection
  <2>5. ASSUME NEW q \in DealtWith
        PROVE  Adds(q)' = Adds(q) /\ Alters(q)' = Alters(q)
    <3>1. col'.rows[q] = col.rows[q]
      BY <2>3, <2>4
    <3>2. QED
      BY <3>1 DEF Keeps, Adds, Alters
  <2>6. Added' = Added /\ Altered' = Altered
    BY <2>3, <2>5 DEF Added, Altered
  <2>7. QED
    BY <2>2, <2>6 DEF Counting
<1>6. col'.touched \subseteq col'.seen /\ col'.pc # "committing"
  BY <1>1
<1>7. QED
  BY <1>2, <1>4, <1>5, <1>6 DEF CountInv

\* The row is inserted, or is there already and has still to be read.
LEMMA CountUpsert ==
    ASSUME IInv, CountInv, Upsert
    PROVE  CountInv'
<1> DEFINE h == Head(col.todo)
           p == h.id
           new == NewRow(h.content)
<1>1. /\ col.pc = "upserting"
      /\ col.todo # <<>>
      /\ h.content # Blank
      /\ col \in Collection
      /\ col.begun \in Days
      /\ col.doomed \subseteq col.touched
  BY DEF Upsert, IInv, Doomed
<1>2. UNCHANGED posting
  BY DEF Upsert, tables
<1>3. p \in Ids /\ h.content \in Contents
  BY <1>1, HeadFacts
<1>4. CASE ~Row(p).there
  <2> DEFINE t == col.touched \cup {p}
             r == [col.rows EXCEPT ![p] = new]
             c == [col EXCEPT !.pc = "matching", !.kind = "new",
                              !.seen = @ \cup {p}, !.touched = t, !.rows = r]
  <2>1. col' = c
    BY <1>4 DEF Upsert, Write
  <2>2. new \in Rows /\ new.there
    BY <1>1, <1>3, NewRowFacts
  <2>3. r[p] = new /\ \A q \in Ids \ {p} : r[q] = col.rows[q]
    BY <1>1, <1>3 DEF Collection
  <2>4. t = col.touched \cup {p}
    OBVIOUS
  <2>5. ~Row(p).there
    BY <1>4
  <2>6. p = Head(col.todo).id
    OBVIOUS
  <2> HIDE DEF h, p, new, t, r
  <2>7. /\ c.pc = "matching" /\ c.kind = "new" /\ c.todo = col.todo
        /\ c.seen = col.seen \cup {p} /\ c.touched = t /\ c.rows = r
        /\ c.fetched = col.fetched /\ c.new = col.new /\ c.updated = col.updated
        /\ c.doomed = col.doomed
    BY <1>1 DEF Collection
  <2> HIDE DEF c
  <2>8. ASSUME p \notin col.touched
        PROVE  AtHandKnown'
    <3>1. ~posting[p].there
      BY <2>5, <2>8 DEF Row
    <3>2. Head(col'.todo).id = p
      BY <2>1, <2>6, <2>7
    <3>3. ~posting'[p].there /\ col'.rows[p].there /\ p \notin col'.doomed
      BY <1>1, <1>2, <2>1, <2>2, <2>3, <2>7, <2>8, <3>1
    <3>4. QED
      BY <2>1, <2>7, <3>2, <3>3 DEF AtHandKnown, Keeps, Adds, Alters
  <2>9. QED
    BY <1>1, <1>2, <2>1, <2>3, <2>4, <2>6, <2>7, <2>8, NextName
<1>5. CASE Row(p).there
  <2> DEFINE c == [col EXCEPT !.pc = "locking", !.seen = @ \cup {p}]
  <2>1. col' = c
    BY <1>5 DEF Upsert
  <2>2. p = Head(col.todo).id
    OBVIOUS
  <2> HIDE DEF h, p, new
  <2>3. /\ c.pc = "locking" /\ c.todo = col.todo
        /\ c.seen = col.seen \cup {p} /\ c.touched = col.touched /\ c.rows = col.rows
        /\ c.fetched = col.fetched /\ c.new = col.new /\ c.updated = col.updated
        /\ c.doomed = col.doomed
    BY <1>1 DEF Collection
  <2> HIDE DEF c
  <2>4. p \notin col.touched => AtHandKnown'
    BY <2>1, <2>2, <2>3 DEF AtHandKnown
  <2>5. QED
    BY <1>1, <1>2, <2>1, <2>2, <2>3, <2>4, NextName
<1>6. QED
  BY <1>4, <1>5

\* The row that is updated is that of the table, so that it tells a change.
LEMMA CountLock ==
    ASSUME IInv, CountInv, Lock
    PROVE  CountInv'
<1> DEFINE h == Head(col.todo)
           p == h.id
           row == Row(p)
           revised == IF row.content # h.content
                      THEN [row EXCEPT !.revisions = Revised(row, h.content)]
                      ELSE row
           new == Seen(revised, h.content)
           t == col.touched \cup {p}
           r == [col.rows EXCEPT ![p] = new]
           kind == IF row.content # h.content THEN "changed" ELSE "same"
           c == [col EXCEPT !.pc = "matching", !.kind = kind,
                            !.touched = t, !.rows = r]
<1>1. /\ col.pc = "locking"
      /\ row.there
      /\ col' = c
      /\ UNCHANGED posting
  BY DEF Lock, Write, tables
<1>2. /\ col \in Collection
      /\ col.todo # <<>>
      /\ h.content \in Contents
      /\ p \in col.seen
      /\ col.doomed \subseteq col.touched
  BY <1>1 DEF IInv, Handling, Doomed
<1>3. p \in Ids /\ row \in Rows
  BY <1>2, HeadFacts, RowIsRow
<1>4. new.there /\ new.content = h.content
  <2> HIDE DEF row, h
  <2>1. QED
    BY <1>1, <1>2, <1>3, SeenFacts
<1>5. r[p] = new /\ \A q \in Ids \ {p} : r[q] = col.rows[q]
  <2> HIDE DEF new, p
  <2>1. QED
    BY <1>2, <1>3 DEF Collection
<1>6. t = col.touched \cup {p} /\ p = Head(col.todo).id
  OBVIOUS
<1>7. /\ kind # "new"
      /\ kind = "changed" <=> row.content # h.content
      /\ p \notin col.touched => row = posting[p]
  BY DEF Row
<1> HIDE DEF h, p, row, new, t, r, kind, revised
<1>8. /\ c.pc = "matching" /\ c.kind = kind /\ c.todo = col.todo
      /\ c.seen = col.seen /\ c.touched = t /\ c.rows = r
      /\ c.fetched = col.fetched /\ c.new = col.new /\ c.updated = col.updated
      /\ c.doomed = col.doomed
  BY <1>2 DEF Collection
<1> HIDE DEF c
<1>9. NamesRead' = NamesRead /\ DealtWith' = DealtWith
  BY <1>1, <1>6, <1>8 DEF NamesRead, DealtWith
<1>10. ASSUME NEW q \in DealtWith
       PROVE  Adds(q)' = Adds(q) /\ Alters(q)' = Alters(q)
  <2>1. q \in Ids /\ q # p
    BY <1>1, <1>2, <1>6 DEF DealtWith, Collection
  <2>2. col'.rows[q] = col.rows[q] /\ col'.doomed = col.doomed
    BY <1>1, <1>5, <1>8, <2>1
  <2>3. QED
    BY <1>1, <2>2 DEF Keeps, Adds, Alters
<1>11. Added' = Added /\ Altered' = Altered
  BY <1>9, <1>10 DEF Added, Altered
<1>12. AtHandKnown => AtHandKnown'
  <2>1. ASSUME AtHandKnown
        PROVE  AtHandKnown'
    <3>1. p \notin col.touched /\ row = posting[p]
      BY <1>1, <1>6, <1>7, <2>1 DEF AtHandKnown
    <3>2. Head(col'.todo).id = p /\ col'.rows[p] = new /\ posting'[p] = row
          /\ col'.kind = kind /\ col'.pc = "matching" /\ p \notin col'.doomed
      BY <1>1, <1>2, <1>5, <1>6, <1>8, <3>1
    <3>3. QED
      BY <1>1, <1>4, <1>7, <3>2 DEF AtHandKnown, Keeps, Adds, Alters
  <2>2. QED
    BY <2>1
<1>13. Counting => Counting'
  BY <1>1, <1>8, <1>11, <1>12 DEF Counting
<1>14. col'.touched \subseteq col'.seen
  BY <1>1, <1>2, <1>6, <1>8 DEF CountInv
<1>15. QED
  BY <1>1, <1>8, <1>9, <1>13, <1>14 DEF CountInv

\* The posting at hand is counted when it stays.
LEMMA CountMatch ==
    ASSUME IInv, CountInv, Match, NEW p \in Ids, p = Head(col.todo).id
    PROVE  CountInv'
<1> DEFINE h == Head(col.todo)
           found == Found(h.content)
           persist == ShouldPersist(found)
           counted == Counted(col.kind, persist)
           m == (col.match \ Of(p)) \cup (IF persist THEN Evidence(p, found) ELSE {})
           doomed == IF persist THEN {} ELSE {p} \ col.doomed
           dropped == IF persist THEN col.dropped ELSE col.dropped \cup {p}
           new == IF counted /\ col.kind = "new" THEN col.new + 1 ELSE col.new
           updated == IF counted /\ col.kind = "changed" THEN col.updated + 1
                      ELSE col.updated
           c == [col EXCEPT !.pc = "upserting", !.kind = "none", !.todo = Tail(@),
                            !.match = m, !.rows = Flushed, !.doomed = doomed,
                            !.dropped = dropped,
                            !.new = new, !.updated = updated]
<1>1. col.pc = "matching" /\ UNCHANGED posting
  BY DEF Match, tables
<1>2. col' = c
  BY DEF Match
<1>3. /\ col \in Collection
      /\ col.todo # <<>>
      /\ p \in col.seen /\ p \in col.touched
      /\ IsFiniteSet(col.seen)
      /\ col.touched \subseteq col.seen
      /\ col.doomed \subseteq col.touched
  BY <1>1 DEF IInv, Handling, Doomed, CountInv
<1>4. counted = persist
  BY DEF Counted
<1> HIDE DEF h, found, persist, counted
<1>5. /\ persist => doomed = {}
      /\ ~persist => p \in doomed \/ p \in col.doomed
      /\ doomed \subseteq {p}
      /\ \A q \in Ids : Flushed[q] = IF q \in col.doomed THEN NoRow ELSE col.rows[q]
  BY <1>3 DEF Flushed
<1>6. /\ new = IF persist /\ col.kind = "new" THEN col.new + 1 ELSE col.new
      /\ updated = IF persist /\ col.kind = "changed" THEN col.updated + 1 ELSE col.updated
  BY <1>4
<1> HIDE DEF m, doomed, dropped, new, updated
<1>7. /\ c.pc = "upserting" /\ c.todo = Tail(col.todo) /\ c.seen = col.seen
      /\ c.touched = col.touched /\ c.rows = Flushed /\ c.doomed = doomed
      /\ c.fetched = col.fetched /\ c.new = new /\ c.updated = updated
  BY <1>3 DEF Collection
<1> HIDE DEF c
<1>8. NamesRead' = NamesRead
  <2>1. NamesRead' = col.fetched - Len(Tail(col.todo))
    BY <1>2, <1>7 DEF NamesRead
  <2>2. QED
    BY <1>1, <1>3, <2>1, ListFacts DEF NamesRead
<1>9. DealtWith' = DealtWith \cup {p} /\ p \notin DealtWith
  BY <1>1, <1>2, <1>3, <1>7 DEF DealtWith
<1>10. ASSUME NEW q \in DealtWith
       PROVE  Adds(q)' = Adds(q) /\ Alters(q)' = Alters(q)
  <2>1. q \in Ids /\ q # p
    BY <1>3, <1>9 DEF DealtWith, Collection
  <2>2. Keeps(q)' = Keeps(q) /\ (Keeps(q) => col'.rows[q] = col.rows[q])
    BY <1>2, <1>5, <1>7, <2>1, NoRowFacts DEF Keeps
  <2>3. QED
    BY <1>1, <2>2 DEF Adds, Alters
<1>11. /\ Adds(p)' = (persist /\ Adds(p))
       /\ Alters(p)' = (persist /\ Alters(p))
  <2>1. /\ Keeps(p)' = (persist /\ Keeps(p))
        /\ Keeps(p) => col'.rows[p] = col.rows[p]
    BY <1>2, <1>5, <1>7, NoRowFacts DEF Keeps
  <2>2. QED
    BY <1>1, <2>1 DEF Adds, Alters
<1>12. /\ Added' = IF persist /\ Adds(p) THEN Added \cup {p} ELSE Added
       /\ Altered' = IF persist /\ Alters(p) THEN Altered \cup {p} ELSE Altered
  <2>1. Added' = {q \in DealtWith \cup {p} : Adds(q)'}
    BY <1>9 DEF Added
  <2>2. Altered' = {q \in DealtWith \cup {p} : Alters(q)'}
    BY <1>9 DEF Altered
  <2>3. Added' = IF persist /\ Adds(p) THEN Added \cup {p} ELSE Added
    BY <1>9, <1>10, <1>11, <2>1 DEF Added
  <2>4. Altered' = IF persist /\ Alters(p) THEN Altered \cup {p} ELSE Altered
    BY <1>9, <1>10, <1>11, <2>2 DEF Altered
  <2>5. QED
    BY <2>3, <2>4
<1>13. /\ IsFiniteSet(Added) /\ p \notin Added
       /\ IsFiniteSet(Altered) /\ p \notin Altered
  <2>1. Added \in SUBSET col.seen /\ Altered \in SUBSET col.seen
    BY DEF Added, Altered, DealtWith
  <2>2. IsFiniteSet(Added) /\ IsFiniteSet(Altered)
    BY <1>3, <2>1, FS_Subset
  <2>3. QED
    BY <1>9, <2>2 DEF Added, Altered
<1>14. /\ Cardinality(Added \cup {p}) = Cardinality(Added) + 1
       /\ Cardinality(Altered \cup {p}) = Cardinality(Altered) + 1
  BY <1>13, FS_AddElement
<1>15. ASSUME Counting
       PROVE  Counting'
  <2>1. /\ col.new = Cardinality(Added)
        /\ col.updated = Cardinality(Altered)
        /\ col.kind = "new" <=> Adds(p)
        /\ col.kind = "changed" <=> Alters(p)
    BY <1>1, <1>15 DEF Counting, AtHandKnown
  <2>2. new = Cardinality(Added')
    <3>1. CASE persist /\ Adds(p)
      BY <1>6, <1>12, <1>14, <2>1, <3>1
    <3>2. CASE ~(persist /\ Adds(p))
      BY <1>6, <1>12, <2>1, <3>2
    <3>3. QED
      BY <3>1, <3>2
  <2>3. updated = Cardinality(Altered')
    <3>1. CASE persist /\ Alters(p)
      BY <1>6, <1>12, <1>14, <2>1, <3>1
    <3>2. CASE ~(persist /\ Alters(p))
      BY <1>6, <1>12, <2>1, <3>2
    <3>3. QED
      BY <3>1, <3>2
  <2>4. col'.pc = "upserting" /\ col'.new = new /\ col'.updated = updated
    BY <1>2, <1>7
  <2>5. QED
    BY <2>2, <2>3, <2>4 DEF Counting, AtHandKnown
<1>16. QED
  BY <1>2, <1>3, <1>7, <1>8, <1>15 DEF CountInv

\* What is closed is counted in one go.
LEMMA CountClose ==
    ASSUME IInv, CountInv, CloseMissing
    PROVE  CountInv'
<1> DEFINE t == col.touched \cup Missing
           r == [p \in Ids |-> IF p \in Missing THEN Missed(Row(p)) ELSE Flushed[p]]
           n == Cardinality({p \in Missing : ~Missed(Row(p)).open})
           c == [col EXCEPT !.pc = "committing", !.touched = t, !.rows = r,
                            !.doomed = {}, !.closed = n]
<1>1. /\ col.pc = "upserting"
      /\ col.todo = <<>>
      /\ col' = c
      /\ UNCHANGED posting
  BY DEF CloseMissing, tables
<1>2. /\ col \in Collection
      /\ IsFiniteSet(col.seen)
      /\ col.touched \subseteq col.seen
      /\ col.doomed \subseteq col.touched
  BY <1>1 DEF IInv, Doomed, CountInv
<1>3. Missing \subseteq Ids \ col.seen
  BY DEF Missing
<1>4. ASSUME NEW q \in Ids
      PROVE  /\ q \in Missing => r[q] = Missed(Row(q))
             /\ q \notin Missing =>
                  r[q] = IF q \in col.doomed THEN NoRow ELSE col.rows[q]
  BY DEF Flushed
<1>5. t = col.touched \cup Missing /\ n = Cardinality({p \in Missing : ~Missed(Row(p)).open})
  OBVIOUS
<1> HIDE DEF t, r, n
<1>6. /\ c.pc = "committing" /\ c.todo = col.todo /\ c.seen = col.seen
      /\ c.touched = t /\ c.rows = r /\ c.closed = n /\ c.doomed = {}
      /\ c.fetched = col.fetched /\ c.new = col.new /\ c.updated = col.updated
  BY <1>2 DEF Collection
<1> HIDE DEF c
<1>7. NamesRead' = NamesRead
  BY <1>1, <1>6 DEF NamesRead
<1>8. DealtWith' = DealtWith
  BY <1>1, <1>2, <1>3, <1>5, <1>6 DEF DealtWith
<1>9. ASSUME NEW q \in DealtWith
      PROVE  Adds(q)' = Adds(q) /\ Alters(q)' = Alters(q)
  <2>1. q \in Ids /\ q \notin Missing
    BY <1>1, <1>2, <1>3 DEF DealtWith, Collection
  <2>2. Keeps(q)' = Keeps(q) /\ (Keeps(q) => col'.rows[q] = col.rows[q])
    BY <1>1, <1>4, <1>6, <2>1, NoRowFacts DEF Keeps
  <2>3. QED
    BY <1>1, <2>2 DEF Adds, Alters
<1>10. Added' = Added /\ Altered' = Altered
  BY <1>8, <1>9 DEF Added, Altered
<1>11. Counting => Counting'
  BY <1>1, <1>6, <1>10 DEF Counting, AtHandKnown
<1>12. Shut' = {p \in Missing : ~Missed(Row(p)).open}
  <2>1. col'.touched \ col'.seen = Missing
    BY <1>1, <1>2, <1>3, <1>5, <1>6
  <2>2. \A q \in Missing : col'.rows[q] = Missed(Row(q))
    BY <1>1, <1>3, <1>4, <1>6
  <2>3. Shut' = {p \in Missing : ~col'.rows[p].open}
    BY <2>1 DEF Shut
  <2>4. QED
    BY <2>2, <2>3
<1>13. col'.closed = Cardinality(Shut')
  BY <1>1, <1>5, <1>6, <1>12
<1>14. QED
  BY <1>1, <1>2, <1>6, <1>7, <1>11, <1>13 DEF CountInv

LEMMA CountNext == IInv /\ CountInv /\ [Next]_vars => CountInv'
<1> SUFFICES ASSUME IInv, CountInv, [Next]_vars PROVE CountInv'
  OBVIOUS
<1>1. CASE Commit \/ Fail
  BY <1>1, CountIdle DEF Commit, Fail
<1>2. CASE Retain
  BY <1>2, CountKept DEF Retain
<1>3. CASE Seed \/ Dispatch \/ NextDay \/ UNCHANGED vars
  BY <1>3, CountKept DEF Seed, Dispatch, NextDay, vars, tables
<1>4. ASSUME NEW k \in Keywords,
             SaveKeyword(k) \/ DeleteKeywordLoad(k) \/ DeleteKeywordCommit(k)
      PROVE  CountInv'
  BY <1>4, CountKept DEF SaveKeyword, DeleteKeywordLoad, DeleteKeywordCommit, tables
<1>5. CASE Match
  <2>1. Head(col.todo).id \in Ids
    BY <1>5, HeadFacts DEF Match, IInv, Handling
  <2>2. PICK p \in Ids : p = Head(col.todo).id
    BY <2>1
  <2>3. QED
    BY <1>5, <2>2, CountMatch
<1>6. QED
  BY <1>1, <1>2, <1>3, <1>4, <1>5, CountBegin, CountUpsert, CountLock, CountClose
     DEF Next, Collect

\* What a collection reports is what it has done to the table: for a list
\* without repetitions it counts the postings that it added, altered and
\* closed in comparison with the table that its commit meets.
THEOREM CountsAreTrue == Spec => CountsAgree
<1> DEFINE Agree ==
             /\ col.new = Cardinality({p \in Ids : posting'[p].there /\ ~posting[p].there})
             /\ col.updated = Cardinality(Changes(posting, posting'))
             /\ col.closed = Cardinality({p \in Ids : posting[p].there /\ posting[p].open
                                           /\ posting'[p].there /\ ~posting'[p].open})
<1>1. ASSUME IInv, CountInv, Commit, Cardinality(col.seen) = col.fetched
      PROVE  Agree
  <2>1. /\ col.pc = "committing"
        /\ posting' = [p \in Ids |-> Row(p)]
        /\ col \in Collection
        /\ \A p \in Ids : Pending(p)
        /\ posting \in [Ids -> Rows]
    BY <1>1 DEF Commit, IInv, TablesOK
  <2>2. NamesRead = col.fetched
    <3>1. col.fetched \in Nat /\ col.todo = <<>>
      BY <1>1, <2>1 DEF Collection, CountInv
    <3>2. Len(<<>>) = 0
      OBVIOUS
    <3>3. Len(col.todo) = 0
      BY <3>1, <3>2
    <3>4. NamesRead = col.fetched - Len(col.todo)
      BY <2>1 DEF NamesRead
    <3>5. QED
      BY <3>1, <3>3, <3>4
  <2>3. /\ col.new = Cardinality(Added)
        /\ col.updated = Cardinality(Altered)
        /\ col.closed = Cardinality(Shut)
    BY <1>1, <2>1, <2>2 DEF CountInv, Counting
  <2>4. DealtWith = col.seen /\ col.seen \subseteq Ids /\ col.touched \subseteq Ids
    BY <2>1 DEF DealtWith, Pending, Collection
  <2>5. ASSUME NEW p \in Ids
        PROVE  /\ p \in col.seen =>
                    /\ posting'[p] = col.rows[p]
                    /\ posting'[p].there => posting'[p].open
               /\ p \notin col.seen =>
                    /\ posting'[p].there = posting[p].there
                    /\ posting'[p].content = posting[p].content
               /\ p \in col.touched \ col.seen =>
                    /\ posting'[p] = col.rows[p]
                    /\ posting[p].there /\ posting[p].open
               /\ p \notin col.touched => posting'[p] = posting[p]
    <3>1. posting'[p] = Row(p) /\ posting[p] \in Rows /\ Pending(p)
      BY <2>1
    <3>2. p \in col.seen => /\ posting'[p] = col.rows[p]
                            /\ posting'[p].there => posting'[p].open
      BY <1>1, <2>1, <3>1, CommitFacts
    <3>3. p \notin col.seen => \/ posting'[p] = posting[p]
                               \/ /\ posting'[p] = Missed(posting[p])
                                  /\ posting[p].there /\ posting[p].open
      BY <1>1, <2>1, <3>1, CommitFacts
    <3>4. p \notin col.seen => /\ posting'[p].there = posting[p].there
                               /\ posting'[p].content = posting[p].content
      <4>1. posting[p].there /\ posting[p].open =>
              /\ Missed(posting[p]).there = TRUE
              /\ Missed(posting[p]).content = posting[p].content
        BY <3>1, MissedFacts, RowFacts
      <4>2. posting[p].there \in BOOLEAN
        BY <3>1, RowFacts, NoRowFacts
      <4>3. QED
        BY <3>3, <4>1, <4>2
    <3>5. p \in col.touched \ col.seen => /\ posting'[p] = col.rows[p]
                                          /\ posting[p].there /\ posting[p].open
      BY <3>1 DEF Pending, Row
    <3>6. p \notin col.touched => posting'[p] = posting[p]
      BY <3>1 DEF Row
    <3>7. QED
      BY <3>2, <3>4, <3>5, <3>6
  <2>k. \A p \in Ids : Keeps(p) <=> col.rows[p].there
    BY <1>1, <2>1 DEF Keeps, Doomed, IInv
  <2>6. {p \in Ids : posting'[p].there /\ ~posting[p].there} = Added
    BY <2>4, <2>5, <2>k DEF Added, Adds
  <2>7. Changes(posting, posting') = Altered
    <3>1. Changes(posting, posting') =
            {p \in Ids : posting[p].there /\ posting'[p].there
                           /\ posting[p].content # posting'[p].content}
      BY DEF Changes
    <3>2. QED
      BY <2>4, <2>5, <2>k, <3>1 DEF Altered, Alters
  <2>8. {p \in Ids : posting[p].there /\ posting[p].open
                       /\ posting'[p].there /\ ~posting'[p].open} = Shut
    <3>1. ASSUME NEW p \in Ids
          PROVE  (/\ posting[p].there /\ posting[p].open
                  /\ posting'[p].there /\ ~posting'[p].open) <=>
                 (p \in col.touched \ col.seen /\ ~col.rows[p].open)
      BY <2>5
    <3>2. QED
      BY <2>4, <3>1 DEF Shut
  <2>9. QED
    BY <2>3, <2>6, <2>7, <2>8
<1>2. Spec => []CountInv
  <2>1. IInv /\ CountInv /\ [Next]_vars => CountInv'
    BY CountNext
  <2>2. QED
    BY <2>1, CountInit, Invariance, PTL DEF Spec
<1>3. IInv /\ CountInv /\ [Next]_vars =>
        [Commit /\ Cardinality(col.seen) = col.fetched => Agree]_vars
  BY <1>1
<1>4. QED
  BY <1>2, <1>3, Invariance, PTL DEF Spec, CountsAgree

=============================================================================
