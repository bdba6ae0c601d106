-------------------------- MODULE PostingCollection --------------------------
(***************************************************************************)
(* What a crawl does with the postings that it found:                      *)
(* CollectorService.collect (src/app/services/collector.py) with the       *)
(* deduplicator, the keyword matcher and the repositories it works on, and *)
(* those who change the same tables meanwhile: the administrator's         *)
(* keywords (src/app/services/keywords.py), retention                      *)
(* (src/app/services/retention.py) and, as one step, the dispatch.         *)
(*                                                                         *)
(* The postings are those of one source, whose crawls exclude each other   *)
(* (CrawlExecution).  A collection is one transaction: it locks the rows   *)
(* it writes, nobody sees them before its commit, but each of its queries  *)
(* reads what others have committed by then.                               *)
(***************************************************************************)
EXTENDS Integers, Sequences, FiniteSets

CONSTANTS
    Ids,             \* external_id or fingerprint of the source's postings
    Contents,        \* title, deadline and text: what content_hash covers
    Blank,           \* a raw posting whose title normalizes to nothing
    Deadline,        \* the day of the deadline of each content, or Never
    Keywords,        \* rows of table keywords
    Wordings,        \* what a keyword may say: term, kind, mode and fields
    NoWording,
    Term,            \* the term of each wording
    Excludes,        \* wordings of kind EXCLUDE; the others are INCLUDE
    Primary,         \* those whose term is_primary_include_term accepts
    Defaults,        \* those of DEFAULT_KEYWORDS, which are INCLUDE
    Finds,           \* pairs of a wording and a content in which it is found
    CloseAfter,      \* misses that close a posting: 3
    Lookback,        \* days a posting is new: notification_lookback_minutes
    MaxBatch,        \* bound: raw postings in one crawl
    MaxRevisions,    \* bound: revisions a posting may have before a crawl
    MaxDay           \* bound: the last day

Never == -1

Days == 1..MaxDay

ASSUME CollectionConstantsOK ==
    /\ Blank \notin Contents
    /\ Deadline \in [Contents -> Nat \cup {Never}]
    /\ NoWording \notin Wordings
    /\ DOMAIN Term = Wordings
    /\ Excludes \cup Primary \cup Defaults \subseteq Wordings
    /\ Excludes \cap Defaults = {}
    /\ Finds \subseteq Wordings \X Contents
    /\ CloseAfter \in Nat \ {0}
    /\ {Lookback, MaxBatch, MaxRevisions} \subseteq Nat
    /\ MaxDay \in Nat \ {0}

VARIABLES
    day,      \* the date in Korea
    keyword,  \* table keywords
    deleting, \* keywords whose DELETE has found no matches yet
    posting,  \* table job_postings, with the revisions of each
    match,    \* table job_keyword_matches: posting, keyword and, for the field
              \* and the snippet, what the keyword said when it was found
    note,     \* table notifications: postings that have a row
    col,      \* the collection under way and what it has not committed
    missed    \* history: complete lists in succession without each posting

vars == <<day, keyword, deleting, posting, match, note, col, missed>>

admin == <<keyword, deleting>>
tables == <<posting, match, note>>

NoKeyword == [there |-> FALSE, active |-> FALSE, wording |-> NoWording]

NoRow == [there |-> FALSE, content |-> Blank, text |-> FALSE, open |-> FALSE,
          missing |-> 0, firstSeen |-> Never, revisions |-> <<>>]

Unwritten == [p \in Ids |-> NoRow]

Idle == [pc |-> "idle", begun |-> Never, complete |-> FALSE, todo |-> <<>>,
         seen |-> {}, kind |-> "none", touched |-> {}, dropped |-> {},
         doomed |-> {}, rows |-> Unwritten, match |-> {}, fetched |-> 0, new |-> 0,
         updated |-> 0, closed |-> 0]

Init ==
    /\ day = 1
    /\ keyword = [k \in Keywords |-> NoKeyword]
    /\ deleting = {}
    /\ posting = Unwritten
    /\ match = {}
    /\ note = {}
    /\ col = Idle
    /\ missed = [p \in Ids |-> 0]

-----------------------------------------------------------------------------
(* The collection. *)

RawJobs == [id : Ids, content : Contents \cup {Blank}]

Batches == UNION {[1..n -> RawJobs] : n \in 0..MaxBatch}

\* collect is called with what the crawler returned; a crawl that lost a page
\* is not complete.  first_seen_at is the time the transaction began.
Begin ==
    /\ col.pc = "idle"
    /\ \A p \in Ids : Len(posting[p].revisions) < MaxRevisions
    /\ \E batch \in Batches, complete \in BOOLEAN :
         col' = [Idle EXCEPT !.pc = "upserting", !.begun = day,
                             !.complete = complete, !.todo = batch,
                             !.fetched = Len(batch)]
    /\ UNCHANGED <<day, admin, tables, missed>>

\* The row of a posting as the collection sees it.
Row(p) == IF p \in col.touched THEN col.rows[p] ELSE posting[p]

NewRow(content) ==
    [NoRow EXCEPT !.there = TRUE, !.content = content, !.text = TRUE,
                  !.open = TRUE, !.firstSeen = col.begun]

Write(p, row) == [touched |-> col.touched \cup {p},
                  rows |-> [col.rows EXCEPT ![p] = row]]

\* insert_if_absent: INSERT ... ON CONFLICT DO NOTHING.  normalize raises on a
\* blank title, so that such a batch can only fail.  A row that is doomed, its
\* session.delete not flushed yet, is still in the way.
Upsert ==
    /\ col.pc = "upserting"
    /\ col.todo # <<>>
    /\ LET job == Head(col.todo)
           p   == job.id
           w   == Write(p, NewRow(job.content))
       IN /\ job.content # Blank
          /\ \/ /\ ~Row(p).there
                /\ col' = [col EXCEPT
                     !.pc = "matching", !.kind = "new", !.seen = @ \cup {p},
                     !.touched = w.touched, !.rows = w.rows]
             \/ /\ Row(p).there
                /\ col' = [col EXCEPT !.pc = "locking", !.seen = @ \cup {p}]
    /\ UNCHANGED <<day, admin, tables, missed>>

\* mutant of Revised: the row is updated before the revision is made
RevisedLate(row, content) ==
    Append(row.revisions, [old |-> content, new |-> content])

\* The revisions of a row whose content changes.
Revised(row, content) ==
    Append(row.revisions, [old |-> row.content, new |-> content])

\* apply_seen.
Seen(row, content) ==
    [row EXCEPT !.content = content, !.text = TRUE, !.open = TRUE,
                !.missing = 0]

\* get_by_identity locks the row that was in the way; if it has been deleted
\* since, RuntimeError.
Lock ==
    /\ col.pc = "locking"
    /\ LET job     == Head(col.todo)
           row     == Row(job.id)
           changed == row.content # job.content
           revised == IF changed
                      THEN [row EXCEPT !.revisions = Revised(row, job.content)]
                      ELSE row
           w       == Write(job.id, Seen(revised, job.content))
       IN /\ row.there
          /\ col' = [col EXCEPT
               !.pc = "matching", !.kind = IF changed THEN "changed" ELSE "same",
               !.touched = w.touched, !.rows = w.rows]
    /\ UNCHANGED <<day, admin, tables, missed>>

Active(k) == keyword[k].there /\ keyword[k].active

Says(k) == keyword[k].wording

\* evaluate_keywords: the active keywords found in a content.
Found(content) == {k \in Keywords : Active(k) /\ <<Says(k), content>> \in Finds}

Include(k) == Says(k) \notin Excludes

IsMatched(found) ==
    /\ \E k \in found : Include(k) /\ Says(k) \in Primary
    /\ \A k \in found : Include(k)

ShouldPersist(found) ==
    \/ ~\E k \in Keywords : Active(k) /\ Include(k)
    \/ IsMatched(found)

Matches == Ids \X Keywords \X Wordings

Of(p) == {x \in Matches : x[1] = p}

\* mutant of Evidence: the matches of the old text stay
EvidenceAdded(p, found) ==
    (Of(p) \cap match) \cup {<<p, k, Says(k)>> : k \in found}

\* replace_for_posting.
Evidence(p, found) == {<<p, k, Says(k)>> : k \in found}

\* mutant of Counted: counted before it is known whether the posting stays
CountedAlways(kind, persist) == TRUE

Counted(kind, persist) == persist

\* The rows once what is doomed has been flushed.
Flushed == [p \in Ids |-> IF p \in col.doomed THEN NoRow ELSE col.rows[p]]

\* The keywords are read for every posting.  One that is of no interest is
\* deleted, with its matches, revisions and notifications, by the next flush,
\* which begin_nested makes for the posting that follows.  If that is the same
\* posting its row is gone by now: its matches, if any, miss their foreign key
\* and the batch can only fail.
Match ==
    /\ col.pc = "matching"
    /\ LET job     == Head(col.todo)
           p       == job.id
           found   == Found(job.content)
           persist == ShouldPersist(found)
           counted == Counted(col.kind, persist)
       IN /\ p \in col.doomed => found = {}
          /\ col' = [col EXCEPT
               !.pc = "upserting", !.kind = "none", !.todo = Tail(@),
               !.match = (@ \ Of(p)) \cup
                         (IF persist THEN Evidence(p, found) ELSE {}),
               !.rows = Flushed,
               !.doomed = IF persist THEN {} ELSE {p} \ @,
               !.dropped = IF persist THEN @ ELSE @ \cup {p},
               !.new = IF counted /\ col.kind = "new" THEN @ + 1 ELSE @,
               !.updated = IF counted /\ col.kind = "changed" THEN @ + 1 ELSE @]
    /\ UNCHANGED <<day, admin, tables, missed>>

\* mutants of Missing: partial results count; closed postings count too
MissingPartial == {p \in Ids \ col.seen : Row(p).there /\ Row(p).open}
MissingClosed == {p \in Ids \ col.seen : col.complete /\ Row(p).there}

\* The open postings that a complete list does not name.
Missing == {p \in Ids \ col.seen : col.complete /\ Row(p).there /\ Row(p).open}

Missed(row) ==
    IF row.missing + 1 >= CloseAfter
    THEN [row EXCEPT !.missing = @ + 1, !.open = FALSE]
    ELSE [row EXCEPT !.missing = @ + 1]

\* close_missing and the last flush; a partial result closes nothing.
CloseMissing ==
    /\ col.pc = "upserting"
    /\ col.todo = <<>>
    /\ col' = [col EXCEPT
         !.pc = "committing",
         !.touched = @ \cup Missing,
         !.rows = [p \in Ids |-> IF p \in Missing THEN Missed(Row(p))
                                 ELSE Flushed[p]],
         !.doomed = {},
         !.closed = Cardinality({p \in Missing : ~Missed(Row(p)).open})]
    /\ UNCHANGED <<day, admin, tables, missed>>

Commit ==
    /\ col.pc = "committing"
    /\ posting' = [p \in Ids |-> Row(p)]
    /\ match' = {x \in match : x[1] \notin col.seen} \cup col.match
    /\ note' = note \ col.dropped
    /\ missed' = [p \in Ids |->
         CASE p \in col.seen -> 0
           [] p \notin col.seen /\ col.complete /\ missed[p] < CloseAfter -> missed[p] + 1
           [] OTHER -> missed[p]]
    /\ col' = Idle
    /\ UNCHANGED <<day, admin>>

\* A blank title, a row that is gone or the database: everything is undone.
Fail ==
    /\ col.pc # "idle"
    /\ col' = Idle
    /\ UNCHANGED <<day, admin, tables, missed>>

-----------------------------------------------------------------------------
(* The administrator's keywords. *)

Taken(term) == {k \in Keywords : keyword[k].there /\ Term[Says(k)] = term}

\* KeywordService.create and update.  Everything about a keyword may change
\* while its matches stay.  Its term is unique, and to change it the update
\* waits for a collection that refers to the keyword.
SaveKeyword(k) ==
    /\ \E w \in Wordings, a \in BOOLEAN :
         /\ Taken(Term[w]) \subseteq {k}
         /\ k \notin Taken(Term[w]) => \A x \in col.match : x[2] # k
         /\ keyword' = [keyword EXCEPT ![k] =
                          [there |-> TRUE, active |-> a, wording |-> w]]
    /\ keyword' # keyword
    /\ UNCHANGED <<day, deleting, tables, col, missed>>

\* seed_default_keywords, at every deployment: default terms that have been
\* deleted or reworded come back, each in a row of its own.
Seed ==
    LET absent == {w \in Defaults : Taken(Term[w]) = {}} IN
    /\ absent # {}
    /\ \E row \in [absent -> Keywords] :
         /\ \A w \in absent : ~keyword[row[w]].there
         /\ \A v, w \in absent : row[v] = row[w] => v = w
         /\ keyword' = [k \in Keywords |->
              IF \E w \in absent : row[w] = k
              THEN [there |-> TRUE, active |-> TRUE,
                    wording |-> CHOOSE w \in absent : row[w] = k]
              ELSE keyword[k]]
    /\ UNCHANGED <<day, deleting, tables, col, missed>>

\* KeywordService.delete: the ORM loads the matches of the keyword to null
\* their foreign key.  If there are any the database refuses and nothing
\* changes; so only the delete of a keyword without matches goes on.
DeleteKeywordLoad(k) ==
    /\ keyword[k].there
    /\ k \notin deleting
    /\ \A x \in match : x[2] # k
    /\ deleting' = deleting \cup {k}
    /\ UNCHANGED <<day, keyword, tables, col, missed>>

\* mutant of Bereft: the matches of a deleted keyword stay
BereftNot(x, k) == FALSE

\* ON DELETE CASCADE.
Bereft(x, k) == x[2] = k

\* DELETE waits for a collection that refers to the keyword; matches that
\* were committed since go with it.
DeleteKeywordCommit(k) ==
    /\ k \in deleting
    /\ \A x \in col.match : x[2] # k
    /\ deleting' = deleting \ {k}
    /\ keyword' = [keyword EXCEPT ![k] = NoKeyword]
    /\ match' = {x \in match : ~Bereft(x, k)}
    /\ UNCHANGED <<day, posting, note, col, missed>>

-----------------------------------------------------------------------------
(* Retention and dispatch. *)

\* The whole day after the deadline is over.
Expired(row) ==
    row.there /\ Deadline[row.content] # Never /\ Deadline[row.content] < day - 1

\* mutant of MayClear: the text of every posting that is not expired may go
MayClearOpen(row) == row.there

\* Closed: when it has been for 90 days its text is cleared.
MayClear(row) == row.there /\ ~row.open

\* What retention leaves of a row.  How long ago it was closed and its
\* revisions were made is left open: those that are too old are the first.
Retained(row) ==
    IF Expired(row) THEN {NoRow}
    ELSE UNION {{[row EXCEPT !.text = text,
                             !.revisions = SubSeq(@, n, Len(@))] :
                   n \in 1..(Len(row.revisions) + 1)} :
                 text \in {row.text, row.text /\ ~MayClear(row)}}

\* RetentionService.run, as far as it concerns these tables: it waits for the
\* rows that a collection has locked.
Retain ==
    /\ posting' \in [Ids -> UNION {Retained(posting[p]) : p \in Ids}]
    /\ \A p \in Ids : posting'[p] \in Retained(posting[p])
    /\ posting' # posting
    /\ \A p \in col.touched : posting'[p] = posting[p]
    /\ match' = {x \in match : posting'[x[1]].there}
    /\ note' = {p \in note : posting'[p].there}
    /\ UNCHANGED <<day, admin, col, missed>>

\* list_notification_candidates, for one channel.
IsCandidate(p) ==
    /\ posting[p].there
    /\ posting[p].open
    /\ posting[p].firstSeen >= day - Lookback
    /\ p \notin note
    /\ \E x \in match : x[1] = p /\ Include(x[2])
    /\ \A x \in match : x[1] = p => Include(x[2])

\* A whole dispatch, in one step (NotificationDispatcher has its own): it
\* waits for the rows of a collection to refer to them.
Dispatch ==
    LET candidates == {p \in Ids : IsCandidate(p)} IN
    /\ candidates # {}
    /\ candidates \cap col.touched = {}
    /\ note' = note \cup candidates
    /\ UNCHANGED <<day, admin, posting, match, col, missed>>

NextDay ==
    /\ day < MaxDay
    /\ day' = day + 1
    /\ UNCHANGED <<admin, tables, col, missed>>

-----------------------------------------------------------------------------

Collect == Begin \/ Upsert \/ Lock \/ Match \/ CloseMissing \/ Commit \/ Fail

Next ==
    \/ Collect
    \/ \E k \in Keywords :
         SaveKeyword(k) \/ DeleteKeywordLoad(k) \/ DeleteKeywordCommit(k)
    \/ Seed
    \/ Retain
    \/ Dispatch
    \/ NextDay

Spec == Init /\ [][Next]_vars

-----------------------------------------------------------------------------
(* Properties. *)

Revision == [old : Contents, new : Contents]

IsRow(row) ==
    IF row.there
    THEN /\ row.content \in Contents
         /\ {row.text, row.open} \subseteq BOOLEAN
         /\ row.missing \in 0..CloseAfter
         /\ row.firstSeen \in Days
         /\ \A n \in DOMAIN row.revisions : row.revisions[n] \in Revision
    ELSE row = NoRow

KeywordRow == [there : {TRUE}, active : BOOLEAN, wording : Wordings]

TypeOK ==
    /\ day \in Days
    /\ keyword \in [Keywords -> KeywordRow \cup {NoKeyword}]
    /\ deleting \subseteq Keywords
    /\ \A p \in Ids : IsRow(posting[p]) /\ IsRow(col.rows[p])
    /\ match \cup col.match \subseteq Matches
    /\ note \cup col.seen \cup col.touched \cup col.dropped \subseteq Ids
    /\ col.doomed \subseteq col.dropped
    /\ missed \in [Ids -> 0..CloseAfter]

\* A posting is closed by the third complete list in succession without it,
\* and by nothing else: lists that failed or are partial count neither way,
\* unless a partial one shows it; then it is open, also if it was closed.
ClosedAfterMisses ==
    \A p \in Ids : posting[p].there =>
        (posting[p].open <=> missed[p] < CloseAfter)

\* The revisions that are left tell how the posting came to its content:
\* each takes up where the one before left off and the last one leads to the
\* row, through closing, reopening, retention and lists that name it twice.
RevisionChain ==
    \A p \in Ids : LET r == posting[p].revisions IN
        /\ \A n \in 1..(Len(r) - 1) : r[n].new = r[n + 1].old
        /\ r # <<>> => r[Len(r)].new = posting[p].content
        /\ \A n \in DOMAIN r : r[n].old # r[n].new

\* Matches are evidence: the posting and the keyword exist, and what the
\* keyword said when it was found is found in the content that the posting has
\* now, the text of which may have been cleared since.  The keyword itself may
\* say something else by now.
EvidenceCurrent ==
    \A x \in match :
        /\ posting[x[1]].there
        /\ keyword[x[2]].there
        /\ <<x[3], posting[x[1]].content>> \in Finds

Changes(before, after) == {p \in Ids : before[p].there /\ after[p].there
                                       /\ before[p].content # after[p].content}

\* A row as SourceListing sees it.
Shown(row) ==
    [state |-> CASE ~row.there -> "absent"
                 [] row.there /\ row.open /\ row.text -> "open"
                 [] row.there /\ ~row.open /\ row.text -> "closed"
                 [] OTHER -> "stripped",
     missed |-> IF row.open THEN row.missing ELSE 0]

\* The committed rows.
Life == [p \in Ids |-> Shown(posting[p])]

Listing == INSTANCE SourceListing WITH life <- Life

\* A collection takes the rows from one list to the next in one step, with
\* everything it reads and writes on the way: a posting is open with its text
\* after the list that names it, unless nobody wants it, also if it was closed
\* and its text cleared; retention takes no text from an open posting.
FollowsListing == Listing!Spec

\* What a collection reports is what it has done to the table, keywords and
\* retention changing meanwhile (for a list that names no posting twice).
CountsAgree ==
    [][Commit
       /\ Cardinality(col.seen) = col.fetched
       => /\ col.new = Cardinality({p \in Ids : posting'[p].there /\ ~posting[p].there})
          /\ col.updated = Cardinality(Changes(posting, posting'))
          /\ col.closed = Cardinality({p \in Ids : posting[p].there /\ posting[p].open
                                        /\ posting'[p].there /\ ~posting'[p].open})]_vars

=============================================================================
