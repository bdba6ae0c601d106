--------------------------- MODULE KakaoTokensProofs ---------------------------
(***************************************************************************)
(* Proofs about KakaoTokens for every number of dispatches and of tokens,  *)
(* and every division of them between the processes.                       *)
(***************************************************************************)
EXTENDS KakaoTokens, TLAPS

Pcs == {"idle", "calling", "saving", "failing", "noticing", "noticed"}

Job == [refresh : Tokens \cup {NoToken}, legible : BOOLEAN,
        error : Errors \cup {"none"}, banner : Banner]

\* A session that is to raise the banner has an error to raise it for, and
\* one that has something to call with or to save has a refresh token.
Ready(d) ==
    /\ pc[d] = "failing" => job[d].error \in Errors
    /\ pc[d] \in {"noticing", "noticed"} => job[d].banner.required

\* The banner as a session remembers it tells the truth, too, and so will the
\* one that it is about to write.
Truthful(d) ==
    /\ job[d].banner.notified => job[d].banner.error \in told
    /\ pc[d] = "noticed" => job[d].banner.error \in told

IInv ==
    /\ TypeOK
    /\ \A d \in Refreshers : Ready(d) /\ Truthful(d)
    /\ NotifiedMeansSent

-----------------------------------------------------------------------------

LEMMA BannerFacts ==
    /\ Lowered \in Banner
    /\ ~Lowered.notified
    /\ \A b \in Banner : /\ b.required \in BOOLEAN
                         /\ b.notified \in BOOLEAN
                         /\ b.required => b.error \in Errors
<1>1. Lowered \in Banner
  BY DEF Banner
<1>2. Lowered.required = FALSE /\ Lowered.notified = FALSE
  BY DEF Lowered
<1>3. ASSUME NEW b \in Banner, b # Lowered
      PROVE  b.required \in BOOLEAN /\ b.notified \in BOOLEAN /\ b.error \in Errors
  BY <1>3 DEF Banner
<1>4. QED
  BY <1>1, <1>2, <1>3

\* The banner with an error is a banner, and claims no notice that the old
\* one did not claim for the same error.
LEMMA RaisedFacts ==
    ASSUME NEW b \in Banner, NEW error \in Errors
    PROVE  /\ Raised(b, error) \in Banner
           /\ Raised(b, error).required
           /\ Raised(b, error).error = error
           /\ Raised(b, error).notified => b.notified /\ b.error = error
<1>1. StaysNotified(b, error) \in BOOLEAN
  BY BannerFacts DEF StaysNotified
<1>2. QED
  BY <1>1 DEF Raised, StaysNotified, Banner

\* A notice that is recorded.
LEMMA NoticedFacts ==
    ASSUME NEW b \in Banner, b.required
    PROVE  /\ [b EXCEPT !.notified = TRUE] \in Banner
           /\ [b EXCEPT !.notified = TRUE].error = b.error
           /\ b.error \in Errors
<1>1. b # Lowered
  BY DEF Lowered
<1>2. b \in [required : {TRUE}, error : Errors, notified : BOOLEAN]
  BY <1>1 DEF Banner
<1>3. QED
  BY <1>2 DEF Banner

LEMMA NoJobFacts ==
    /\ NoJob \in Job
    /\ NoJob.banner = Lowered
    /\ \A b \in Banner : /\ [NoJob EXCEPT !.banner = b] \in Job
                         /\ [NoJob EXCEPT !.banner = b].banner = b
BY BannerFacts DEF NoJob, Job, NoToken

LEMMA StoredType ==
    ASSUME NEW r \in Tokens \cup {NoToken}
    PROVE  Stored(r) \in TokenRow
BY DEF Stored, TokenRow

\* The conjuncts of the type invariant.
LEMMA TypeParts ==
    TypeOK <=> /\ token \in TokenRow
               /\ banner \in Banner
               /\ valid \subseteq Tokens
               /\ issued \in 0..MaxTokens
               /\ pc \in [Refreshers -> Pcs]
               /\ job \in [Refreshers -> Job]
               /\ grant \in [there : BOOLEAN, refresh : Tokens \cup {NoToken}]
               /\ told \subseteq Errors
BY DEF TypeOK, Pcs, Job

\* ... and of the next state.
LEMMA TypePartsNext ==
    TypeOK' <=> /\ token' \in TokenRow
                /\ banner' \in Banner
                /\ valid' \subseteq Tokens
                /\ issued' \in 0..MaxTokens
                /\ pc' \in [Refreshers -> Pcs]
                /\ job' \in [Refreshers -> Job]
                /\ grant' \in [there : BOOLEAN, refresh : Tokens \cup {NoToken}]
                /\ told' \subseteq Errors
BY DEF TypeOK, Pcs, Job

-----------------------------------------------------------------------------

LEMMA InitInv == Init => IInv
<1> SUFFICES ASSUME Init PROVE IInv
  OBVIOUS
<1>1. TypeOK
  BY BannerFacts, NoJobFacts, KakaoConstantsOK, TypeParts
     DEF Init, NoRow, TokenRow, NoGrant, Pcs, NoToken
<1>2. \A d \in Refreshers : Ready(d) /\ Truthful(d)
  BY BannerFacts, NoJobFacts DEF Init, Ready, Truthful
<1>3. NotifiedMeansSent
  BY BannerFacts DEF Init, NotifiedMeansSent
<1>4. QED
  BY <1>1, <1>2, <1>3 DEF IInv

\* A session that meets an error: what is left to check of a step is the
\* error, and that it touches nothing else.
LEMMA RaiseInv ==
    ASSUME IInv, NEW d \in Refreshers, NEW error \in Errors, Raise(d, error),
           UNCHANGED <<token, valid, issued, grant, told>>
    PROVE  IInv'
<1> DEFINE b == Raised(banner, error)
<1>1. /\ b \in Banner
      /\ b.required
      /\ b.notified => b.error \in told
  BY RaisedFacts DEF IInv, TypeOK, NotifiedMeansSent
<1>2. /\ banner' = b
      /\ job' = [job EXCEPT ![d] = [NoJob EXCEPT !.banner = b]]
      /\ pc' = [pc EXCEPT ![d] = "noticing"]
  BY DEF Raise
<1>3. TypeOK'
  BY <1>1, <1>2, NoJobFacts, TypeParts, TypePartsNext DEF IInv, Pcs
<1>4. ASSUME NEW e \in Refreshers
      PROVE  (Ready(e) /\ Truthful(e))'
  <2>1. CASE e = d
    BY <1>1, <1>2, <2>1, NoJobFacts, TypeParts DEF IInv, Ready, Truthful
  <2>2. CASE e # d
    BY <1>2, <2>2, TypeParts DEF IInv, Ready, Truthful
  <2>3. QED
    BY <2>1, <2>2
<1>5. NotifiedMeansSent'
  BY <1>1, <1>2 DEF NotifiedMeansSent
<1>6. QED
  BY <1>3, <1>4, <1>5 DEF IInv

\* A step that changes one session only, and leaves the banner alone: it is
\* enough to look at that session.
LEMMA SessionInv ==
    ASSUME IInv, NEW d \in Refreshers, NEW p \in Pcs, NEW j \in Job,
           pc' = [pc EXCEPT ![d] = p],
           job' = [job EXCEPT ![d] = j],
           token' \in TokenRow, valid' \subseteq Tokens,
           issued' \in 0..MaxTokens,
           UNCHANGED <<banner, grant>>,
           told \subseteq told', told' \subseteq Errors,
           p = "failing" => j.error \in Errors,
           p \in {"noticing", "noticed"} => j.banner.required,
           j.banner.notified => j.banner.error \in told',
           p = "noticed" => j.banner.error \in told'
    PROVE  IInv'
<1>1. TypeOK'
  BY TypeParts, TypePartsNext DEF IInv
<1>2. ASSUME NEW e \in Refreshers
      PROVE  (Ready(e) /\ Truthful(e))'
  <2>1. CASE e = d
    BY <2>1, TypeParts DEF IInv, Ready, Truthful
  <2>2. CASE e # d
    BY <2>2, TypeParts DEF IInv, Ready, Truthful
  <2>3. QED
    BY <2>1, <2>2
<1>3. NotifiedMeansSent'
  BY DEF IInv, NotifiedMeansSent
<1>4. QED
  BY <1>1, <1>2, <1>3 DEF IInv

\* Kakao's answers keep to the tokens that there are.
LEMMA AcceptType ==
    ASSUME TypeOK, NEW old \in Tokens, Accept(old)
    PROVE  /\ valid' \subseteq Tokens
           /\ issued' \in 0..MaxTokens
           /\ NextRefresh(old) \in Tokens
<1>1. CASE UNCHANGED kakao
  BY <1>1 DEF TypeOK, NextRefresh, kakao
<1>2. CASE /\ issued < MaxTokens
           /\ issued' = issued + 1
           /\ valid' = (valid \ {old}) \cup {issued + 1}
  <2>1. issued + 1 \in Tokens /\ issued + 1 # issued
    BY <1>2, KakaoConstantsOK DEF TypeOK, Tokens
  <2>2. issued' \in 0..MaxTokens
    BY <1>2, KakaoConstantsOK DEF TypeOK
  <2>3. QED
    BY <1>2, <2>1, <2>2 DEF TypeOK, NextRefresh
<1>3. QED
  BY <1>1, <1>2 DEF Accept

\* The step of a refresher from one call to the next.
LEMMA RefresherInv ==
    ASSUME IInv, NEW d \in Refreshers, Begin(d) \/ Proceed(d)
    PROVE  IInv'
<1> USE DEF rows, kakao
<1>0. /\ TypeOK
      /\ job[d] \in Job
      /\ Ready(d)
      /\ Truthful(d)
  BY TypeParts DEF IInv
<1>1. CASE FindNone(d)
  BY <1>1, RaiseInv DEF FindNone, Errors
<1>2. CASE FindIllegible(d)
  BY <1>2, RaiseInv DEF FindIllegible, Errors
<1>3. CASE Load(d)
  <2> DEFINE j == [job[d] EXCEPT !.refresh = token.refresh,
                                 !.legible = token.legible]
  <2>1. /\ pc' = [pc EXCEPT ![d] = "calling"]
        /\ job' = [job EXCEPT ![d] = j]
        /\ UNCHANGED <<token, banner, valid, issued, grant, told>>
    BY <1>0, <1>3, TypeParts DEF Load
  <2>2. j \in Job /\ j.banner = job[d].banner
    BY <1>0, TypeParts DEF TokenRow, Job
  <2> HIDE DEF j
  <2>3. QED
    BY <1>0, <2>1, <2>2, SessionInv, TypeParts DEF Pcs, Truthful
<1>4. ASSUME NEW error \in Errors, Fails(d, error), pc[d] = "calling",
             UNCHANGED <<token, banner, grant, told>>,
             valid' \subseteq Tokens, issued' \in 0..MaxTokens
      PROVE  IInv'
  <2> DEFINE j == [job[d] EXCEPT !.error = error]
  <2>1. /\ pc' = [pc EXCEPT ![d] = "failing"]
        /\ job' = [job EXCEPT ![d] = j]
    BY <1>0, <1>4, TypeParts DEF Fails
  <2>2. j \in Job /\ j.banner = job[d].banner /\ j.error = error
    BY <1>0 DEF Job
  <2> HIDE DEF j
  <2>3. QED
    BY <1>0, <1>4, <2>1, <2>2, SessionInv, TypeParts DEF Pcs, Truthful
<1>5. CASE DecryptFails(d)
  BY <1>0, <1>4, <1>5, TypeParts DEF DecryptFails, Errors
<1>6. CASE Refreshed(d)
  <2> DEFINE r == NextRefresh(job[d].refresh)
             j == [job[d] EXCEPT !.refresh = r]
  <2>1. /\ job[d].refresh \in Tokens
        /\ Accept(job[d].refresh)
    BY <1>0, <1>6, TypeParts DEF Refreshed
  <2>2. /\ pc' = [pc EXCEPT ![d] = "saving"]
        /\ job' = [job EXCEPT ![d] = j]
        /\ UNCHANGED <<token, banner, grant, told>>
    BY <1>0, <1>6, TypeParts DEF Refreshed
  <2>3. /\ valid' \subseteq Tokens
        /\ issued' \in 0..MaxTokens
        /\ r \in Tokens
    BY <1>0, <2>1, AcceptType
  <2>4. j \in Job /\ j.banner = job[d].banner
    BY <1>0, <2>3 DEF Job
  <2> HIDE DEF j
  <2>5. QED
    BY <1>0, <2>2, <2>3, <2>4, SessionInv, TypeParts DEF Pcs, Truthful
<1>7. CASE Refused(d)
  BY <1>0, <1>4, <1>7, TypeParts DEF Refused, Errors
<1>8. CASE AnswerLost(d)
  <2>1. valid' \subseteq Tokens /\ issued' \in 0..MaxTokens
    <3>1. CASE UNCHANGED kakao
      BY <1>0, <3>1, TypeParts
    <3>2. CASE job[d].refresh \in valid /\ Accept(job[d].refresh)
      BY <1>0, <3>2, AcceptType, TypeParts
    <3>3. QED
      BY <1>8, <3>1, <3>2 DEF AnswerLost
  <2>2. QED
    BY <1>4, <1>8, <2>1 DEF AnswerLost, Errors
<1>9. CASE Save(d)
  <2>1. token' \in TokenRow
    BY <1>0, <1>9, StoredType DEF Save, Job
  <2>2. /\ banner' = Lowered
        /\ pc' = [pc EXCEPT ![d] = "idle"]
        /\ job' = [job EXCEPT ![d] = NoJob]
        /\ UNCHANGED <<valid, issued, grant, told>>
    BY <1>9 DEF Save, Cleared
  <2>3. TypeOK'
    BY <1>0, <2>1, <2>2, BannerFacts, NoJobFacts, TypeParts, TypePartsNext DEF Pcs
  <2>4. ASSUME NEW e \in Refreshers
        PROVE  (Ready(e) /\ Truthful(e))'
    <3>1. CASE e = d
      BY <2>2, <3>1, BannerFacts, NoJobFacts, TypeParts DEF IInv, Ready, Truthful
    <3>2. CASE e # d
      BY <2>2, <3>2, TypeParts DEF IInv, Ready, Truthful
    <3>3. QED
      BY <3>1, <3>2
  <2>5. NotifiedMeansSent'
    BY <2>2, BannerFacts DEF NotifiedMeansSent
  <2>6. QED
    BY <2>3, <2>4, <2>5 DEF IInv
<1>10. CASE Fail(d)
  BY <1>0, <1>10, RaiseInv DEF Fail, Ready
<1>11. CASE NoNotice(d)
  BY <1>0, <1>11, SessionInv, BannerFacts, NoJobFacts, TypeParts
     DEF NoNotice, EndNotice, Pcs
<1>12. CASE SendNotice(d)
  <2>1. /\ pc' = [pc EXCEPT ![d] = "noticed"]
        /\ job' = [job EXCEPT ![d] = job[d]]
        /\ told' = told \cup {job[d].banner.error}
        /\ UNCHANGED <<token, banner, valid, issued, grant>>
    BY <1>0, <1>12, TypeParts DEF SendNotice
  <2>2. /\ job[d].banner.required
        /\ job[d].banner.error \in Errors
    BY <1>0, <1>12, BannerFacts DEF SendNotice, Ready, Job
  <2>3. QED
    BY <1>0, <2>1, <2>2, SessionInv, TypeParts DEF Pcs
<1>13. CASE RecordNotice(d)
  <2> DEFINE b == [job[d].banner EXCEPT !.notified = TRUE]
  <2>1. /\ banner' = b
        /\ pc' = [pc EXCEPT ![d] = "idle"]
        /\ job' = [job EXCEPT ![d] = NoJob]
        /\ UNCHANGED <<token, valid, issued, grant, told>>
    BY <1>13 DEF RecordNotice, EndNotice
  <2>2. b \in Banner /\ b.error \in told
    BY <1>0, <1>13, NoticedFacts DEF RecordNotice, Ready, Truthful, Job
  <2>3. TypeOK'
    BY <1>0, <2>1, <2>2, NoJobFacts, TypeParts, TypePartsNext DEF Pcs
  <2>4. ASSUME NEW e \in Refreshers
        PROVE  (Ready(e) /\ Truthful(e))'
    <3>1. CASE e = d
      BY <2>1, <3>1, BannerFacts, NoJobFacts, TypeParts DEF IInv, Ready, Truthful
    <3>2. CASE e # d
      BY <2>1, <3>2, TypeParts DEF IInv, Ready, Truthful
    <3>3. QED
      BY <3>1, <3>2
  <2>5. NotifiedMeansSent'
    BY <2>1, <2>2 DEF NotifiedMeansSent
  <2>6. QED
    BY <2>3, <2>4, <2>5 DEF IInv
<1>14. QED
  BY <1>1, <1>2, <1>3, <1>5, <1>6, <1>7, <1>8, <1>9, <1>10, <1>11, <1>12, <1>13
     DEF Begin, Proceed

\* Processes that die take their sessions with them, and the callback's.
LEMMA StopInv ==
    ASSUME IInv, NEW dying, Stop(dying), grant' \in {grant, NoGrant},
           token' \in TokenRow,
           UNCHANGED <<banner, valid, issued, told>>
    PROVE  IInv'
<1>1. TypeOK'
  <2>1. pc' \in [Refreshers -> Pcs]
    BY TypeParts DEF IInv, Stop, Pcs
  <2>2. job' \in [Refreshers -> Job]
    BY NoJobFacts, TypeParts DEF IInv, Stop
  <2>3. grant' \in [there : BOOLEAN, refresh : Tokens \cup {NoToken}]
    <3>1. NoGrant \in [there : BOOLEAN, refresh : Tokens \cup {NoToken}]
      BY DEF NoGrant
    <3>2. QED
      BY <3>1, TypeParts DEF IInv
  <2>4. QED
    BY <2>1, <2>2, <2>3, TypeParts, TypePartsNext DEF IInv
<1>2. ASSUME NEW e \in Refreshers
      PROVE  (Ready(e) /\ Truthful(e))'
  <2>1. CASE e \in dying
    BY <2>1, BannerFacts, NoJobFacts, TypeParts DEF IInv, Stop, Ready, Truthful
  <2>2. CASE e \notin dying
    BY <2>2, TypeParts DEF IInv, Stop, Ready, Truthful
  <2>3. QED
    BY <2>1, <2>2
<1>3. NotifiedMeansSent'
  BY DEF IInv, NotifiedMeansSent
<1>4. QED
  BY <1>1, <1>2, <1>3 DEF IInv

\* Everything but the refreshers.
LEMMA OthersInv ==
    ASSUME IInv, Exchange \/ SaveGrant \/ Environment \/ UNCHANGED vars
    PROVE  IInv'
<1> USE DEF rows, kakao, threads
<1>0. TypeOK
  BY DEF IInv
<1>1. ASSUME TypeOK', UNCHANGED <<pc, job, told>>, banner' \in {banner, Lowered}
      PROVE  IInv'
  <2>1. \A e \in Refreshers : (Ready(e) /\ Truthful(e))'
    BY <1>1 DEF IInv, Ready, Truthful
  <2>2. NotifiedMeansSent'
    BY <1>1, BannerFacts DEF IInv, NotifiedMeansSent
  <2>3. QED
    BY <1>1, <2>1, <2>2 DEF IInv
<1>2. CASE Exchange
  <2>1. issued' \in 0..MaxTokens /\ valid' \subseteq Tokens
    BY <1>0, <1>2, KakaoConstantsOK, TypeParts DEF Exchange, Tokens
  <2>2. grant' \in [there : BOOLEAN, refresh : Tokens \cup {NoToken}]
    BY <1>0, <1>2, KakaoConstantsOK, TypeParts DEF Exchange, Tokens
  <2>3. QED
    BY <1>0, <1>1, <1>2, <2>1, <2>2, TypeParts, TypePartsNext DEF Exchange
<1>3. CASE SaveGrant
  <2>1. token' \in TokenRow
    BY <1>0, <1>3, StoredType, TypeParts DEF SaveGrant
  <2>2. QED
    BY <1>0, <1>1, <1>3, <2>1, BannerFacts, TypeParts, TypePartsNext
       DEF SaveGrant, Cleared, NoGrant
<1>4. CASE AccessExpires
  <2>1. token' \in TokenRow
    BY <1>0, <1>4, TypeParts DEF AccessExpires, TokenRow
  <2>2. QED
    BY <1>0, <1>1, <1>4, <2>1, TypeParts, TypePartsNext DEF AccessExpires
<1>5. CASE Revoke
  BY <1>0, <1>1, <1>5, TypeParts, TypePartsNext DEF Revoke
<1>6. CASE \E dying \in {InWorker, Refreshers \ InWorker} : Crash(dying)
  BY <1>0, <1>6, StopInv, TypeParts DEF Crash
<1>7. CASE ChangeKey
  <2>1. token' \in TokenRow
    BY <1>0, <1>7, TypeParts DEF ChangeKey, TokenRow
  <2>2. QED
    BY <1>7, <2>1, StopInv DEF ChangeKey
<1>8. CASE UNCHANGED vars
  BY <1>0, <1>1, <1>8, TypeParts, TypePartsNext DEF vars
<1>9. QED
  BY <1>2, <1>3, <1>4, <1>5, <1>6, <1>7, <1>8 DEF Environment

\* The inductive invariant holds in every reachable state.
THEOREM Invariance == Spec => []IInv
<1>1. IInv /\ [Next]_vars => IInv'
  BY RefresherInv, OthersInv DEF Next
<1>2. QED
  BY <1>1, InitInv, PTL DEF Spec

\* Every variable stays in its type, in particular a banner that is raised
\* names an error (_set_reauth_error).
THEOREM TypeCorrect == Spec => []TypeOK
<1>1. IInv => TypeOK
  BY DEF IInv
<1>2. QED
  BY <1>1, Invariance, PTL

\* A banner that keeps the notice from being sent again names an error that a
\* notice has been delivered for (_send_reauth_notice).
THEOREM Notices == Spec => []NotifiedMeansSent
<1>1. IInv => NotifiedMeansSent
  BY DEF IInv
<1>2. QED
  BY <1>1, Invariance, PTL

=============================================================================
