------------------------------ MODULE KakaoTokens ------------------------------
(***************************************************************************)
(* The tokens for KakaoTalk: KakaoTokenService and KakaoOAuthClient        *)
(* (src/app/services/kakao.py), the daily refresh and the notice that asks *)
(* for a new login (NotificationRuntime.refresh_kakao_tokens and           *)
(* _send_reauth_notice, src/app/services/notification_runtime.py), and the *)
(* callback of that login (kakao_callback, src/app/api/web/admin.py).      *)
(*                                                                         *)
(* The daily job of the worker, a dispatch of either process and the       *)
(* callback share one row of oauth_tokens and one of app_settings, the     *)
(* banner.  None of them locks the row before it calls Kakao: a step is    *)
(* what lies between two calls.  A session keeps the rows it has loaded,   *)
(* so the notice works on the banner as its own transaction left it.       *)
(* The column last_error, which nothing reads, is left out.                *)
(***************************************************************************)
EXTENDS Integers, FiniteSets

CONSTANTS
    Daily,       \* the job kakao-token-refresh of the worker
    Senders,     \* dispatches, which ask for an access token
    InWorker,    \* those of them that run in the worker, and the daily job
    MaxTokens,   \* bound: refresh tokens Kakao ever issues
    MayCrash     \* bound: whether processes die

Refreshers == Senders \cup {Daily}

\* refresh_token_enc may be NULL.
NoToken == 0
Tokens == 1..MaxTokens

ASSUME KakaoConstantsOK ==
    /\ Daily \notin Senders
    /\ Daily \in InWorker
    /\ InWorker \subseteq Refreshers
    /\ MaxTokens \in Nat
    /\ MayCrash \in BOOLEAN

VARIABLES
    token,   \* the row of table oauth_tokens
    banner,  \* app_settings.kakao_reauth
    valid,   \* refresh tokens that Kakao accepts
    issued,  \* refresh tokens that Kakao has issued so far
    pc,      \* where each refresher is
    job,     \* the locals of its session
    grant,   \* what the callback has got from Kakao and not saved yet
    told     \* history: errors that a notice has been delivered for

vars == <<token, banner, valid, issued, pc, job, grant, told>>

rows == <<token, banner>>
kakao == <<valid, issued>>
threads == <<pc, job>>

Errors == {"absent", "illegible", "refused", "network"}

NoRow == [there |-> FALSE, refresh |-> NoToken, fresh |-> FALSE,
          legible |-> FALSE]

\* What a successful refresh makes of the banner.
Lowered == [required |-> FALSE, error |-> "none", notified |-> FALSE]

\* What a session uses of the row it has loaded, or will store; the error it
\* has met; and its copy of the banner.
NoJob == [refresh |-> NoToken, legible |-> FALSE, error |-> "none",
          banner |-> Lowered]

NoGrant == [there |-> FALSE, refresh |-> NoToken]

Init ==
    /\ token = NoRow
    /\ banner = Lowered
    /\ valid = {}
    /\ issued = 0
    /\ pc = [d \in Refreshers |-> "idle"]
    /\ job = [d \in Refreshers |-> NoJob]
    /\ grant = NoGrant
    /\ told = {}

-----------------------------------------------------------------------------
(* The banner: _set_reauth_error. *)

\* mutant of StaysNotified: whatever the error was, a notice was sent
StaysNotifiedAlways(b, error) == b.notified

\* A notice counts only for the error it was sent for.
StaysNotified(b, error) == b.error = error /\ b.notified

Raised(b, error) ==
    [required |-> TRUE, error |-> error, notified |-> StaysNotified(b, error)]

\* mutants of Cleared: a success leaves the banner as it is; only the flag is
\* taken down
ClearedNot(b) == b
ClearedFlag(b) == [b EXCEPT !.required = FALSE]

Cleared(b) == Lowered

\* _require_reauthentication and the two handlers: the session remembers the
\* banner it has written.
Raise(d, error) ==
    /\ banner' = Raised(banner, error)
    /\ job' = [job EXCEPT ![d] = [NoJob EXCEPT !.banner = Raised(banner, error)]]
    /\ pc' = [pc EXCEPT ![d] = "noticing"]

-----------------------------------------------------------------------------
(* refresh_daily and access_token. *)

Usable(row) == row.there /\ row.refresh # NoToken

\* mutant of NeedsRefresh: the daily job, too, waits for the access token
NeedsRefreshIfOld(d, row) == ~row.fresh

\* A dispatch uses an access token that is good for five more minutes; the
\* daily job refreshes it in any case.
NeedsRefresh(d, row) == d = Daily \/ ~row.fresh

\* No connection: nothing to refresh with.
FindNone(d) ==
    /\ pc[d] = "idle"
    /\ ~Usable(token)
    /\ Raise(d, "absent")
    /\ UNCHANGED <<token, kakao, grant, told>>

\* A fresh access token that the key of this process does not decrypt.
FindIllegible(d) ==
    /\ pc[d] = "idle"
    /\ Usable(token)
    /\ ~NeedsRefresh(d, token)
    /\ ~token.legible
    /\ Raise(d, "illegible")
    /\ UNCHANGED <<token, kakao, grant, told>>

\* The row is read; a fresh and legible token is returned and changes nothing.
Load(d) ==
    /\ pc[d] = "idle"
    /\ Usable(token)
    /\ NeedsRefresh(d, token)
    /\ pc' = [pc EXCEPT ![d] = "calling"]
    /\ job' = [job EXCEPT ![d].refresh = token.refresh,
                          ![d].legible = token.legible]
    /\ UNCHANGED <<rows, kakao, grant, told>>

Fails(d, error) ==
    /\ pc' = [pc EXCEPT ![d] = "failing"]
    /\ job' = [job EXCEPT ![d].error = error]

DecryptFails(d) ==
    /\ pc[d] = "calling"
    /\ ~job[d].legible
    /\ Fails(d, "illegible")
    /\ UNCHANGED <<rows, kakao, grant, told>>

\* Kakao accepts the refresh token, and may replace it.
Accept(old) ==
    \/ UNCHANGED kakao
    \/ /\ issued < MaxTokens
       /\ issued' = issued + 1
       /\ valid' = (valid \ {old}) \cup {issued + 1}

\* The refresh token to store: the new one, or else the one that was used.
NextRefresh(old) == IF issued' # issued THEN issued' ELSE old

Refreshed(d) ==
    LET old == job[d].refresh IN
    /\ pc[d] = "calling"
    /\ job[d].legible
    /\ old \in valid
    /\ Accept(old)
    /\ pc' = [pc EXCEPT ![d] = "saving"]
    /\ job' = [job EXCEPT ![d].refresh = NextRefresh(old)]
    /\ UNCHANGED <<rows, grant, told>>

Refused(d) ==
    /\ pc[d] = "calling"
    /\ job[d].legible
    /\ job[d].refresh \notin valid
    /\ Fails(d, "refused")
    /\ UNCHANGED <<rows, kakao, grant, told>>

\* No answer, or one that cannot be read: Kakao may have acted on the request.
AnswerLost(d) ==
    LET old == job[d].refresh IN
    /\ pc[d] = "calling"
    /\ job[d].legible
    /\ \/ UNCHANGED kakao
       \/ old \in valid /\ Accept(old)
    /\ Fails(d, "network")
    /\ UNCHANGED <<rows, grant, told>>

\* The columns of the new tokens.
Stored(refresh) ==
    [there |-> TRUE, refresh |-> refresh, fresh |-> TRUE, legible |-> TRUE]

\* The UPDATE waits for the row lock and the banner is read after it, so this
\* is one step.
Save(d) ==
    /\ pc[d] = "saving"
    /\ token' = Stored(job[d].refresh)
    /\ banner' = Cleared(banner)
    /\ pc' = [pc EXCEPT ![d] = "idle"]
    /\ job' = [job EXCEPT ![d] = NoJob]
    /\ UNCHANGED <<kakao, grant, told>>

\* except KakaoOAuthError: the tokens are left alone.
Fail(d) ==
    /\ pc[d] = "failing"
    /\ Raise(d, job[d].error)
    /\ UNCHANGED <<token, kakao, grant, told>>

-----------------------------------------------------------------------------
(* _send_reauth_notice. *)

EndNotice(d) ==
    /\ pc' = [pc EXCEPT ![d] = "idle"]
    /\ job' = [job EXCEPT ![d] = NoJob]

\* The session's banner says that the notice has been sent, or no browser is
\* subscribed, or none could be reached.
NoNotice(d) ==
    /\ pc[d] = "noticing"
    /\ EndNotice(d)
    /\ UNCHANGED <<rows, kakao, grant, told>>

SendNotice(d) ==
    /\ pc[d] = "noticing"
    /\ ~job[d].banner.notified
    /\ told' = told \cup {job[d].banner.error}
    /\ pc' = [pc EXCEPT ![d] = "noticed"]
    /\ UNCHANGED <<rows, kakao, job, grant>>

\* The whole value of the setting is written, from the session's copy.
RecordNotice(d) ==
    /\ pc[d] = "noticed"
    /\ banner' = [job[d].banner EXCEPT !.notified = TRUE]
    /\ EndNotice(d)
    /\ UNCHANGED <<token, kakao, grant, told>>

-----------------------------------------------------------------------------
(* The login of the administrator: kakao_callback. *)

\* exchange_code; Kakao may end the grants it made before.
Exchange ==
    /\ ~grant.there
    /\ issued < MaxTokens
    /\ issued' = issued + 1
    /\ \/ valid' = {issued + 1}
       \/ valid' = valid \cup {issued + 1}
    /\ \E refresh \in {issued + 1, NoToken} :
         grant' = [there |-> TRUE, refresh |-> refresh]
    /\ UNCHANGED <<rows, threads, told>>

\* KakaoTokenService.save reads and writes the row in one transaction.
SaveGrant ==
    /\ grant.there
    /\ token' = Stored(grant.refresh)
    /\ banner' = Cleared(banner)
    /\ grant' = NoGrant
    /\ UNCHANGED <<kakao, threads, told>>

-----------------------------------------------------------------------------
(* The environment. *)

\* Access tokens last for hours.
AccessExpires ==
    /\ token.fresh
    /\ token' = [token EXCEPT !.fresh = FALSE]
    /\ UNCHANGED <<banner, kakao, threads, grant, told>>

\* A refresh token expires, or the user withdraws the consent.
Revoke ==
    /\ \E r \in valid : valid' = valid \ {r}
    /\ UNCHANGED <<rows, issued, threads, grant, told>>

Stop(dying) ==
    /\ pc' = [d \in Refreshers |-> IF d \in dying THEN "idle" ELSE pc[d]]
    /\ job' = [d \in Refreshers |-> IF d \in dying THEN NoJob ELSE job[d]]

\* The callback runs in the API.
Crash(dying) ==
    /\ MayCrash
    /\ \/ \E d \in dying : pc[d] # "idle"
       \/ grant.there /\ dying # InWorker
    /\ Stop(dying)
    /\ grant' = IF dying = InWorker THEN grant ELSE NoGrant
    /\ UNCHANGED <<rows, kakao, told>>

\* Both processes are started again with another FERNET_KEY.
ChangeKey ==
    /\ MayCrash
    /\ token.legible
    /\ token' = [token EXCEPT !.legible = FALSE]
    /\ Stop(Refreshers)
    /\ grant' = NoGrant
    /\ UNCHANGED <<banner, kakao, told>>

-----------------------------------------------------------------------------

Begin(d) == FindNone(d) \/ FindIllegible(d) \/ Load(d)

Proceed(d) ==
    \/ DecryptFails(d)
    \/ Refreshed(d)
    \/ Refused(d)
    \/ AnswerLost(d)
    \/ Save(d)
    \/ Fail(d)
    \/ NoNotice(d)
    \/ SendNotice(d)
    \/ RecordNotice(d)

Environment ==
    \/ AccessExpires
    \/ Revoke
    \/ \E dying \in {InWorker, Refreshers \ InWorker} : Crash(dying)
    \/ ChangeKey

Next ==
    \/ \E d \in Refreshers : Begin(d) \/ Proceed(d)
    \/ Exchange
    \/ SaveGrant
    \/ Environment

Spec == Init /\ [][Next]_vars

\* A call to Kakao has a timeout, and the daily job comes every day.  Nobody
\* need log in or dispatch.
FairSpec ==
    /\ Spec
    /\ \A d \in Refreshers : WF_vars(Proceed(d))
    /\ WF_vars(Begin(Daily))

-----------------------------------------------------------------------------
(* Properties. *)

TokenRow == [there : BOOLEAN, refresh : Tokens \cup {NoToken},
             fresh : BOOLEAN, legible : BOOLEAN]

Banner == {Lowered}
          \cup [required : {TRUE}, error : Errors, notified : BOOLEAN]

TypeOK ==
    /\ token \in TokenRow
    /\ banner \in Banner
    /\ valid \subseteq Tokens
    /\ issued \in 0..MaxTokens
    /\ pc \in [Refreshers -> {"idle", "calling", "saving", "failing",
                              "noticing", "noticed"}]
    /\ job \in [Refreshers -> [refresh : Tokens \cup {NoToken},
                               legible : BOOLEAN,
                               error : Errors \cup {"none"},
                               banner : Banner]]
    /\ grant \in [there : BOOLEAN, refresh : Tokens \cup {NoToken}]
    /\ told \subseteq Errors

\* A banner that keeps the notice from being sent again names an error that a
\* notice has been delivered for, whichever process wrote it and whatever the
\* others have written in between.
NotifiedMeansSent == banner.notified => banner.error \in told

\* The connection is good: the stored refresh token is legible and accepted.
Connected == Usable(token) /\ token.legible /\ token.refresh \in valid

\* Whether a step loses what Kakao answered, or the process with it.
Unlucky ==
    \/ \E d \in Refreshers : AnswerLost(d)
    \/ \E dying \in {InWorker, Refreshers \ InWorker} : Crash(dying)

\* A connection that is lost, through an answer that never came, a crash, two
\* refreshes at once, another key or the passing of time, does not go
\* unnoticed: the banner is raised, or it is good again.
LossIsShown ==
    <>[][~Unlucky]_vars => (~Connected ~> banner.required \/ Connected)

\* The banner does not outlive the trouble: with a connection that stays good
\* it is lowered again, also one that was raised by a refresh that lost a race
\* or by a notice recorded late.
BannerClears ==
    <>[][~Unlucky]_vars /\ <>[]Connected => []<>~banner.required

=============================================================================
