--------------------------- MODULE SocialAccounts ---------------------------
(***************************************************************************)
(* The tokens and the connection status of one SocialAccount.              *)
(*                                                                         *)
(* The background worker checks the account's health and publishes to it,  *)
(* one task at a time, but the posts of a publishing task run in parallel  *)
(* threads.  Web requests connect, disconnect and refresh the same row at  *)
(* any moment.  Each of them reads the row, talks to the platform, and     *)
(* saves columns of its own copy.                                          *)
(***************************************************************************)
EXTENDS Integers, FiniteSets

CONSTANTS
  Threads,    \* publishing threads of one task that post to this account
  MaxGrants,  \* bound: token pairs the platform issues
  MaxVisits   \* bound: web requests

-----------------------------------------------------------------------------
(* Providers: what connecting returns, and what refresh_token does *)

\* refresh   connecting stores a refresh token
\* expires   connecting stores an expiry
\* rotates   refreshing consumes the token and returns the next one
Tokens(refresh, expires, rotates) ==
  [refresh |-> refresh, expires |-> expires, rotates |-> rotates,
   boots |-> FALSE, composed |-> FALSE]

LinkedIn == Tokens(TRUE, TRUE, TRUE)
\* The page picker passes expires_in=None next to the refresh token.
LinkedInPage == Tokens(TRUE, FALSE, TRUE)
InstagramLogin == Tokens(TRUE, TRUE, TRUE)
YouTube == Tokens(TRUE, TRUE, FALSE)
GoogleBusiness == Tokens(TRUE, TRUE, FALSE)
ThreadsNet == Tokens(FALSE, TRUE, FALSE)
Facebook == Tokens(FALSE, FALSE, FALSE)
Instagram == Tokens(FALSE, FALSE, FALSE)
Mastodon == Tokens(FALSE, FALSE, FALSE)
Devto == Tokens(FALSE, FALSE, FALSE)
\* A session whose JWT names no expiry is refreshed by the first check.
Bluesky == [Tokens(TRUE, FALSE, TRUE) EXCEPT !.boots = TRUE]
\* The composer asks these two for boards and creator limits.
TikTok == [Tokens(TRUE, TRUE, TRUE) EXCEPT !.composed = TRUE]
Pinterest == [Tokens(TRUE, TRUE, FALSE) EXCEPT !.composed = TRUE]

Providers == {LinkedIn, LinkedInPage, TikTok, InstagramLogin, Bluesky, Pinterest,
              YouTube, GoogleBusiness, ThreadsNet, Facebook, Instagram, Mastodon, Devto}

ConnectionStatus == {"connected", "token_expiring", "disconnected", "error"}
Grants == 0..MaxGrants         \* 0 is the empty string
Expiry == {"none", "far", "soon"}
Account == [status: ConnectionStatus, access: Grants, refresh: Grants, expires: Expiry]
NoAccount == [status |-> "disconnected", access |-> 0, refresh |-> 0, expires |-> "none"]

VARIABLES
  provider,   \* the account's platform
  account,    \* the row
  issued,     \* external: token pairs issued
  honoured,   \* external: refresh tokens the platform still accepts
  queued,     \* a health check waits in the task queue
  job,        \* the worker's task: none, publish, or a health check's place
  mine,       \* the health check's copy of the row
  failed,     \* the health check's refresh failed
  thread,     \* each publishing thread's place
  theirs,     \* each thread's copy
  web,        \* the open web request: none, refreshing, saving, disconnecting
  page,       \* its copy
  visits,     \* web requests so far
  clean       \* history: no web request wrote next to an open read or write

vars == <<provider, account, issued, honoured, queued, job, mine, failed,
          thread, theirs, web, page, visits, clean>>
platform == <<issued, honoured>>
checkVars == <<queued, job, mine, failed>>
threadVars == <<thread, theirs>>
webVars == <<web, page, visits>>

Idle == [t \in Threads |-> "none"]

Init ==
  /\ provider \in Providers
  /\ account = [status |-> "connected", access |-> 1,
                refresh |-> IF provider.refresh THEN 1 ELSE 0,
                expires |-> IF provider.expires THEN "far" ELSE "none"]
  /\ issued = 1
  /\ honoured = {1}
  /\ queued = FALSE
  /\ job = "none"
  /\ mine = NoAccount
  /\ failed = FALSE
  /\ thread = Idle
  /\ theirs = [t \in Threads |-> NoAccount]
  /\ web = "none"
  /\ page = NoAccount
  /\ visits = 0
  /\ clean = TRUE

-----------------------------------------------------------------------------
(* refresh_token *)

ExpiringSoon(copy) == copy.expires = "soon"

\* The platform answers with a new pair; new is the copy of the caller then.
\* Mutant: the new refresh token of a rotating provider is not kept.
Renewed_KeepsOld(copy, new) ==
  /\ copy.refresh \in honoured
  /\ issued < MaxGrants
  /\ issued' = issued + 1
  /\ honoured' = IF provider.rotates THEN (honoured \ {copy.refresh}) \cup {issued + 1} ELSE honoured
  /\ new = [copy EXCEPT !.access = issued + 1, !.expires = "far", !.status = "connected"]

Renewed(copy, new) ==
  /\ copy.refresh \in honoured
  /\ issued < MaxGrants
  /\ issued' = issued + 1
  /\ honoured' = IF provider.rotates THEN (honoured \ {copy.refresh}) \cup {issued + 1} ELSE honoured
  /\ new = [copy EXCEPT !.access = issued + 1,
                        !.refresh = IF provider.rotates THEN issued + 1 ELSE @,
                        !.expires = "far",
                        !.status = "connected"]

\* External: a token comes within seven days of its expiry.
Age ==
  /\ account.expires = "far"
  /\ account' = [account EXCEPT !.expires = "soon"]
  /\ UNCHANGED <<provider, platform, checkVars, threadVars, webVars, clean>>

-----------------------------------------------------------------------------
(* The worker: schedule_all_health_checks, check_social_account_health *)

ScheduleChecks ==
  /\ account.status \in {"connected", "token_expiring"}
  /\ ~queued
  /\ queued' = TRUE
  /\ UNCHANGED <<provider, account, platform, job, mine, failed, threadVars, webVars, clean>>

\* A null expiry makes a Bluesky account refresh once; every other provider
\* refreshes within seven days of the expiry it stored.
NeedsRefresh(copy) ==
  (ExpiringSoon(copy) \/ (provider.boots /\ copy.expires = "none")) /\ copy.refresh # 0

StartCheck ==
  /\ job = "none"
  /\ queued
  /\ queued' = FALSE
  /\ mine' = account
  /\ failed' = FALSE
  /\ job' = IF account.access = 0 THEN "preserving"
            ELSE IF NeedsRefresh(account) THEN "refreshing" ELSE "profile"
  /\ UNCHANGED <<provider, account, platform, threadVars, webVars, clean>>

\* No access token: the row passes for a manual account and stays connected.
\* The save names the status only.
PreserveManual ==
  /\ job = "preserving"
  /\ account' = [account EXCEPT !.status = "connected"]
  /\ job' = "none"
  /\ mine' = NoAccount
  /\ UNCHANGED <<provider, platform, queued, failed, threadVars, webVars, clean>>

CheckRefresh ==
  /\ job = "refreshing"
  /\ \/ Renewed(mine, mine') /\ failed' = FALSE
     \/ /\ mine' = [mine EXCEPT !.status = "token_expiring"]
        /\ failed' = TRUE
        /\ UNCHANGED platform
  /\ job' = "profile"
  /\ UNCHANGED <<provider, account, queued, threadVars, webVars, clean>>

\* get_profile: answered, failing for a while (429, 5xx), or refused.
\* Mutant: an answer clears the warning of a failed refresh.
CheckProfile_ClearsWarning ==
  /\ job = "profile"
  /\ mine' \in {[mine EXCEPT !.status = "connected"], mine, [mine EXCEPT !.status = "error"]}
  /\ job' = "saving"
  /\ UNCHANGED <<provider, account, platform, queued, failed, threadVars, webVars, clean>>

CheckProfile ==
  /\ job = "profile"
  /\ mine' \in {[mine EXCEPT !.status = IF @ = "token_expiring" THEN @ ELSE "connected"],
                mine,
                [mine EXCEPT !.status = "error"]}
  /\ job' = "saving"
  /\ UNCHANGED <<provider, account, platform, queued, failed, threadVars, webVars, clean>>

\* The tokens and the status of the copy go back together.
SaveCheck ==
  /\ job = "saving"
  /\ account' = mine
  /\ job' = "none"
  /\ mine' = NoAccount
  /\ failed' = FALSE
  /\ UNCHANGED <<provider, platform, queued, threadVars, webVars, clean>>

-----------------------------------------------------------------------------
(* The worker: the threads of a publishing task *)

StartPublishing ==
  /\ job = "none"
  /\ job' = "publish"
  /\ thread' = [t \in Threads |-> "start"]
  /\ UNCHANGED <<provider, account, platform, queued, mine, failed, theirs, webVars, clean>>

\* Each thread reads the row for itself, and refreshes a token about to expire.
ReadAccount(t) ==
  /\ thread[t] = "start"
  /\ IF ExpiringSoon(account) /\ account.refresh # 0
       THEN /\ theirs' = [theirs EXCEPT ![t] = account]
            /\ thread' = [thread EXCEPT ![t] = "refreshing"]
       ELSE /\ thread' = [thread EXCEPT ![t] = "done"]
            /\ theirs' = theirs
  /\ UNCHANGED <<provider, account, platform, checkVars, webVars, clean>>

\* A failure is logged and the old token kept.
ThreadRefresh(t) ==
  /\ thread[t] = "refreshing"
  /\ \/ \E new \in Account :
          /\ Renewed(theirs[t], new)
          /\ theirs' = [theirs EXCEPT ![t] = new]
          /\ thread' = [thread EXCEPT ![t] = "saving"]
     \/ /\ thread' = [thread EXCEPT ![t] = "done"]
        /\ theirs' = [theirs EXCEPT ![t] = NoAccount]
        /\ UNCHANGED platform
  /\ UNCHANGED <<provider, account, checkVars, webVars, clean>>

ThreadSave(t) ==
  /\ thread[t] = "saving"
  /\ account' = theirs[t]
  /\ thread' = [thread EXCEPT ![t] = "done"]
  /\ theirs' = [theirs EXCEPT ![t] = NoAccount]
  /\ UNCHANGED <<provider, platform, checkVars, webVars, clean>>

EndPublishing ==
  /\ job = "publish"
  /\ \A t \in Threads : thread[t] = "done"
  /\ job' = "none"
  /\ thread' = Idle
  /\ UNCHANGED <<provider, account, platform, queued, mine, failed, theirs, webVars, clean>>

-----------------------------------------------------------------------------
(* Web requests *)

Visit == visits < MaxVisits /\ visits' = visits + 1

\* Nobody holds a copy of the row that it may still write.
Alone == job = "none" /\ web = "none"

\* pinterest_boards and tiktok_creator_info refresh like a publishing thread,
\* without asking whether there is a refresh token.
OpenComposer ==
  /\ web = "none"
  /\ Visit
  /\ provider.composed
  /\ ExpiringSoon(account)
  /\ page' = account
  /\ web' = "refreshing"
  /\ clean' = (clean /\ job = "none")
  /\ UNCHANGED <<provider, account, platform, checkVars, threadVars>>

ComposerRefresh ==
  /\ web = "refreshing"
  /\ \/ Renewed(page, page') /\ web' = "saving"
     \/ web' = "none" /\ page' = NoAccount /\ UNCHANGED platform
  /\ clean' = (clean /\ job = "none")
  /\ UNCHANGED <<provider, account, checkVars, threadVars, visits>>

ComposerSave ==
  /\ web = "saving"
  /\ account' = page
  /\ web' = "none"
  /\ page' = NoAccount
  /\ clean' = (clean /\ job = "none")
  /\ UNCHANGED <<provider, platform, checkVars, threadVars, visits>>

\* disconnect_social_account: revoke if the platform lets us, then clear.
Revoke ==
  /\ web = "none"
  /\ Visit
  /\ web' = "disconnecting"
  /\ honoured' \in {honoured, {}}
  /\ clean' = (clean /\ job = "none")
  /\ UNCHANGED <<provider, account, issued, checkVars, threadVars, page>>

Disconnect ==
  /\ web = "disconnecting"
  /\ account' = NoAccount
  /\ web' = "none"
  /\ clean' = (clean /\ job = "none")
  /\ UNCHANGED <<provider, platform, checkVars, threadVars, page, visits>>

\* _create_or_update_account: a new authorization replaces every column.
Authorized(refresh, expires) ==
  /\ Visit
  /\ issued < MaxGrants
  /\ issued' = issued + 1
  /\ honoured' = honoured \cup {issued + 1}
  /\ account' = [status |-> "connected", access |-> issued + 1,
                 refresh |-> IF refresh THEN issued + 1 ELSE 0,
                 expires |-> IF expires THEN "far" ELSE "none"]
  /\ clean' = (clean /\ Alone)
  /\ UNCHANGED <<provider, checkVars, threadVars, web, page>>

\* oauth_callback and connection_oauth_callback store what the provider gave.
OauthCallback ==
  /\ provider \notin {LinkedInPage, Bluesky}
  /\ Authorized(provider.refresh, provider.expires)

\* select_account passes no expiry: the token is never "expiring soon" again.
SelectAccount == provider = LinkedInPage /\ Authorized(TRUE, FALSE)

\* connect_bluesky: a session, with the expiry its JWT may name.
ConnectBluesky == provider = Bluesky /\ \E expires \in BOOLEAN : Authorized(TRUE, expires)

\* connect_devto: an API key, never refreshed.  (As far as tokens go, DEV.to,
\* Mastodon and Meta's two are one kind of provider.)
ConnectDevto == provider = Devto /\ Authorized(FALSE, FALSE)

\* create-manual for an account that exists: the status alone.
ConnectManually ==
  /\ Visit
  /\ account' = [account EXCEPT !.status = "connected"]
  /\ clean' = (clean /\ Alone)
  /\ UNCHANGED <<provider, platform, checkVars, threadVars, web, page>>

\* Listing the accounts mends a tokenless one in error.
ListAccounts ==
  /\ Visit
  /\ account.access = 0 /\ account.status = "error"
  /\ account' = [account EXCEPT !.status = "connected"]
  /\ clean' = (clean /\ Alone)
  /\ UNCHANGED <<provider, platform, checkVars, threadVars, web, page>>

-----------------------------------------------------------------------------

Next ==
  \/ Age
  \/ ScheduleChecks \/ StartCheck \/ PreserveManual
  \/ CheckRefresh \/ CheckProfile \/ SaveCheck
  \/ StartPublishing \/ EndPublishing
  \/ \E t \in Threads : ReadAccount(t) \/ ThreadRefresh(t) \/ ThreadSave(t)
  \/ OpenComposer \/ ComposerRefresh \/ ComposerSave
  \/ Revoke \/ Disconnect
  \/ OauthCallback \/ SelectAccount \/ ConnectBluesky \/ ConnectDevto
  \/ ConnectManually \/ ListAccounts

Spec == Init /\ [][Next]_vars

-----------------------------------------------------------------------------
(* Properties *)

TypeOK ==
  /\ provider \in Providers
  /\ {account, mine, page} \cup {theirs[t] : t \in Threads} \subseteq Account
  /\ issued \in Grants /\ honoured \subseteq Grants
  /\ {queued, failed, clean} \subseteq BOOLEAN
  /\ job \in {"none", "publish", "preserving", "refreshing", "profile", "saving"}
  /\ thread \in [Threads -> {"none", "start", "refreshing", "saving", "done"}]
  /\ web \in {"none", "refreshing", "saving", "disconnecting"}

\* As long as web requests keep clear of the worker, a refresh token that is
\* stored while nobody is at work on the account is one the platform accepts:
\* health checks and parallel publishing threads never leave a spent token.
StoredRefreshIsHonoured ==
  clean /\ Alone /\ account.refresh # 0 => account.refresh \in honoured

\* However checks, threads and web requests overlap, a row that says
\* "disconnected" holds no token: every save that brings tokens back brings
\* its own status with them.
DisconnectedHoldsNoToken ==
  account.status = "disconnected" => account.access = 0 /\ account.refresh = 0

\* A health check whose refresh failed leaves a warning or an error behind,
\* even when the profile call after it succeeds.
FailedRefreshIsShown ==
  [][job = "saving" /\ job' = "none" /\ failed => account'.status # "connected"]_vars

=============================================================================
