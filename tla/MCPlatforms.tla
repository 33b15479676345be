---------------------------- MODULE MCPlatforms ----------------------------
(***************************************************************************)
(* What stands between the application and the social networks, for TLC:   *)
(* publishing through a provider, keeping an account's tokens, connecting  *)
(* an account.  The parts share no variable, so each behaviour is one of   *)
(* one part.                                                               *)
(***************************************************************************)
EXTENDS Integers, FiniteSets, TLC

CONSTANTS Browsers, Requests, Threads, Workspaces, MaxCalls, MaxGrants, MaxVisits, MaxFlows

ASSUME BoundAssumption ==
  /\ MaxCalls \in Nat \ {0} /\ MaxGrants \in Nat \ {0}
  /\ MaxVisits \in Nat /\ MaxFlows \in Nat

VARIABLES
  part,
  recipe, calls, phase, at, raised, known, staged, ready, visible, unheard, temp, told,
  provider, account, issued, honoured, queued, job, mine, failed, thread, theirs, web,
  page, visits, clean,
  session, tickets, spent, open, allowed, linkActive, registered, used, written

Publishing == INSTANCE PlatformPublish
Accounts == INSTANCE SocialAccounts
Connecting == INSTANCE ConnectFlow

publishing == <<recipe, calls, phase, at, raised, known, staged, ready, visible, unheard,
                temp, told>>
accounts == <<provider, account, issued, honoured, queued, job, mine, failed, thread,
              theirs, web, page, visits, clean>>
connecting == <<session, tickets, spent, open, allowed, linkActive, registered, used, written>>
vars == <<part, publishing, accounts, connecting>>

Init ==
  /\ Publishing!Init /\ Accounts!Init /\ Connecting!Init
  /\ \/ part = "publishing" /\ provider = Accounts!Devto /\ registered
     \/ part = "accounts" /\ recipe = Publishing!LinkedInText /\ registered
     \/ part = "connecting" /\ recipe = Publishing!LinkedInText /\ provider = Accounts!Devto

Next ==
  /\ UNCHANGED part
  /\ \/ part = "publishing" /\ Publishing!Next /\ UNCHANGED <<accounts, connecting>>
     \/ part = "accounts" /\ Accounts!Next /\ UNCHANGED <<publishing, connecting>>
     \/ part = "connecting" /\ Connecting!Next /\ UNCHANGED <<publishing, accounts>>

Spec == Init /\ [][Next]_vars

Interchangeable == Permutations(Browsers) \cup Permutations(Requests) \cup Permutations(Threads)

\* The type invariants of the three parts.
TypeOK == Publishing!TypeOK /\ Accounts!TypeOK /\ Connecting!TypeOK

\* See PlatformPublish: a provider's exchanges look like one call.
IsOneCall == Publishing!IsOneCall

\* See PlatformPublish: every call cleans up after itself.
NothingLeftBehind == Publishing!NothingLeftBehind

\* See PlatformPublish: processed parts are published when ready.
CommitsWhatIsReady == Publishing!CommitsWhatIsReady

\* See SocialAccounts and ConnectFlow: the stored refresh token is one the
\* platform accepts, a disconnected account holds none, and an authorization
\* stays in the browser that began it.
TokensAreKept ==
  /\ Accounts!StoredRefreshIsHonoured /\ Accounts!DisconnectedHoldsNoToken
  /\ Connecting!StaysWithItsFlow

\* See SocialAccounts: a failed refresh leaves a warning.
FailedRefreshIsShown == Accounts!FailedRefreshIsShown

=============================================================================
