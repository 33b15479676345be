---------------------------- MODULE ConnectFlow ----------------------------
(***************************************************************************)
(* Connecting a social account: a member's browser or a client with a      *)
(* connection link is sent to the platform with a signed state, comes back *)
(* with it, and the account is written to a workspace.                     *)
(*                                                                         *)
(* The flow's other half lies in the browser's session, which Django loads *)
(* when a request begins and stores whole when it ends: two requests of a  *)
(* browser overwrite each other's session.                                 *)
(***************************************************************************)
EXTENDS Integers, FiniteSets

CONSTANTS
  Browsers, Workspaces,
  Requests,     \* requests that may be open at once
  MaxFlows      \* bound: authorizations begun

Platforms == {"plain", "paged", "mastodon"}   \* paged: the account is picked from a list
Doors == {"member", "link"}                   \* the two callbacks and their session keys

-----------------------------------------------------------------------------

NoFlow == [nonce |-> 0, workspace |-> "none", platform |-> "none"]
NoPages == [workspace |-> "none", platform |-> "none", nonce |-> 0]
NoRequest == [browser |-> "none"]

VARIABLES
  session,     \* per browser: the pending flow of each door, the page picker
  tickets,     \* signed states handed out, with (history) the browser each was made in
  spent,       \* external: authorization codes the platform has exchanged
  open,        \* per request: its browser, door, ticket and copy of the session
  allowed,     \* workspaces in which the member manages accounts
  linkActive,  \* workspaces whose connection link is active
  registered,  \* the app is registered with the Mastodon instance
  used,        \* ConnectionLinkUsage: workspaces with an account through their link
  written      \* history: the accounts written, with the flow each came from

vars == <<session, tickets, spent, open, allowed, linkActive, registered, used, written>>
external == <<allowed, linkActive>>

EmptySession == [flow |-> [d \in Doors |-> NoFlow], pages |-> NoPages]
Nonce == Cardinality(tickets) + 1

Init ==
  /\ session = [b \in Browsers |-> EmptySession]
  /\ tickets = {}
  /\ spent = {}
  /\ open = [r \in Requests |-> NoRequest]
  /\ allowed = Workspaces
  /\ linkActive = Workspaces
  /\ registered \in BOOLEAN
  /\ used = {}
  /\ written = {}

-----------------------------------------------------------------------------
(* Starting *)

\* The session's pending flow of the door is replaced, and the state signed.
\* A browser has one pending flow per door: a second start forgets the first.
StartFlow(b, d, w, p) ==
  /\ Cardinality(tickets) < MaxFlows
  /\ session' = [session EXCEPT ![b].flow[d] = [nonce |-> Nonce, workspace |-> w, platform |-> p]]
  /\ tickets' = tickets \cup {[nonce |-> Nonce, workspace |-> w, platform |-> p, door |-> d,
                               browser |-> b]}

\* connect_platform and reconnect: with the permission.
ConnectPlatform(b, w, p) ==
  /\ w \in allowed
  /\ p # "mastodon"
  /\ StartFlow(b, "member", w, p)
  /\ UNCHANGED <<spent, open, external, registered, used, written>>

\* connect_mastodon: the app is registered with the instance first.
ConnectMastodon(b, w) ==
  /\ w \in allowed
  /\ registered' = TRUE
  /\ StartFlow(b, "member", w, "mastodon")
  /\ UNCHANGED <<spent, open, external, used, written>>

\* connection_oauth_start: whoever holds an active link.  Its callback writes
\* one account and all pages of an account alike.
ConnectionOauthStart(b, w) ==
  /\ w \in linkActive
  /\ StartFlow(b, "link", w, "plain")
  /\ UNCHANGED <<spent, open, external, registered, used, written>>

ConnectionMastodonStart(b, w) ==
  /\ w \in linkActive
  /\ registered' = TRUE
  /\ StartFlow(b, "link", w, "mastodon")
  /\ UNCHANGED <<spent, open, external, used, written>>

-----------------------------------------------------------------------------
(* Coming back *)

\* A callback loads its browser's session.
Arrive(r, b, ticket) ==
  /\ open[r] = NoRequest
  /\ ticket \in tickets
  /\ open' = [open EXCEPT ![r] = [browser |-> b, ticket |-> ticket, session |-> session[b]]]
  /\ UNCHANGED <<session, tickets, spent, external, registered, used, written>>

\* What the callback stores when it ends: the session without the flow.
Popped(r) == [open[r].session EXCEPT !.flow[open[r].ticket.door] = NoFlow]

End(r, stored) ==
  /\ session' = [session EXCEPT ![open[r].browser] = stored]
  /\ open' = [open EXCEPT ![r] = NoRequest]

Matches(r) == open[r].session.flow[open[r].ticket.door].nonce = open[r].ticket.nonce

\* The right to connect is checked again: the membership, or the link.
MayConnect(r) ==
  open[r].ticket.workspace \in (IF open[r].ticket.door = "member" THEN allowed ELSE linkActive)

\* Denied by the user, a session that knows another flow, a right since
\* withdrawn, or an exchange that fails: the pending flow is gone all the same.
\* A state that is missing or badly signed leaves it.
TurnAway(r) ==
  /\ open[r] # NoRequest
  /\ \/ End(r, Popped(r))
     \/ open' = [open EXCEPT ![r] = NoRequest] /\ session' = session
  /\ UNCHANGED <<tickets, spent, external, registered, used, written>>

\* The code is exchanged, with the verifier of the session's flow.
Exchanged(r) ==
  /\ open[r] # NoRequest
  /\ Matches(r) /\ MayConnect(r)
  /\ open[r].ticket \notin spent
  /\ spent' = spent \cup {open[r].ticket}

Account(r) == [ticket |-> open[r].ticket, browser |-> open[r].browser,
               verifier |-> open[r].session.flow[open[r].ticket.door].nonce]

\* oauth_callback for a single account.
OauthCallback(r) ==
  /\ Exchanged(r)
  /\ open[r].ticket.door = "member" /\ open[r].ticket.platform # "paged"
  /\ written' = written \cup {Account(r)}
  /\ End(r, Popped(r))
  /\ UNCHANGED <<tickets, external, registered, used>>

\* oauth_callback for a list of pages: they wait in the session.
OfferPages(r) ==
  /\ Exchanged(r)
  /\ open[r].ticket.door = "member" /\ open[r].ticket.platform = "paged"
  /\ End(r, [Popped(r) EXCEPT !.pages =
       [workspace |-> open[r].ticket.workspace, platform |-> "paged", nonce |-> open[r].ticket.nonce]])
  /\ UNCHANGED <<tickets, external, registered, used, written>>

\* select_account: the page picker's session alone decides.
SelectAccount(b) ==
  /\ session[b].pages # NoPages
  /\ \E ticket \in tickets :
       /\ ticket.nonce = session[b].pages.nonce
       /\ written' = written \cup {[ticket |-> ticket, browser |-> b, verifier |-> ticket.nonce]}
  /\ session' = [session EXCEPT ![b].pages = NoPages]
  /\ UNCHANGED <<tickets, spent, open, external, registered, used>>

\* connection_oauth_callback: every account or page at once, noted as a usage.
ConnectionOauthCallback(r) ==
  /\ Exchanged(r)
  /\ open[r].ticket.door = "link"
  /\ written' = written \cup {Account(r)}
  /\ used' = used \cup {open[r].ticket.workspace}
  /\ End(r, Popped(r))
  /\ UNCHANGED <<tickets, external, registered>>

\* connection_bluesky_connect: no round trip.
ConnectionBlueskyConnect(w) ==
  /\ w \in linkActive
  /\ used' = used \cup {w}
  /\ UNCHANGED <<session, tickets, spent, open, external, registered, written>>

\* revoke_link, or its expiry; create_link makes a new one.
RevokeLink(w) ==
  /\ w \in linkActive
  /\ linkActive' = linkActive \ {w}
  /\ UNCHANGED <<session, tickets, spent, open, allowed, registered, used, written>>

CreateLink(w) ==
  /\ w \in allowed
  /\ w \notin linkActive
  /\ linkActive' = linkActive \cup {w}
  /\ UNCHANGED <<session, tickets, spent, open, allowed, registered, used, written>>

\* External: the member loses the permission.
Withdraw(w) ==
  /\ w \in allowed
  /\ allowed' = allowed \ {w}
  /\ UNCHANGED <<session, tickets, spent, open, linkActive, registered, used, written>>

Next ==
  \/ \E b \in Browsers, w \in Workspaces :
       \/ \E p \in Platforms : ConnectPlatform(b, w, p)
       \/ ConnectMastodon(b, w)
       \/ ConnectionOauthStart(b, w) \/ ConnectionMastodonStart(b, w)
  \/ \E b \in Browsers : SelectAccount(b)
  \/ \E r \in Requests :
       \/ \E b \in Browsers, ticket \in tickets : Arrive(r, b, ticket)
       \/ TurnAway(r) \/ OauthCallback(r) \/ OfferPages(r) \/ ConnectionOauthCallback(r)
  \/ \E w \in Workspaces :
       ConnectionBlueskyConnect(w) \/ RevokeLink(w) \/ CreateLink(w) \/ Withdraw(w)

Spec == Init /\ [][Next]_vars

-----------------------------------------------------------------------------
(* Properties *)

TypeOK ==
  /\ \A b \in Browsers : session[b].flow \in [Doors -> [nonce: 0..MaxFlows,
                           workspace: Workspaces \cup {"none"}, platform: Platforms \cup {"none"}]]
  /\ tickets \subseteq [nonce: 1..MaxFlows, workspace: Workspaces, platform: Platforms,
                        door: Doors, browser: Browsers]
  /\ spent \subseteq tickets
  /\ used \cup allowed \cup linkActive \subseteq Workspaces

\* An account is written only by the browser that began its authorization,
\* and its code is exchanged with the verifier of that same authorization,
\* whatever other flows the browser began meanwhile and however its requests
\* overwrite each other's session.
StaysWithItsFlow ==
  \A a \in written : a.browser = a.ticket.browser /\ a.verifier = a.ticket.nonce

=============================================================================
