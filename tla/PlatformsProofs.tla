--------------------------- MODULE PlatformsProofs ---------------------------
(***************************************************************************)
(* What holds between the application and the social networks for any      *)
(* number of browsers, workspaces, requests and publishing threads: an     *)
(* authorization stays with the browser that began it, a stored refresh    *)
(* token is one the platform accepts, and publish_post is one call however *)
(* many exchanges it takes.                                                *)
(***************************************************************************)
EXTENDS MCPlatforms, Sequences, FiniteSetTheorems, TLAPS

-----------------------------------------------------------------------------
(* Connecting.  A nonce is never handed out twice, and whatever a session, *)
(* or a request's copy of one, holds was begun in that session's browser.  *)

Tickets == [nonce: 1..MaxFlows, workspace: Workspaces, platform: Connecting!Platforms,
            door: Connecting!Doors, browser: Browsers]
Flows == [nonce: 0..MaxFlows, workspace: Workspaces \cup {"none"},
          platform: Connecting!Platforms \cup {"none"}]
Sessions == [flow: [Connecting!Doors -> Flows], pages: Flows]
Opened == {Connecting!NoRequest} \cup [browser: Browsers, ticket: Tickets, session: Sessions]

Begun(T, n, b) == n # 0 => \E x \in T : x.nonce = n /\ x.browser = b
Begins(T, b, s) ==
  /\ Begun(T, s.pages.nonce, b)
  /\ \A d \in Connecting!Doors : Begun(T, s.flow[d].nonce, b)

Numbered ==
  /\ IsFiniteSet(tickets)
  /\ Cardinality(tickets) <= MaxFlows
  /\ \A x \in tickets : x.nonce <= Cardinality(tickets)
  /\ \A x, y \in tickets : x.nonce = y.nonce => x = y

ConnectTypes ==
  /\ session \in [Browsers -> Sessions]
  /\ tickets \subseteq Tickets
  /\ spent \subseteq tickets
  /\ open \in [Requests -> Opened]
  /\ used \cup allowed \cup linkActive \subseteq Workspaces

ConnectInv ==
  /\ ConnectTypes
  /\ Numbered
  /\ \A b \in Browsers : Begins(tickets, b, session[b])
  /\ \A r \in Requests : open[r] # Connecting!NoRequest =>
       open[r].ticket \in tickets /\ Begins(tickets, open[r].browser, open[r].session)
  /\ Connecting!StaysWithItsFlow

LEMMA SameCardinality == ASSUME NEW S PROVE Connecting!Cardinality(S) = Cardinality(S)
BY SMT DEF Connecting!Cardinality, Cardinality

LEMMA ConnectInit == Connecting!Init => ConnectInv
<1> SUFFICES ASSUME Connecting!Init PROVE ConnectInv
  OBVIOUS
<1>1. Connecting!EmptySession \in Sessions
  BY BoundAssumption DEF Connecting!EmptySession, Sessions, Flows, Connecting!NoFlow, Connecting!NoPages
<1>2. ConnectTypes
  BY <1>1 DEF Connecting!Init, ConnectTypes, Opened
<1>3. Numbered
  BY FS_EmptySet, BoundAssumption DEF Connecting!Init, Numbered
<1>4. \A b \in Browsers : Begins(tickets, b, session[b])
  BY DEF Connecting!Init, Begins, Begun, Connecting!EmptySession, Connecting!NoFlow, Connecting!NoPages
<1>5. \A r \in Requests : open[r] = Connecting!NoRequest
  BY DEF Connecting!Init
<1>6. Connecting!StaysWithItsFlow
  BY DEF Connecting!Init, Connecting!StaysWithItsFlow
<1> QED BY <1>2, <1>3, <1>4, <1>5, <1>6 DEF ConnectInv

\* A session stays true to its browser as authorizations are added.
LEMMA BeginsGrows ==
  ASSUME NEW T, NEW U, T \subseteq U, NEW b, NEW s, Begins(T, b, s)
  PROVE  Begins(U, b, s)
BY DEF Begins, Begun

\* A flow that begins gets a nonce of its own.
LEMMA ConnectStart ==
  ASSUME ConnectInv, NEW b \in Browsers, NEW d \in Connecting!Doors, NEW w \in Workspaces,
         NEW p \in Connecting!Platforms, Connecting!StartFlow(b, d, w, p),
         UNCHANGED <<spent, open, allowed, linkActive, used, written>>
  PROVE  ConnectInv'
<1> DEFINE n == Cardinality(tickets) + 1
           flow == [nonce |-> n, workspace |-> w, platform |-> p]
           x == [nonce |-> n, workspace |-> w, platform |-> p, door |-> d, browser |-> b]
<1>0. ConnectTypes /\ Numbered /\ \A c \in Browsers : Begins(tickets, c, session[c])
  BY DEF ConnectInv
<1>1. /\ Cardinality(tickets) < MaxFlows
      /\ session' = [session EXCEPT ![b] = [session[b] EXCEPT
                       !.flow = [session[b].flow EXCEPT ![d] = flow]]]
      /\ tickets' = tickets \cup {x}
  BY <1>0, SameCardinality DEF Connecting!StartFlow, Connecting!Nonce, ConnectTypes, Sessions
<1>2. Cardinality(tickets) \in Nat /\ n \in 1..MaxFlows
  BY <1>0, <1>1, FS_CardinalityType, BoundAssumption DEF Numbered
<1>3. x \in Tickets /\ flow \in Flows
  BY <1>2 DEF Tickets, Flows
<1>4. x.nonce = n /\ x.browser = b /\ flow.nonce = n
  OBVIOUS
<1>5. \A y \in tickets : y.nonce # n /\ y.nonce <= n
  BY <1>0, <1>2 DEF Numbered, ConnectTypes, Tickets
<1>6. IsFiniteSet(tickets') /\ Cardinality(tickets') = n
  BY <1>0, <1>1, <1>4, <1>5, FS_AddElement DEF Numbered
<1>7. x \in tickets' /\ tickets \subseteq tickets'
  BY <1>1
<1> HIDE DEF n, flow, x
<1>8. Numbered'
  <2>1. \A y \in tickets' : y.nonce <= n
    BY <1>1, <1>2, <1>4, <1>5
  <2>2. \A y, z \in tickets' : y.nonce = z.nonce => y = z
    BY <1>0, <1>1, <1>4, <1>5 DEF Numbered
  <2>3. n <= MaxFlows
    BY <1>2
  <2> QED BY <1>6, <2>1, <2>2, <2>3 DEF Numbered
<1>9. /\ session' \in [Browsers -> Sessions]
      /\ session'[b].pages = session[b].pages
      /\ session'[b].flow = [session[b].flow EXCEPT ![d] = flow]
      /\ \A c \in Browsers : c # b => session'[c] = session[c]
  BY <1>0, <1>1, <1>3 DEF ConnectTypes, Sessions
<1>10. ConnectTypes'
  BY <1>0, <1>1, <1>3, <1>9 DEF ConnectTypes
<1>11. Begun(tickets', n, b)
  BY <1>4, <1>7 DEF Begun
<1>12. ASSUME NEW c \in Browsers PROVE Begins(tickets', c, session'[c])
  <2>1. CASE c # b
    BY <1>0, <1>7, <1>9, <2>1, BeginsGrows
  <2>2. CASE c = b
    <3>1. Begins(tickets', b, session[b])
      BY <1>0, <1>7, BeginsGrows
    <3>2. ASSUME NEW e \in Connecting!Doors PROVE Begun(tickets', session'[b].flow[e].nonce, b)
      <4>1. session[b].flow \in [Connecting!Doors -> Flows]
        BY <1>0 DEF ConnectTypes, Sessions
      <4>2. CASE e = d
        <5>1. session'[b].flow[e].nonce = n
          BY <1>4, <1>9, <4>1, <4>2
        <5> QED BY <1>11, <5>1
      <4>3. CASE e # d
        <5>1. session'[b].flow[e] = session[b].flow[e]
          BY <1>9, <4>1, <4>3
        <5> QED BY <3>1, <5>1 DEF Begins
      <4> QED BY <4>2, <4>3
    <3>3. Begun(tickets', session'[b].pages.nonce, b)
      BY <1>9, <3>1 DEF Begins
    <3> QED BY <2>2, <3>2, <3>3 DEF Begins
  <2> QED BY <2>1, <2>2
<1>13. ASSUME NEW r \in Requests, open'[r] # Connecting!NoRequest
       PROVE  open'[r].ticket \in tickets' /\ Begins(tickets', open'[r].browser, open'[r].session)
  BY <1>7, <1>13, BeginsGrows DEF ConnectInv
<1>14. Connecting!StaysWithItsFlow'
  BY DEF ConnectInv, Connecting!StaysWithItsFlow
<1> QED BY <1>8, <1>10, <1>12, <1>13, <1>14 DEF ConnectInv

\* A request ends: it stores a session of its browser, or leaves it.
LEMMA ConnectEnd ==
  ASSUME ConnectInv, NEW r \in Requests, open[r] # Connecting!NoRequest,
         NEW s \in Sessions, Begins(tickets, open[r].browser, s),
         \/ Connecting!End(r, s)
         \/ open' = [open EXCEPT ![r] = Connecting!NoRequest] /\ session' = session,
         tickets' = tickets, spent' \subseteq tickets,
         used' \subseteq Workspaces, UNCHANGED <<allowed, linkActive>>,
         Connecting!StaysWithItsFlow'
  PROVE  ConnectInv'
<1>0. ConnectTypes /\ Numbered /\ \A b \in Browsers : Begins(tickets, b, session[b])
  BY DEF ConnectInv
<1>1. open' = [open EXCEPT ![r] = Connecting!NoRequest]
  BY DEF Connecting!End
<1>2. open[r].browser \in Browsers
  BY <1>0 DEF ConnectTypes, Opened
<1>3. session' \in [Browsers -> Sessions] /\ \A b \in Browsers : Begins(tickets, b, session'[b])
  <2>1. session' = session \/ session' = [session EXCEPT ![open[r].browser] = s]
    BY DEF Connecting!End
  <2> QED BY <1>0, <1>2, <2>1 DEF ConnectTypes
<1>4. /\ open' \in [Requests -> Opened]
      /\ \A q \in Requests : q # r => open'[q] = open[q]
      /\ open'[r] = Connecting!NoRequest
  BY <1>0, <1>1 DEF ConnectTypes, Opened
<1>5. ConnectTypes'
  BY <1>0, <1>3, <1>4 DEF ConnectTypes
<1>6. Numbered'
  BY <1>0 DEF Numbered
<1>7. ASSUME NEW q \in Requests, open'[q] # Connecting!NoRequest
      PROVE  open'[q].ticket \in tickets' /\ Begins(tickets', open'[q].browser, open'[q].session)
  BY <1>4, <1>7 DEF ConnectInv
<1> QED BY <1>3, <1>5, <1>6, <1>7 DEF ConnectInv

\* The session a callback read, without the flow it came back for.
LEMMA ConnectPopped ==
  ASSUME ConnectInv, NEW r \in Requests, open[r] # Connecting!NoRequest
  PROVE  /\ Connecting!Popped(r) \in Sessions
         /\ Begins(tickets, open[r].browser, Connecting!Popped(r))
         /\ open[r].ticket \in tickets
         /\ open[r].browser \in Browsers /\ open[r].ticket \in Tickets
         /\ open[r].session \in Sessions
         /\ Begins(tickets, open[r].browser, open[r].session)
<1>1. /\ open[r].browser \in Browsers /\ open[r].ticket \in Tickets
      /\ open[r].session \in Sessions
      /\ open[r].ticket \in tickets /\ Begins(tickets, open[r].browser, open[r].session)
  BY DEF ConnectInv, ConnectTypes, Opened
<1> DEFINE s == open[r].session
           d == open[r].ticket.door
<1>2. d \in Connecting!Doors /\ Connecting!NoFlow \in Flows /\ Connecting!NoFlow.nonce = 0
  BY <1>1, BoundAssumption DEF Tickets, Flows, Connecting!NoFlow
<1>3. Connecting!Popped(r) = [s EXCEPT !.flow = [s.flow EXCEPT ![d] = Connecting!NoFlow]]
  BY <1>1 DEF Connecting!Popped, Sessions
<1>4. s \in Sessions /\ s.flow \in [Connecting!Doors -> Flows] /\ Begins(tickets, open[r].browser, s)
  BY <1>1 DEF Sessions
<1> HIDE DEF s, d
<1>5. /\ Connecting!Popped(r).pages = s.pages
      /\ Connecting!Popped(r).flow = [s.flow EXCEPT ![d] = Connecting!NoFlow]
      /\ Connecting!Popped(r) \in Sessions
  BY <1>2, <1>3, <1>4 DEF Sessions
<1>6. ASSUME NEW e \in Connecting!Doors
      PROVE  Begun(tickets, Connecting!Popped(r).flow[e].nonce, open[r].browser)
  <2>1. CASE e = d
    BY <1>2, <1>4, <1>5, <2>1 DEF Begun
  <2>2. CASE e # d
    BY <1>4, <1>5, <2>2 DEF Begins
  <2> QED BY <2>1, <2>2
<1> QED BY <1>1, <1>4, <1>5, <1>6 DEF Begins

\* A session that knows the ticket's flow belongs to the browser that began it.
LEMMA ConnectMatches ==
  ASSUME ConnectInv, NEW r \in Requests, open[r] # Connecting!NoRequest, Connecting!Matches(r)
  PROVE  open[r].ticket.browser = open[r].browser
<1>1. /\ open[r].ticket \in tickets /\ open[r].ticket \in Tickets
      /\ Begins(tickets, open[r].browser, open[r].session)
  BY ConnectPopped
<1>2. open[r].ticket.door \in Connecting!Doors /\ open[r].ticket.nonce # 0
  BY <1>1 DEF Tickets
<1>3. Begun(tickets, open[r].ticket.nonce, open[r].browser)
  BY <1>1, <1>2 DEF Begins, Connecting!Matches
<1>4. PICK x \in tickets : x.nonce = open[r].ticket.nonce /\ x.browser = open[r].browser
  BY <1>2, <1>3 DEF Begun
<1> QED BY <1>1, <1>4 DEF ConnectInv, Numbered

\* An account that a callback writes stays with its flow.
LEMMA ConnectWrites ==
  ASSUME ConnectInv, NEW r \in Requests, Connecting!Exchanged(r),
         written' = written \cup {Connecting!Account(r)}
  PROVE  Connecting!StaysWithItsFlow'
<1>1. open[r] # Connecting!NoRequest /\ Connecting!Matches(r)
  BY DEF Connecting!Exchanged
<1>2. open[r].ticket.browser = open[r].browser
  BY <1>1, ConnectMatches
<1>3. \A a \in written : a.browser = a.ticket.browser /\ a.verifier = a.ticket.nonce
  BY DEF ConnectInv, Connecting!StaysWithItsFlow
<1>4. /\ Connecting!Account(r).browser = Connecting!Account(r).ticket.browser
      /\ Connecting!Account(r).verifier = Connecting!Account(r).ticket.nonce
  BY <1>1, <1>2 DEF Connecting!Account, Connecting!Matches
<1> QED BY <1>3, <1>4 DEF Connecting!StaysWithItsFlow

\* A step between requests leaves the sessions and the flows alone.
LEMMA ConnectNext ==
  ConnectInv /\ [Connecting!Next]_Connecting!vars => ConnectInv'
<1> SUFFICES ASSUME ConnectInv, [Connecting!Next]_Connecting!vars PROVE ConnectInv'
  OBVIOUS
<1>0. ConnectTypes /\ Numbered
  BY DEF ConnectInv
<1>q. ASSUME UNCHANGED <<session, tickets, spent, open, written>>,
             used' \cup allowed' \cup linkActive' \subseteq Workspaces
      PROVE  ConnectInv'
  BY <1>q DEF ConnectInv, ConnectTypes, Numbered, Begins, Begun, Connecting!StaysWithItsFlow
<1>1. ASSUME NEW b \in Browsers, NEW w \in Workspaces, NEW p \in Connecting!Platforms,
             Connecting!ConnectPlatform(b, w, p)
      PROVE  ConnectInv'
  <2>1. Connecting!StartFlow(b, "member", w, p) /\ UNCHANGED <<spent, open, allowed, linkActive, used, written>>
    BY <1>1 DEF Connecting!ConnectPlatform, Connecting!external
  <2> QED BY <2>1, ConnectStart DEF Connecting!Doors
<1>2. ASSUME NEW b \in Browsers, NEW w \in Workspaces, Connecting!ConnectMastodon(b, w)
      PROVE  ConnectInv'
  <2>1. Connecting!StartFlow(b, "member", w, "mastodon") /\ UNCHANGED <<spent, open, allowed, linkActive, used, written>>
    BY <1>2 DEF Connecting!ConnectMastodon, Connecting!external
  <2> QED BY <2>1, ConnectStart DEF Connecting!Doors, Connecting!Platforms
<1>3. ASSUME NEW b \in Browsers, NEW w \in Workspaces, Connecting!ConnectionOauthStart(b, w)
      PROVE  ConnectInv'
  <2>1. Connecting!StartFlow(b, "link", w, "plain") /\ UNCHANGED <<spent, open, allowed, linkActive, used, written>>
    BY <1>3 DEF Connecting!ConnectionOauthStart, Connecting!external
  <2> QED BY <2>1, ConnectStart DEF Connecting!Doors, Connecting!Platforms
<1>4. ASSUME NEW b \in Browsers, NEW w \in Workspaces, Connecting!ConnectionMastodonStart(b, w)
      PROVE  ConnectInv'
  <2>1. Connecting!StartFlow(b, "link", w, "mastodon") /\ UNCHANGED <<spent, open, allowed, linkActive, used, written>>
    BY <1>4 DEF Connecting!ConnectionMastodonStart, Connecting!external
  <2> QED BY <2>1, ConnectStart DEF Connecting!Doors, Connecting!Platforms
<1>5. ASSUME NEW b \in Browsers, Connecting!SelectAccount(b) PROVE ConnectInv'
  <2>0. session[b] \in Sessions /\ Begins(tickets, b, session[b])
    BY <1>0 DEF ConnectInv, ConnectTypes
  <2>1. PICK x \in tickets : /\ x.nonce = session[b].pages.nonce
                             /\ written' = written \cup {[ticket |-> x, browser |-> b, verifier |-> x.nonce]}
    BY <1>5 DEF Connecting!SelectAccount
  <2>2. session' = [session EXCEPT ![b] = [session[b] EXCEPT !.pages = Connecting!NoPages]]
    BY <1>0, <1>5 DEF Connecting!SelectAccount, ConnectTypes
  <2>3. UNCHANGED <<tickets, spent, open, allowed, linkActive, used>>
    BY <1>5 DEF Connecting!SelectAccount, Connecting!external
  <2>4. Connecting!NoPages \in Flows /\ Connecting!NoPages.nonce = 0
    BY BoundAssumption DEF Connecting!NoPages, Flows
  <2>5. /\ session' \in [Browsers -> Sessions]
        /\ session'[b].flow = session[b].flow /\ session'[b].pages = Connecting!NoPages
        /\ \A c \in Browsers : c # b => session'[c] = session[c]
    BY <1>0, <2>0, <2>2, <2>4 DEF ConnectTypes, Sessions
  <2>6. \A c \in Browsers : Begins(tickets, c, session'[c])
    BY <2>0, <2>4, <2>5 DEF ConnectInv, Begins, Begun
  <2>7. x.browser = b
    <3>1. x.nonce # 0
      BY <1>0 DEF ConnectTypes, Tickets
    <3>2. PICK y \in tickets : y.nonce = x.nonce /\ y.browser = b
      BY <2>0, <2>1, <3>1 DEF Begins, Begun
    <3> QED BY <1>0, <3>2 DEF Numbered
  <2>8. Connecting!StaysWithItsFlow'
    BY <2>1, <2>7 DEF ConnectInv, Connecting!StaysWithItsFlow
  <2>9. ConnectTypes' /\ Numbered'
    BY <1>0, <2>3, <2>5 DEF ConnectTypes, Numbered
  <2> QED BY <2>3, <2>6, <2>8, <2>9 DEF ConnectInv
<1>6. ASSUME NEW r \in Requests, NEW b \in Browsers, NEW x \in tickets, Connecting!Arrive(r, b, x)
      PROVE  ConnectInv'
  <2>1. UNCHANGED <<session, tickets, spent, allowed, linkActive, used, written>>
    BY <1>6 DEF Connecting!Arrive, Connecting!external
  <2> DEFINE o == [browser |-> b, ticket |-> x, session |-> session[b]]
  <2>2. o \in Opened /\ o.ticket = x /\ o.browser = b /\ o.session = session[b]
    BY <1>0 DEF ConnectTypes, Opened
  <2>3. open' = [open EXCEPT ![r] = o]
    BY <1>6 DEF Connecting!Arrive
  <2> HIDE DEF o
  <2>4. open' \in [Requests -> Opened] /\ open'[r] = o
        /\ \A q \in Requests : q # r => open'[q] = open[q]
    BY <1>0, <2>2, <2>3 DEF ConnectTypes
  <2>5. ConnectTypes' /\ Numbered' /\ Connecting!StaysWithItsFlow'
    BY <1>0, <2>1, <2>4 DEF ConnectTypes, Numbered, ConnectInv, Connecting!StaysWithItsFlow
  <2>6. Begins(tickets, o.browser, o.session)
    BY <2>2 DEF ConnectInv
  <2> QED BY <2>1, <2>2, <2>4, <2>5, <2>6 DEF ConnectInv
<1>7. ASSUME NEW r \in Requests, Connecting!TurnAway(r) PROVE ConnectInv'
  <2>1. /\ open[r] # Connecting!NoRequest
        /\ \/ Connecting!End(r, Connecting!Popped(r))
           \/ open' = [open EXCEPT ![r] = Connecting!NoRequest] /\ session' = session
        /\ UNCHANGED <<tickets, spent, allowed, linkActive, used, written>>
    BY <1>7 DEF Connecting!TurnAway, Connecting!external
  <2>2. Connecting!StaysWithItsFlow'
    BY <2>1 DEF ConnectInv, Connecting!StaysWithItsFlow
  <2>3. spent' \subseteq tickets /\ used' \subseteq Workspaces
    BY <1>0, <2>1 DEF ConnectTypes
  <2>4. Connecting!Popped(r) \in Sessions /\ Begins(tickets, open[r].browser, Connecting!Popped(r))
    BY <2>1, ConnectPopped
  <2> QED BY <2>1, <2>2, <2>3, <2>4, ConnectEnd
<1>8. ASSUME NEW r \in Requests, Connecting!OauthCallback(r) PROVE ConnectInv'
  <2>1. /\ Connecting!Exchanged(r)
        /\ written' = written \cup {Connecting!Account(r)}
        /\ Connecting!End(r, Connecting!Popped(r))
        /\ UNCHANGED <<tickets, allowed, linkActive, used>>
    BY <1>8 DEF Connecting!OauthCallback, Connecting!external
  <2>2. open[r] # Connecting!NoRequest /\ spent' = spent \cup {open[r].ticket}
    BY <2>1 DEF Connecting!Exchanged
  <2>3. Connecting!StaysWithItsFlow'
    BY <2>1, ConnectWrites
  <2>4. /\ Connecting!Popped(r) \in Sessions
        /\ Begins(tickets, open[r].browser, Connecting!Popped(r))
        /\ open[r].ticket \in tickets
    BY <2>2, ConnectPopped
  <2>5. spent' \subseteq tickets /\ used' \subseteq Workspaces
    BY <1>0, <2>1, <2>2, <2>4 DEF ConnectTypes
  <2> QED BY <2>1, <2>2, <2>3, <2>4, <2>5, ConnectEnd
<1>9. ASSUME NEW r \in Requests, Connecting!ConnectionOauthCallback(r) PROVE ConnectInv'
  <2>1. /\ Connecting!Exchanged(r)
        /\ written' = written \cup {Connecting!Account(r)}
        /\ used' = used \cup {open[r].ticket.workspace}
        /\ Connecting!End(r, Connecting!Popped(r))
        /\ UNCHANGED <<tickets, allowed, linkActive>>
    BY <1>9 DEF Connecting!ConnectionOauthCallback, Connecting!external
  <2>2. open[r] # Connecting!NoRequest /\ spent' = spent \cup {open[r].ticket}
    BY <2>1 DEF Connecting!Exchanged
  <2>3. Connecting!StaysWithItsFlow'
    BY <2>1, ConnectWrites
  <2>4. /\ Connecting!Popped(r) \in Sessions
        /\ Begins(tickets, open[r].browser, Connecting!Popped(r))
        /\ open[r].ticket \in tickets /\ open[r].ticket \in Tickets
    BY <2>2, ConnectPopped
  <2>5. spent' \subseteq tickets /\ used' \subseteq Workspaces
    BY <1>0, <2>1, <2>2, <2>4 DEF ConnectTypes, Tickets
  <2> QED BY <2>1, <2>2, <2>3, <2>4, <2>5, ConnectEnd
<1>10. ASSUME NEW r \in Requests, Connecting!OfferPages(r) PROVE ConnectInv'
  <2> DEFINE pages == [workspace |-> open[r].ticket.workspace, platform |-> "paged",
                       nonce |-> open[r].ticket.nonce]
             popped == Connecting!Popped(r)
             s == [popped EXCEPT !.pages = pages]
  <2>1. /\ Connecting!Exchanged(r)
        /\ Connecting!End(r, s)
        /\ UNCHANGED <<tickets, allowed, linkActive, used, written>>
    BY <1>10 DEF Connecting!OfferPages, Connecting!external
  <2>2. open[r] # Connecting!NoRequest /\ spent' = spent \cup {open[r].ticket} /\ Connecting!Matches(r)
    BY <2>1 DEF Connecting!Exchanged
  <2>3. Connecting!StaysWithItsFlow'
    BY <2>1 DEF ConnectInv, Connecting!StaysWithItsFlow
  <2>4. /\ popped \in Sessions
        /\ Begins(tickets, open[r].browser, popped)
        /\ open[r].ticket \in tickets /\ open[r].ticket \in Tickets
    BY <2>2, ConnectPopped
  <2>5. spent' \subseteq tickets /\ used' \subseteq Workspaces
    BY <1>0, <2>1, <2>2, <2>4 DEF ConnectTypes
  <2>6. pages \in Flows /\ pages.nonce = open[r].ticket.nonce
    BY <2>4 DEF Tickets, Flows, Connecting!Platforms
  <2>7. Begun(tickets, pages.nonce, open[r].browser)
    BY <2>2, <2>4, <2>6, ConnectMatches DEF Begun
  <2> HIDE DEF pages, popped
  <2>8. s \in Sessions /\ s.pages = pages /\ s.flow = popped.flow
    BY <2>4, <2>6 DEF Sessions
  <2> HIDE DEF s
  <2>9. Begins(tickets, open[r].browser, s)
    BY <2>4, <2>7, <2>8 DEF Begins
  <2> QED BY <2>1, <2>2, <2>3, <2>5, <2>8, <2>9, ConnectEnd
<1>11. ASSUME NEW w \in Workspaces,
              \/ Connecting!ConnectionBlueskyConnect(w) \/ Connecting!RevokeLink(w)
              \/ Connecting!CreateLink(w) \/ Connecting!Withdraw(w)
       PROVE  ConnectInv'
  BY <1>0, <1>11, <1>q DEF ConnectTypes, Connecting!ConnectionBlueskyConnect,
    Connecting!RevokeLink, Connecting!CreateLink, Connecting!Withdraw, Connecting!external
<1>12. CASE UNCHANGED Connecting!vars
  BY <1>0, <1>12, <1>q DEF Connecting!vars, ConnectTypes
<1> QED BY <1>1, <1>2, <1>3, <1>4, <1>5, <1>6, <1>7, <1>8, <1>9, <1>10, <1>11, <1>12
        DEF Connecting!Next

-----------------------------------------------------------------------------
(* Tokens.  Where a refresh consumes the token (provider.rotates), one     *)
(* place holds the one the platform accepts; elsewhere every copy is good. *)

Working(t) == thread[t] \in {"refreshing", "saving"}
CheckHolds == job \in {"profile", "saving"}

Spent(c) == c.refresh \notin honoured
\* A copy that was read before a refresh: the row's token, or a spent one.
Old(c) == c.refresh = account.refresh \/ Spent(c)
Good(c) == c.refresh = 0 \/ c.refresh \in honoured

\* The copies that may still be refreshed.
WaitingAreOld ==
  /\ \A t \in Threads : thread[t] = "refreshing" => Old(theirs[t])
  /\ web = "refreshing" => Old(page)
  /\ job = "refreshing" => Old(mine)
WaitingAreSpent ==
  /\ \A t \in Threads : thread[t] = "refreshing" => Spent(theirs[t])
  /\ web = "refreshing" => Spent(page)
  /\ job = "refreshing" => Spent(mine)

NoThreadSaves == \A t \in Threads : thread[t] # "saving"
CheckKeeps == job = "refreshing" \/ CheckHolds => mine.refresh = account.refresh

RowOwns == Good(account) /\ WaitingAreOld /\ NoThreadSaves /\ CheckKeeps /\ web # "saving"
ThreadOwns == \E t \in Threads :
  /\ thread[t] = "saving" /\ theirs[t].refresh \in honoured
  /\ \A u \in Threads : thread[u] = "saving" => u = t
  /\ WaitingAreSpent /\ Spent(account) /\ CheckKeeps /\ web # "saving"
CheckOwns ==
  /\ CheckHolds /\ mine.refresh \in honoured
  /\ WaitingAreSpent /\ Spent(account) /\ NoThreadSaves /\ web # "saving"
WebOwns ==
  /\ web = "saving" /\ page.refresh \in honoured
  /\ WaitingAreSpent /\ Spent(account) /\ NoThreadSaves /\ CheckKeeps

AllGood ==
  /\ Good(account)
  /\ job \in {"refreshing", "profile", "saving"} => Good(mine)
  /\ web \in {"refreshing", "saving"} => Good(page)
  /\ \A t \in Threads : Working(t) => Good(theirs[t])

OneOwner == RowOwns \/ ThreadOwns \/ CheckOwns \/ WebOwns
Owned ==
  clean /\ web # "disconnecting" =>
    (provider.rotates => OneOwner) /\ (~provider.rotates => AllGood)

Clears(c) == c.status = "disconnected" => c.access = 0 /\ c.refresh = 0
AllClear == Clears(account) /\ Clears(mine) /\ Clears(page) /\ \A t \in Threads : Clears(theirs[t])

Warned ==
  failed => \/ job = "profile" /\ mine.status = "token_expiring"
            \/ job = "saving" /\ mine.status \in {"token_expiring", "error"}

\* A row whose refresh token has been issued.
Row(c) == c \in Accounts!Account /\ c.refresh <= issued

AccountTypes ==
  /\ provider \in Accounts!Providers
  /\ issued \in 1..MaxGrants /\ honoured \subseteq 1..issued
  /\ Row(account) /\ Row(mine) /\ Row(page)
  /\ theirs \in [Threads -> Accounts!Account] /\ \A t \in Threads : Row(theirs[t])
  /\ queued \in BOOLEAN /\ failed \in BOOLEAN /\ clean \in BOOLEAN
  /\ job \in {"none", "publish", "preserving", "refreshing", "profile", "saving"}
  /\ thread \in [Threads -> {"none", "start", "refreshing", "saving", "done"}]
  /\ web \in {"none", "refreshing", "saving", "disconnecting"}
  /\ job # "publish" => \A t \in Threads : thread[t] = "none"

AccountInv == AccountTypes /\ AllClear /\ Warned /\ Owned

LEMMA EmptyRow ==
  ASSUME issued \in 1..MaxGrants
  PROVE  Row(Accounts!NoAccount) /\ Accounts!NoAccount.refresh = 0 /\ Clears(Accounts!NoAccount)
BY BoundAssumption DEF Accounts!NoAccount, Row, Accounts!Account, Accounts!Grants,
  Accounts!ConnectionStatus, Accounts!Expiry, Clears

\* What a refresh that succeeds leaves in the caller's copy.
LEMMA RenewedCopy ==
  ASSUME issued \in 1..MaxGrants, honoured \subseteq 1..issued,
         NEW c, Row(c), NEW new, Accounts!Renewed(c, new)
  PROVE  /\ issued' = issued + 1 /\ issued' \in 1..MaxGrants
         /\ honoured' \subseteq 1..issued'
         /\ c.refresh \in honoured /\ c.refresh # 0
         /\ new \in Accounts!Account /\ new.refresh <= issued' /\ new.status = "connected" /\ new.refresh \in honoured'
         /\ provider.rotates =>
              honoured' = (honoured \ {c.refresh}) \cup {issued + 1} /\ new.refresh = issued + 1
         /\ ~provider.rotates => honoured' = honoured /\ new.refresh = c.refresh
<1>1. /\ issued < MaxGrants /\ issued' = issued + 1
      /\ c.refresh \in honoured
      /\ honoured' = IF provider.rotates THEN (honoured \ {c.refresh}) \cup {issued + 1} ELSE honoured
      /\ new = [c EXCEPT !.access = issued + 1,
                         !.refresh = IF provider.rotates THEN issued + 1 ELSE c.refresh,
                         !.expires = "far", !.status = "connected"]
  BY DEF Accounts!Renewed, Row, Accounts!Account
<1>2. issued' \in 1..MaxGrants /\ issued + 1 \in Accounts!Grants
  BY <1>1, BoundAssumption DEF Accounts!Grants
<1>3. c \in Accounts!Account /\ c.refresh \in 1..issued
  BY <1>1 DEF Row
<1>4. CASE provider.rotates
  <2>1. new = [c EXCEPT !.access = issued + 1, !.refresh = issued + 1,
                        !.expires = "far", !.status = "connected"]
    BY <1>1, <1>4
  <2>2. new \in Accounts!Account /\ new.status = "connected" /\ new.refresh = issued + 1
    BY <1>2, <1>3, <2>1 DEF Accounts!Account, Accounts!ConnectionStatus, Accounts!Expiry
  <2>3. new \in Accounts!Account /\ new.refresh <= issued'
    BY <1>1, <1>2, <2>2 
  <2>4. new.refresh \in honoured' /\ honoured' \subseteq 1..issued'
    BY <1>1, <1>2, <1>4, <2>2
  <2>5. c.refresh # 0
    BY <1>3
  <2> QED BY <1>1, <1>2, <1>4, <2>2, <2>3, <2>4, <2>5
<1>5. CASE ~provider.rotates
  <2>1. new = [c EXCEPT !.access = issued + 1, !.refresh = c.refresh,
                        !.expires = "far", !.status = "connected"]
    BY <1>1, <1>5
  <2>2. new \in Accounts!Account /\ new.status = "connected" /\ new.refresh = c.refresh
    BY <1>2, <1>3, <2>1 DEF Accounts!Account, Accounts!ConnectionStatus, Accounts!Expiry
  <2>3. new \in Accounts!Account /\ new.refresh <= issued'
    BY <1>1, <1>2, <1>3, <2>2 
  <2>4. honoured' = honoured /\ honoured' \subseteq 1..issued'
    BY <1>1, <1>2, <1>5
  <2>5. c.refresh # 0
    BY <1>3
  <2> QED BY <1>1, <1>2, <1>5, <2>2, <2>3, <2>4, <2>5
<1> QED BY <1>4, <1>5

LEMMA AccountInit == Accounts!Init => AccountInv
<1> SUFFICES ASSUME Accounts!Init PROVE AccountInv
  OBVIOUS
<1>1. issued = 1 /\ honoured = {1} /\ issued \in 1..MaxGrants
  BY BoundAssumption DEF Accounts!Init
<1>2. Row(Accounts!NoAccount) /\ Clears(Accounts!NoAccount)
  BY <1>1, EmptyRow
<1>3. /\ Row(account) /\ account.status = "connected"
      /\ account.refresh = 0 \/ account.refresh = 1
  <2> DEFINE f == IF provider.refresh THEN 1 ELSE 0
             e == IF provider.expires THEN "far" ELSE "none"
  <2>1. f \in {0, 1} /\ e \in Accounts!Expiry
    BY DEF Accounts!Expiry
  <2>2. account = [status |-> "connected", access |-> 1, refresh |-> f, expires |-> e]
    BY DEF Accounts!Init
  <2> HIDE DEF f, e
  <2>3. account \in Accounts!Account
    BY <1>1, <2>1, <2>2, BoundAssumption DEF Accounts!Account, Accounts!Grants, Accounts!ConnectionStatus
  <2> QED BY <1>1, <2>1, <2>2, <2>3 DEF Row
<1>4. AccountTypes
  <2>1. /\ provider \in Accounts!Providers /\ job = "none" /\ web = "none"
        /\ thread = [t \in Threads |-> "none"] /\ theirs = [t \in Threads |-> Accounts!NoAccount]
        /\ mine = Accounts!NoAccount /\ page = Accounts!NoAccount
        /\ queued = FALSE /\ failed = FALSE /\ clean = TRUE
    BY DEF Accounts!Init, Accounts!Idle
  <2>2. honoured \subseteq 1..issued
    BY <1>1
  <2>3. theirs \in [Threads -> Accounts!Account] /\ \A t \in Threads : Row(theirs[t])
    BY <1>2, <2>1 DEF Row
  <2>4. \A t \in Threads : thread[t] = "none"
    BY <2>1
  <2> QED BY <1>1, <1>2, <1>3, <2>1, <2>2, <2>3, <2>4 DEF AccountTypes
<1>5. AllClear
  BY <1>2, <1>3 DEF Accounts!Init, AllClear, Clears
<1>6. Good(account)
  BY <1>1, <1>3 DEF Good
<1>7. Owned
  BY <1>6 DEF Accounts!Init, Accounts!Idle, Owned, OneOwner, RowOwns, AllGood, WaitingAreOld,
     NoThreadSaves, CheckKeeps, CheckHolds, Working
<1> QED BY <1>4, <1>5, <1>7 DEF AccountInv, Warned, Accounts!Init


\* Steps that leave every token where it is keep its owner.
Stays ==
  /\ \/ job' = job \/ job' \notin {"refreshing", "profile", "saving"}
     \/ {job, job'} \subseteq {"profile", "saving"}
  /\ account'.refresh = account.refresh
  /\ job' \in {"refreshing", "profile", "saving"} => mine'.refresh = mine.refresh
  /\ job \in {"profile", "saving"} => job' \in {"profile", "saving"}

LEMMA OwnedStays ==
  ASSUME Owned, UNCHANGED <<provider, honoured, thread, theirs, web, page>>,
         clean' => clean, Stays
  PROVE  Owned'
<1> SUFFICES ASSUME clean', web' # "disconnecting"
             PROVE  (provider.rotates => OneOwner') /\ (~provider.rotates => AllGood')
  BY DEF Owned
<1>1. (provider.rotates => OneOwner) /\ (~provider.rotates => AllGood)
  BY DEF Owned
<1>2. CheckKeeps => CheckKeeps'
  BY DEF CheckKeeps, CheckHolds, Stays
<1>3. (WaitingAreOld => WaitingAreOld') /\ (WaitingAreSpent => WaitingAreSpent')
  BY DEF WaitingAreOld, WaitingAreSpent, Old, Spent, Stays
<1>4. /\ (NoThreadSaves => NoThreadSaves') /\ (Spent(account) => Spent(account)')
      /\ (Good(account) => Good(account)')
  BY DEF NoThreadSaves, Spent, Good, Stays
<1>5. AllGood => AllGood'
  BY DEF AllGood, Good, Working, Stays
<1>6. CheckOwns => CheckOwns'
  BY <1>3, <1>4 DEF CheckOwns, CheckHolds, Stays
<1>7. WebOwns => WebOwns'
  BY <1>2, <1>3, <1>4 DEF WebOwns
<1>8. ThreadOwns => ThreadOwns'
  BY <1>2, <1>3, <1>4 DEF ThreadOwns
<1>9. RowOwns => RowOwns'
  BY <1>2, <1>3, <1>4 DEF RowOwns
<1> QED BY <1>1, <1>5, <1>6, <1>7, <1>8, <1>9 DEF OneOwner

LEMMA AgeKeeps == AccountInv /\ Accounts!Age => AccountInv'
<1> SUFFICES ASSUME AccountInv, Accounts!Age PROVE AccountInv'
  OBVIOUS
<1>0. AccountTypes /\ AllClear /\ Warned /\ Owned
  BY DEF AccountInv
<1>1. UNCHANGED <<provider, issued, honoured, queued, job, mine, failed, thread, theirs,
                  web, page, clean>>
  BY DEF Accounts!Age, Accounts!platform, Accounts!checkVars, Accounts!threadVars, Accounts!webVars
<1>2. /\ account' \in Accounts!Account /\ account'.refresh = account.refresh
      /\ account'.access = account.access /\ account'.status = account.status
  BY <1>0 DEF Accounts!Age, AccountTypes, Row, Accounts!Account, Accounts!Expiry
<1>3. AccountTypes'
  BY <1>0, <1>1, <1>2 DEF AccountTypes, Row
<1>4. AllClear' /\ Warned'
  BY <1>0, <1>1, <1>2 DEF AllClear, Clears, Warned
<1>5. Owned'
  <2>1. Stays
    BY <1>1, <1>2 DEF Stays
  <2> QED BY <1>0, <1>1, <2>1, OwnedStays
<1> QED BY <1>3, <1>4, <1>5 DEF AccountInv

LEMMA ScheduleChecksKeeps == AccountInv /\ Accounts!ScheduleChecks => AccountInv'
<1> SUFFICES ASSUME AccountInv, Accounts!ScheduleChecks PROVE AccountInv'
  OBVIOUS
<1>0. AccountTypes /\ AllClear /\ Warned /\ Owned
  BY DEF AccountInv
<1>1. /\ queued' = TRUE
      /\ UNCHANGED <<provider, account, issued, honoured, job, mine, failed, thread, theirs,
                     web, page, clean>>
  BY DEF Accounts!ScheduleChecks, Accounts!platform, Accounts!threadVars, Accounts!webVars
<1>2. AccountTypes'
  BY <1>0, <1>1 DEF AccountTypes, Row
<1>3. AllClear' /\ Warned'
  BY <1>0, <1>1 DEF AllClear, Clears, Warned
<1>4. Owned'
  <2>1. Stays
    BY <1>1 DEF Stays
  <2> QED BY <1>0, <1>1, <2>1, OwnedStays
<1> QED BY <1>2, <1>3, <1>4 DEF AccountInv

LEMMA StartCheckKeeps == AccountInv /\ Accounts!StartCheck => AccountInv'
<1> SUFFICES ASSUME AccountInv, Accounts!StartCheck PROVE AccountInv'
  OBVIOUS
<1>0. AccountTypes /\ AllClear /\ Warned /\ Owned
  BY DEF AccountInv
<1>1. /\ job = "none" /\ job' \in {"preserving", "refreshing", "profile"}
      /\ queued' = FALSE /\ mine' = account /\ failed' = FALSE
      /\ UNCHANGED <<provider, account, issued, honoured, thread, theirs, web, page, clean>>
  BY DEF Accounts!StartCheck, Accounts!platform, Accounts!threadVars, Accounts!webVars
<1>2. AccountTypes'
  BY <1>0, <1>1 DEF AccountTypes, Row
<1>3. AllClear' /\ Warned'
  BY <1>0, <1>1 DEF AllClear, Clears, Warned
<1>4. Owned'
  <2>1. \A t \in Threads : thread[t] = "none"
    BY <1>0, <1>1 DEF AccountTypes
  <2>2. ~CheckOwns /\ ~ThreadOwns
    BY <1>1, <2>1 DEF CheckOwns, CheckHolds, ThreadOwns
  <2>3. (WaitingAreOld => WaitingAreOld') /\ (WaitingAreSpent /\ Spent(account) => WaitingAreSpent')
    BY <1>1 DEF WaitingAreOld, WaitingAreSpent, Old, Spent
  <2>4. /\ CheckKeeps'
        /\ (NoThreadSaves => NoThreadSaves') /\ (Spent(account) => Spent(account)')
        /\ (Good(account) => Good(account)')
    BY <1>1 DEF CheckKeeps, NoThreadSaves, Spent, Good
  <2>5. RowOwns => RowOwns'
    BY <1>1, <2>3, <2>4 DEF RowOwns
  <2>6. WebOwns => WebOwns'
    BY <1>1, <2>3, <2>4 DEF WebOwns
  <2>7. AllGood => AllGood'
    BY <1>1 DEF AllGood, Good, Working
  <2> QED BY <1>0, <1>1, <2>2, <2>5, <2>6, <2>7 DEF Owned, OneOwner
<1> QED BY <1>2, <1>3, <1>4 DEF AccountInv

LEMMA PreserveManualKeeps == AccountInv /\ Accounts!PreserveManual => AccountInv'
<1> SUFFICES ASSUME AccountInv, Accounts!PreserveManual PROVE AccountInv'
  OBVIOUS
<1>0. AccountTypes /\ AllClear /\ Warned /\ Owned
  BY DEF AccountInv
<1>1. /\ job = "preserving" /\ job' = "none" /\ mine' = Accounts!NoAccount
      /\ UNCHANGED <<provider, issued, honoured, queued, failed, thread, theirs, web, page, clean>>
  BY DEF Accounts!PreserveManual, Accounts!platform, Accounts!threadVars, Accounts!webVars
<1>2. /\ account' \in Accounts!Account /\ account'.refresh = account.refresh
      /\ account'.status = "connected"
  BY <1>0 DEF Accounts!PreserveManual, AccountTypes, Row, Accounts!Account, Accounts!ConnectionStatus
<1>3. Row(Accounts!NoAccount) /\ Clears(Accounts!NoAccount)
  BY <1>0, EmptyRow DEF AccountTypes
<1>4. AccountTypes'
  BY <1>0, <1>1, <1>2, <1>3 DEF AccountTypes, Row
<1>5. AllClear' /\ Warned'
  BY <1>0, <1>1, <1>2, <1>3 DEF AllClear, Clears, Warned
<1>6. Owned'
  <2>1. Stays
    BY <1>1, <1>2 DEF Stays
  <2> QED BY <1>0, <1>1, <2>1, OwnedStays
<1> QED BY <1>4, <1>5, <1>6 DEF AccountInv


\* A refresh that succeeds where it consumes the token: the caller's copy was
\* the row's, and every other copy, the row included, is spent.
LEMMA RefreshTakesOver ==
  ASSUME AccountTypes, provider.rotates, RowOwns, NEW c, Row(c), Old(c),
         NEW new, Accounts!Renewed(c, new), account' = account
  PROVE  /\ Spent(account)' /\ web # "saving"
         /\ \A d : Row(d) /\ Old(d) => d.refresh \notin honoured'
<1>0. issued \in 1..MaxGrants /\ honoured \subseteq 1..issued
  BY DEF AccountTypes
<1>1. /\ c.refresh \in honoured /\ issued' = issued + 1
      /\ honoured' = (honoured \ {c.refresh}) \cup {issued + 1}
  BY <1>0, RenewedCopy
<1>2. c.refresh = account.refresh
  BY <1>1 DEF Old, Spent
<1>3. ASSUME NEW d, Row(d), Old(d) PROVE d.refresh \notin honoured'
  <2>1. d.refresh \in Nat /\ d.refresh <= issued
    BY <1>3, BoundAssumption DEF Row, Accounts!Account, Accounts!Grants
  <2>2. d.refresh # issued + 1
    BY <1>0, <2>1
  <2>3. d.refresh = c.refresh \/ d.refresh \notin honoured
    BY <1>2, <1>3 DEF Old, Spent
  <2> QED BY <1>1, <2>2, <2>3
<1>4. Row(account) /\ Old(account)
  BY DEF AccountTypes, Old
<1>5. Spent(account)'
  BY <1>3, <1>4 DEF Spent
<1> QED BY <1>3, <1>5 DEF RowOwns

LEMMA CheckRefreshKeeps == AccountInv /\ Accounts!CheckRefresh => AccountInv'
<1> SUFFICES ASSUME AccountInv, Accounts!CheckRefresh PROVE AccountInv'
  OBVIOUS
<1>0. AccountTypes /\ AllClear /\ Warned /\ Owned
  BY DEF AccountInv
<1>1. /\ job = "refreshing" /\ job' = "profile"
      /\ UNCHANGED <<provider, account, queued, thread, theirs, web, page, clean>>
      /\ \/ Accounts!Renewed(mine, mine') /\ failed' = FALSE
         \/ /\ mine' = [mine EXCEPT !.status = "token_expiring"] /\ failed' = TRUE
            /\ UNCHANGED <<issued, honoured>>
  BY DEF Accounts!CheckRefresh, Accounts!platform, Accounts!threadVars, Accounts!webVars
<1>2. \A t \in Threads : thread[t] = "none"
  BY <1>0, <1>1 DEF AccountTypes
<1>3. ~ThreadOwns /\ ~CheckOwns
  BY <1>1, <1>2 DEF ThreadOwns, CheckOwns, CheckHolds
<1>4. CASE Accounts!Renewed(mine, mine') /\ failed' = FALSE
  <2>0. issued \in 1..MaxGrants /\ honoured \subseteq 1..issued /\ Row(mine)
    BY <1>0 DEF AccountTypes
  <2>1. /\ issued' = issued + 1 /\ issued' \in 1..MaxGrants /\ honoured' \subseteq 1..issued'
        /\ mine.refresh \in honoured
        /\ mine' \in Accounts!Account /\ mine'.refresh <= issued' /\ mine'.status = "connected"
        /\ mine'.refresh \in honoured' /\ (~provider.rotates => honoured' = honoured)
    BY <1>4, <2>0, RenewedCopy
  <2>2. \A c : Row(c) => Row(c)'
    BY <2>0, <2>1, BoundAssumption DEF Row, Accounts!Account, Accounts!Grants
  <2>3. AccountTypes'
    BY <1>0, <1>1, <1>2, <2>1, <2>2 DEF AccountTypes, Row
  <2>4. AllClear' /\ Warned'
    BY <1>0, <1>1, <1>4, <2>1 DEF AllClear, Clears, Warned
  <2>5. ASSUME provider.rotates, OneOwner PROVE OneOwner'
    <3>1. RowOwns /\ Old(mine)
      BY <1>1, <1>3, <2>1, <2>5 DEF OneOwner, WebOwns, WaitingAreSpent, Spent, RowOwns, WaitingAreOld
    <3>2. Spent(account)' /\ web # "saving" /\ \A d : Row(d) /\ Old(d) => d.refresh \notin honoured'
      BY <1>0, <1>1, <1>4, <2>0, <2>5, <3>1, RefreshTakesOver
    <3>3. WaitingAreSpent'
      BY <1>0, <1>1, <1>2, <3>1, <3>2 DEF WaitingAreSpent, Spent, RowOwns, WaitingAreOld, AccountTypes
    <3> QED BY <1>1, <1>2, <2>1, <3>2, <3>3 DEF OneOwner, CheckOwns, CheckHolds, NoThreadSaves
  <2>6. ASSUME ~provider.rotates, AllGood PROVE AllGood'
    BY <1>1, <2>1, <2>6 DEF AllGood, Good, Working
  <2>7. Owned'
    BY <1>0, <1>1, <2>5, <2>6 DEF Owned
  <2> QED BY <2>3, <2>4, <2>7 DEF AccountInv
<1>5. CASE /\ mine' = [mine EXCEPT !.status = "token_expiring"] /\ failed' = TRUE
           /\ UNCHANGED <<issued, honoured>>
  <2>1. /\ mine' \in Accounts!Account /\ mine'.refresh = mine.refresh
        /\ mine'.status = "token_expiring"
    BY <1>0, <1>5 DEF AccountTypes, Row, Accounts!Account, Accounts!ConnectionStatus
  <2>2. AccountTypes'
    BY <1>0, <1>1, <1>2, <1>5, <2>1 DEF AccountTypes, Row
  <2>3. AllClear' /\ Warned'
    BY <1>0, <1>1, <1>5, <2>1 DEF AllClear, Clears, Warned
  <2>4. (WaitingAreOld => WaitingAreOld') /\ (WaitingAreSpent => WaitingAreSpent')
    BY <1>1, <1>5 DEF WaitingAreOld, WaitingAreSpent, Old, Spent
  <2>5. RowOwns => RowOwns'
    BY <1>1, <1>5, <2>1, <2>4 DEF RowOwns, Good, NoThreadSaves, CheckKeeps, CheckHolds
  <2>6. WebOwns => WebOwns'
    BY <1>1, <1>5, <2>1, <2>4 DEF WebOwns, Spent, NoThreadSaves, CheckKeeps, CheckHolds
  <2>7. AllGood => AllGood'
    BY <1>1, <1>5, <2>1 DEF AllGood, Good, Working
  <2>8. Owned'
    BY <1>0, <1>1, <1>3, <2>5, <2>6, <2>7 DEF Owned, OneOwner
  <2> QED BY <2>2, <2>3, <2>8 DEF AccountInv
<1> QED BY <1>1, <1>4, <1>5

LEMMA CheckProfileKeeps == AccountInv /\ Accounts!CheckProfile => AccountInv'
<1> SUFFICES ASSUME AccountInv, Accounts!CheckProfile PROVE AccountInv'
  OBVIOUS
<1>0. AccountTypes /\ AllClear /\ Warned /\ Owned
  BY DEF AccountInv
<1>1. /\ job = "profile" /\ job' = "saving"
      /\ UNCHANGED <<provider, account, issued, honoured, queued, failed, thread, theirs,
                     web, page, clean>>
  BY DEF Accounts!CheckProfile, Accounts!platform, Accounts!threadVars, Accounts!webVars
<1>2. /\ mine' \in Accounts!Account /\ mine'.refresh = mine.refresh /\ mine'.access = mine.access
      /\ \/ mine'.status = mine.status
         \/ mine'.status = "connected" /\ mine.status # "token_expiring"
         \/ mine'.status = "error"
  BY <1>0 DEF Accounts!CheckProfile, AccountTypes, Row, Accounts!Account, Accounts!ConnectionStatus
<1>3. AccountTypes'
  BY <1>0, <1>1, <1>2 DEF AccountTypes, Row
<1>4. AllClear' /\ Warned'
  BY <1>0, <1>1, <1>2 DEF AllClear, Clears, Warned
<1>5. Owned'
  <2>1. Stays
    BY <1>1, <1>2 DEF Stays
  <2> QED BY <1>0, <1>1, <2>1, OwnedStays
<1> QED BY <1>3, <1>4, <1>5 DEF AccountInv

LEMMA SaveCheckKeeps == AccountInv /\ Accounts!SaveCheck => AccountInv'
<1> SUFFICES ASSUME AccountInv, Accounts!SaveCheck PROVE AccountInv'
  OBVIOUS
<1>0. AccountTypes /\ AllClear /\ Warned /\ Owned
  BY DEF AccountInv
<1>1. /\ job = "saving" /\ job' = "none" /\ account' = mine /\ failed' = FALSE
      /\ mine' = Accounts!NoAccount
      /\ UNCHANGED <<provider, issued, honoured, queued, thread, theirs, web, page, clean>>
  BY DEF Accounts!SaveCheck, Accounts!platform, Accounts!threadVars, Accounts!webVars
<1>2. \A t \in Threads : thread[t] = "none"
  BY <1>0, <1>1 DEF AccountTypes
<1>3. Row(Accounts!NoAccount) /\ Clears(Accounts!NoAccount)
  BY <1>0, EmptyRow DEF AccountTypes
<1>4. AccountTypes'
  BY <1>0, <1>1, <1>2, <1>3 DEF AccountTypes, Row
<1>5. AllClear' /\ Warned'
  BY <1>0, <1>1, <1>3 DEF AllClear, Clears, Warned
<1>6. Owned'
  <2>1. ~ThreadOwns
    BY <1>2 DEF ThreadOwns
  <2>2. RowOwns => RowOwns'
    BY <1>1, <1>2 DEF RowOwns, WaitingAreOld, Old, Spent, Good, NoThreadSaves, CheckKeeps, CheckHolds
  <2>3. CheckOwns => RowOwns'
    BY <1>1, <1>2 DEF CheckOwns, RowOwns, WaitingAreOld, WaitingAreSpent, Old, Spent, Good,
       NoThreadSaves, CheckKeeps, CheckHolds
  <2>4. WebOwns => WebOwns'
    BY <1>1, <1>2 DEF WebOwns, WaitingAreSpent, Spent, NoThreadSaves, CheckKeeps, CheckHolds
  <2>5. AllGood => AllGood'
    BY <1>1, <1>2 DEF AllGood, Good, Working
  <2> QED BY <1>0, <1>1, <2>1, <2>2, <2>3, <2>4, <2>5 DEF Owned, OneOwner
<1> QED BY <1>4, <1>5, <1>6 DEF AccountInv

LEMMA StartPublishingKeeps == AccountInv /\ Accounts!StartPublishing => AccountInv'
<1> SUFFICES ASSUME AccountInv, Accounts!StartPublishing PROVE AccountInv'
  OBVIOUS
<1>0. AccountTypes /\ AllClear /\ Warned /\ Owned
  BY DEF AccountInv
<1>1. /\ job = "none" /\ job' = "publish" /\ thread' = [t \in Threads |-> "start"]
      /\ UNCHANGED <<provider, account, issued, honoured, queued, mine, failed, theirs, web,
                     page, clean>>
  BY DEF Accounts!StartPublishing, Accounts!platform, Accounts!webVars
<1>2. \A t \in Threads : thread[t] = "none" /\ thread'[t] = "start"
  BY <1>0, <1>1 DEF AccountTypes
<1>3. AccountTypes'
  BY <1>0, <1>1, <1>2 DEF AccountTypes, Row
<1>4. AllClear' /\ Warned'
  BY <1>0, <1>1 DEF AllClear, Clears, Warned
<1>5. Owned'
  <2>1. ~ThreadOwns /\ ~CheckOwns
    BY <1>1, <1>2 DEF ThreadOwns, CheckOwns, CheckHolds
  <2>2. RowOwns => RowOwns'
    BY <1>1, <1>2 DEF RowOwns, WaitingAreOld, Old, Spent, Good, NoThreadSaves, CheckKeeps, CheckHolds
  <2>3. WebOwns => WebOwns'
    BY <1>1, <1>2 DEF WebOwns, WaitingAreSpent, Spent, NoThreadSaves, CheckKeeps, CheckHolds
  <2>4. AllGood => AllGood'
    BY <1>1, <1>2 DEF AllGood, Good, Working
  <2> QED BY <1>0, <1>1, <2>1, <2>2, <2>3, <2>4 DEF Owned, OneOwner
<1> QED BY <1>3, <1>4, <1>5 DEF AccountInv

LEMMA EndPublishingKeeps == AccountInv /\ Accounts!EndPublishing => AccountInv'
<1> SUFFICES ASSUME AccountInv, Accounts!EndPublishing PROVE AccountInv'
  OBVIOUS
<1>0. AccountTypes /\ AllClear /\ Warned /\ Owned
  BY DEF AccountInv
<1>1. /\ job = "publish" /\ job' = "none" /\ thread' = [t \in Threads |-> "none"]
      /\ \A t \in Threads : thread[t] = "done"
      /\ UNCHANGED <<provider, account, issued, honoured, queued, mine, failed, theirs, web,
                     page, clean>>
  BY DEF Accounts!EndPublishing, Accounts!platform, Accounts!webVars, Accounts!Idle
<1>2. \A t \in Threads : thread[t] = "done" /\ thread'[t] = "none"
  BY <1>1
<1>3. AccountTypes'
  BY <1>0, <1>1, <1>2 DEF AccountTypes, Row
<1>4. AllClear' /\ Warned'
  BY <1>0, <1>1 DEF AllClear, Clears, Warned
<1>5. Owned'
  <2>1. ~ThreadOwns /\ ~CheckOwns
    BY <1>1, <1>2 DEF ThreadOwns, CheckOwns, CheckHolds
  <2>2. RowOwns => RowOwns'
    BY <1>1, <1>2 DEF RowOwns, WaitingAreOld, Old, Spent, Good, NoThreadSaves, CheckKeeps, CheckHolds
  <2>3. WebOwns => WebOwns'
    BY <1>1, <1>2 DEF WebOwns, WaitingAreSpent, Spent, NoThreadSaves, CheckKeeps, CheckHolds
  <2>4. AllGood => AllGood'
    BY <1>1, <1>2 DEF AllGood, Good, Working
  <2> QED BY <1>0, <1>1, <2>1, <2>2, <2>3, <2>4 DEF Owned, OneOwner
<1> QED BY <1>3, <1>4, <1>5 DEF AccountInv


LEMMA ReadAccountKeeps == AccountInv /\ (\E t \in Threads : Accounts!ReadAccount(t)) => AccountInv'
<1> SUFFICES ASSUME AccountInv, (\E t \in Threads : Accounts!ReadAccount(t)) PROVE AccountInv'
  OBVIOUS
<1>0. AccountTypes /\ AllClear /\ Warned /\ Owned
  BY DEF AccountInv
<1>1. PICK t \in Threads : Accounts!ReadAccount(t)
  OBVIOUS
<1>2. /\ thread[t] = "start"
      /\ \/ /\ theirs' = [theirs EXCEPT ![t] = account]
            /\ thread' = [thread EXCEPT ![t] = "refreshing"]
         \/ thread' = [thread EXCEPT ![t] = "done"] /\ theirs' = theirs
      /\ UNCHANGED <<provider, account, issued, honoured, queued, job, mine, failed, web, page, clean>>
  BY <1>1 DEF Accounts!ReadAccount, Accounts!platform, Accounts!checkVars, Accounts!webVars
<1>3. job = "publish"
  BY <1>0, <1>2 DEF AccountTypes
<1>4. /\ \A u \in Threads : u # t => thread'[u] = thread[u] /\ theirs'[u] = theirs[u]
      /\ \/ thread'[t] = "refreshing" /\ theirs'[t] = account
         \/ thread'[t] = "done" /\ theirs'[t] = theirs[t]
  BY <1>0, <1>2 DEF AccountTypes
<1>5. AccountTypes'
  <2>1. /\ thread' \in [Threads -> {"none", "start", "refreshing", "saving", "done"}]
        /\ theirs' \in [Threads -> Accounts!Account]
    BY <1>0, <1>2 DEF AccountTypes, Row
  <2>2. \A u \in Threads : Row(theirs[u])'
    BY <1>0, <1>2, <1>4 DEF AccountTypes, Row
  <2> QED BY <1>0, <1>2, <1>3, <2>1, <2>2 DEF AccountTypes, Row
<1>6. AllClear' /\ Warned'
  BY <1>0, <1>2, <1>4 DEF AllClear, Clears, Warned
<1>7. Owned'
  <2>1. ~CheckOwns
    BY <1>3 DEF CheckOwns, CheckHolds
  <2>2. /\ WaitingAreOld => WaitingAreOld'
        /\ WaitingAreSpent /\ Spent(account) => WaitingAreSpent'
    BY <1>2, <1>4 DEF WaitingAreOld, WaitingAreSpent, Old, Spent
  <2>3. /\ NoThreadSaves => NoThreadSaves'
        /\ CheckKeeps'
        /\ Good(account) => Good(account)'
        /\ Spent(account) => Spent(account)'
    BY <1>2, <1>3, <1>4 DEF NoThreadSaves, CheckKeeps, CheckHolds, Good, Spent
  <2>4. RowOwns => RowOwns'
    BY <1>2, <2>2, <2>3 DEF RowOwns
  <2>5. WebOwns => WebOwns'
    BY <1>2, <2>2, <2>3 DEF WebOwns
  <2>6. ASSUME ThreadOwns PROVE ThreadOwns'
    <3>1. PICK o \in Threads :
            /\ thread[o] = "saving" /\ theirs[o].refresh \in honoured
            /\ \A u \in Threads : thread[u] = "saving" => u = o
            /\ WaitingAreSpent /\ Spent(account) /\ CheckKeeps /\ web # "saving"
      BY <2>6 DEF ThreadOwns
    <3>2. o # t
      BY <1>2, <3>1
    <3>3. /\ thread'[o] = "saving" /\ theirs'[o].refresh \in honoured'
          /\ \A u \in Threads : thread'[u] = "saving" => u = o
      BY <1>2, <1>4, <3>1, <3>2
    <3> QED BY <1>2, <2>2, <2>3, <3>1, <3>3 DEF ThreadOwns
  <2>7. AllGood => AllGood'
    BY <1>2, <1>4 DEF AllGood, Good, Working
  <2> QED BY <1>0, <1>2, <2>1, <2>4, <2>5, <2>6, <2>7 DEF Owned, OneOwner
<1> QED BY <1>5, <1>6, <1>7 DEF AccountInv

LEMMA ThreadSaveKeeps == AccountInv /\ (\E t \in Threads : Accounts!ThreadSave(t)) => AccountInv'
<1> SUFFICES ASSUME AccountInv, (\E t \in Threads : Accounts!ThreadSave(t)) PROVE AccountInv'
  OBVIOUS
<1>0. AccountTypes /\ AllClear /\ Warned /\ Owned
  BY DEF AccountInv
<1>1. PICK t \in Threads : Accounts!ThreadSave(t)
  OBVIOUS
<1>2. /\ thread[t] = "saving" /\ account' = theirs[t]
      /\ thread' = [thread EXCEPT ![t] = "done"]
      /\ theirs' = [theirs EXCEPT ![t] = Accounts!NoAccount]
      /\ UNCHANGED <<provider, issued, honoured, queued, job, mine, failed, web, page, clean>>
  BY <1>1 DEF Accounts!ThreadSave, Accounts!platform, Accounts!checkVars, Accounts!webVars
<1>3. job = "publish"
  BY <1>0, <1>2 DEF AccountTypes
<1>4. /\ \A u \in Threads : u # t => thread'[u] = thread[u] /\ theirs'[u] = theirs[u]
      /\ thread'[t] = "done" /\ theirs'[t] = Accounts!NoAccount
  BY <1>0, <1>2 DEF AccountTypes
<1>5. Row(Accounts!NoAccount) /\ Clears(Accounts!NoAccount)
  BY <1>0, EmptyRow DEF AccountTypes
<1>6. AccountTypes'
  <2>1. /\ thread' \in [Threads -> {"none", "start", "refreshing", "saving", "done"}]
        /\ theirs' \in [Threads -> Accounts!Account]
    BY <1>0, <1>2, <1>5 DEF AccountTypes, Row
  <2>2. \A u \in Threads : Row(theirs[u])'
    BY <1>0, <1>2, <1>4, <1>5 DEF AccountTypes, Row
  <2>3. Row(account)'
    BY <1>0, <1>2 DEF AccountTypes, Row
  <2> QED BY <1>0, <1>2, <1>3, <2>1, <2>2, <2>3 DEF AccountTypes, Row
<1>7. AllClear' /\ Warned'
  BY <1>0, <1>2, <1>4, <1>5 DEF AllClear, Clears, Warned
<1>8. Owned'
  <2>1. ~CheckOwns /\ ~RowOwns /\ ~WebOwns
    BY <1>2, <1>3 DEF CheckOwns, CheckHolds, RowOwns, WebOwns, NoThreadSaves
  <2>2. ASSUME ThreadOwns PROVE RowOwns'
    <3>1. PICK o \in Threads :
            /\ thread[o] = "saving" /\ theirs[o].refresh \in honoured
            /\ \A u \in Threads : thread[u] = "saving" => u = o
            /\ WaitingAreSpent /\ Spent(account) /\ CheckKeeps /\ web # "saving"
      BY <2>2 DEF ThreadOwns
    <3>2. o = t
      BY <1>2, <3>1
    <3>3. Good(account)' /\ NoThreadSaves'
      BY <1>2, <1>4, <3>1, <3>2 DEF Good, NoThreadSaves
    <3>4. WaitingAreOld' /\ CheckKeeps'
      BY <1>2, <1>3, <1>4, <3>1 DEF WaitingAreSpent, WaitingAreOld, Old, Spent, CheckKeeps, CheckHolds
    <3> QED BY <1>2, <3>1, <3>3, <3>4 DEF RowOwns
  <2>3. AllGood => AllGood'
    BY <1>2, <1>3, <1>4 DEF AllGood, Good, Working
  <2> QED BY <1>0, <1>2, <2>1, <2>2, <2>3 DEF Owned, OneOwner
<1> QED BY <1>6, <1>7, <1>8 DEF AccountInv

LEMMA ThreadRefreshKeeps == AccountInv /\ (\E t \in Threads : Accounts!ThreadRefresh(t)) => AccountInv'
<1> SUFFICES ASSUME AccountInv, (\E t \in Threads : Accounts!ThreadRefresh(t)) PROVE AccountInv'
  OBVIOUS
<1>0. AccountTypes /\ AllClear /\ Warned /\ Owned
  BY DEF AccountInv
<1>1. PICK t \in Threads : Accounts!ThreadRefresh(t)
  OBVIOUS
<1>2. /\ thread[t] = "refreshing"
      /\ UNCHANGED <<provider, account, queued, job, mine, failed, web, page, clean>>
  BY <1>1 DEF Accounts!ThreadRefresh, Accounts!checkVars, Accounts!webVars
<1>3. job = "publish"
  BY <1>0, <1>2 DEF AccountTypes
<1>4. /\ issued \in 1..MaxGrants /\ honoured \subseteq 1..issued
      /\ Row(theirs[t]) /\ Clears(theirs[t])
  BY <1>0 DEF AccountTypes, AllClear
<1>5. ASSUME NEW new \in Accounts!Account, Accounts!Renewed(theirs[t], new),
             theirs' = [theirs EXCEPT ![t] = new], thread' = [thread EXCEPT ![t] = "saving"]
      PROVE  AccountInv'
  <2>1. /\ issued' = issued + 1 /\ issued' \in 1..MaxGrants /\ honoured' \subseteq 1..issued'
        /\ theirs[t].refresh \in honoured
        /\ new.refresh <= issued' /\ new.status = "connected"
        /\ new.refresh \in honoured' /\ (~provider.rotates => honoured' = honoured)
    BY <1>4, <1>5, RenewedCopy
  <2>2. \A c : Row(c) => Row(c)'
    BY <1>4, <2>1, BoundAssumption DEF Row, Accounts!Account, Accounts!Grants
  <2>3. /\ \A u \in Threads : u # t => thread'[u] = thread[u] /\ theirs'[u] = theirs[u]
        /\ thread'[t] = "saving" /\ theirs'[t] = new
    BY <1>0, <1>5 DEF AccountTypes
  <2>4. AccountTypes'
    <3>1. /\ thread' \in [Threads -> {"none", "start", "refreshing", "saving", "done"}]
          /\ theirs' \in [Threads -> Accounts!Account]
      BY <1>0, <1>5 DEF AccountTypes
    <3>2. \A u \in Threads : Row(theirs[u])'
      BY <1>0, <2>1, <2>2, <2>3 DEF AccountTypes, Row
    <3>3. Row(account)' /\ Row(mine)' /\ Row(page)'
      BY <1>0, <1>2, <2>2 DEF AccountTypes, Row
    <3> QED BY <1>0, <1>2, <1>3, <2>1, <3>1, <3>2, <3>3 DEF AccountTypes
  <2>5. AllClear' /\ Warned'
    BY <1>0, <1>2, <2>1, <2>3 DEF AllClear, Clears, Warned
  <2>6. ASSUME provider.rotates, OneOwner PROVE OneOwner'
    <3>1. RowOwns /\ Old(theirs[t])
      BY <1>2, <1>3, <2>1, <2>6 DEF OneOwner, ThreadOwns, CheckOwns, WebOwns, WaitingAreSpent, Spent,
         RowOwns, WaitingAreOld
    <3>2. Spent(account)' /\ web # "saving" /\ \A d : Row(d) /\ Old(d) => d.refresh \notin honoured'
      BY <1>0, <1>2, <1>4, <1>5, <2>6, <3>1, RefreshTakesOver
    <3>3. WaitingAreSpent'
      BY <1>0, <1>2, <1>3, <2>3, <3>1, <3>2
         DEF WaitingAreSpent, Spent, RowOwns, WaitingAreOld, AccountTypes
    <3>4. \A u \in Threads : thread'[u] = "saving" => u = t
      BY <2>3, <3>1 DEF RowOwns, NoThreadSaves
    <3>5. CheckKeeps'
      BY <1>2, <1>3 DEF CheckKeeps, CheckHolds
    <3> QED BY <1>2, <2>1, <2>3, <3>2, <3>3, <3>4, <3>5 DEF OneOwner, ThreadOwns
  <2>7. ASSUME ~provider.rotates, AllGood PROVE AllGood'
    BY <1>2, <2>1, <2>3, <2>7 DEF AllGood, Good, Working
  <2>8. Owned'
    BY <1>0, <1>2, <2>6, <2>7 DEF Owned
  <2> QED BY <2>4, <2>5, <2>8 DEF AccountInv
<1>6. ASSUME thread' = [thread EXCEPT ![t] = "done"],
             theirs' = [theirs EXCEPT ![t] = Accounts!NoAccount], UNCHANGED <<issued, honoured>>
      PROVE  AccountInv'
  <2>1. Row(Accounts!NoAccount) /\ Clears(Accounts!NoAccount)
    BY <1>4, EmptyRow
  <2>2. /\ \A u \in Threads : u # t => thread'[u] = thread[u] /\ theirs'[u] = theirs[u]
        /\ thread'[t] = "done" /\ theirs'[t] = Accounts!NoAccount
    BY <1>0, <1>6 DEF AccountTypes
  <2>3. AccountTypes'
    <3>1. /\ thread' \in [Threads -> {"none", "start", "refreshing", "saving", "done"}]
          /\ theirs' \in [Threads -> Accounts!Account]
      BY <1>0, <1>6, <2>1 DEF AccountTypes, Row
    <3>2. \A u \in Threads : Row(theirs[u])'
      BY <1>0, <1>6, <2>1, <2>2 DEF AccountTypes, Row
    <3> QED BY <1>0, <1>2, <1>3, <1>6, <3>1, <3>2 DEF AccountTypes, Row
  <2>4. AllClear' /\ Warned'
    BY <1>0, <1>2, <2>1, <2>2 DEF AllClear, Clears, Warned
  <2>5. /\ WaitingAreOld => WaitingAreOld'
        /\ WaitingAreSpent => WaitingAreSpent'
    BY <1>2, <1>6, <2>2 DEF WaitingAreOld, WaitingAreSpent, Old, Spent
  <2>6. /\ NoThreadSaves => NoThreadSaves'
        /\ CheckKeeps'
        /\ Good(account) => Good(account)'
        /\ Spent(account) => Spent(account)'
    BY <1>2, <1>3, <1>6, <2>2 DEF NoThreadSaves, CheckKeeps, CheckHolds, Good, Spent
  <2>7. ~CheckOwns
    BY <1>3 DEF CheckOwns, CheckHolds
  <2>8. RowOwns => RowOwns'
    BY <1>2, <2>5, <2>6 DEF RowOwns
  <2>9. WebOwns => WebOwns'
    BY <1>2, <1>6, <2>5, <2>6 DEF WebOwns
  <2>10. ASSUME ThreadOwns PROVE ThreadOwns'
    <3>1. PICK o \in Threads :
            /\ thread[o] = "saving" /\ theirs[o].refresh \in honoured
            /\ \A u \in Threads : thread[u] = "saving" => u = o
            /\ WaitingAreSpent /\ Spent(account) /\ CheckKeeps /\ web # "saving"
      BY <2>10 DEF ThreadOwns
    <3>2. o # t
      BY <1>2, <3>1
    <3>3. /\ thread'[o] = "saving" /\ theirs'[o].refresh \in honoured'
          /\ \A u \in Threads : thread'[u] = "saving" => u = o
      BY <1>2, <1>6, <2>2, <3>1, <3>2
    <3> QED BY <1>2, <2>5, <2>6, <3>1, <3>3 DEF ThreadOwns
  <2>11. AllGood => AllGood'
    BY <1>2, <1>6, <2>2 DEF AllGood, Good, Working
  <2>12. Owned'
    BY <1>0, <1>2, <2>7, <2>8, <2>9, <2>10, <2>11 DEF Owned, OneOwner
  <2> QED BY <2>3, <2>4, <2>12 DEF AccountInv
<1> QED BY <1>1, <1>5, <1>6 DEF Accounts!ThreadRefresh, Accounts!platform


LEMMA OpenComposerKeeps == AccountInv /\ Accounts!OpenComposer => AccountInv'
<1> SUFFICES ASSUME AccountInv, Accounts!OpenComposer PROVE AccountInv'
  OBVIOUS
<1>0. AccountTypes /\ AllClear /\ Warned /\ Owned
  BY DEF AccountInv
<1>1. /\ web = "none" /\ web' = "refreshing" /\ page' = account
      /\ clean' = (clean /\ job = "none")
      /\ UNCHANGED <<provider, account, issued, honoured, queued, job, mine, failed, thread, theirs>>
  BY DEF Accounts!OpenComposer, Accounts!platform, Accounts!checkVars, Accounts!threadVars
<1>2. AccountTypes'
  BY <1>0, <1>1 DEF AccountTypes, Row
<1>3. AllClear' /\ Warned'
  BY <1>0, <1>1 DEF AllClear, Clears, Warned
<1>4. Owned'
  <2> SUFFICES ASSUME clean' PROVE (provider.rotates => OneOwner') /\ (~provider.rotates => AllGood')
    BY <1>1 DEF Owned
  <2>1. clean /\ job = "none" /\ \A t \in Threads : thread[t] = "none"
    BY <1>0, <1>1 DEF AccountTypes
  <2>2. ~ThreadOwns /\ ~CheckOwns /\ ~WebOwns
    BY <1>1, <2>1 DEF ThreadOwns, CheckOwns, CheckHolds, WebOwns
  <2>3. RowOwns => RowOwns'
    BY <1>1, <2>1 DEF RowOwns, WaitingAreOld, Old, Spent, Good, NoThreadSaves, CheckKeeps, CheckHolds
  <2>4. AllGood => AllGood'
    BY <1>1, <2>1 DEF AllGood, Good, Working
  <2> QED BY <1>0, <1>1, <2>1, <2>2, <2>3, <2>4 DEF Owned, OneOwner
<1> QED BY <1>2, <1>3, <1>4 DEF AccountInv

LEMMA ComposerRefreshKeeps == AccountInv /\ Accounts!ComposerRefresh => AccountInv'
<1> SUFFICES ASSUME AccountInv, Accounts!ComposerRefresh PROVE AccountInv'
  OBVIOUS
<1>0. AccountTypes /\ AllClear /\ Warned /\ Owned
  BY DEF AccountInv
<1>1. /\ web = "refreshing"
      /\ \/ Accounts!Renewed(page, page') /\ web' = "saving"
         \/ web' = "none" /\ page' = Accounts!NoAccount /\ UNCHANGED <<issued, honoured>>
      /\ clean' = (clean /\ job = "none")
      /\ UNCHANGED <<provider, account, queued, job, mine, failed, thread, theirs>>
  BY DEF Accounts!ComposerRefresh, Accounts!platform, Accounts!checkVars, Accounts!threadVars
<1>2. /\ issued \in 1..MaxGrants /\ honoured \subseteq 1..issued /\ Row(page)
  BY <1>0 DEF AccountTypes
<1>3. clean' => /\ clean /\ job = "none" /\ \A t \in Threads : thread[t] = "none"
                /\ ~ThreadOwns /\ ~CheckOwns /\ ~WebOwns
  <2> SUFFICES ASSUME clean'
               PROVE  /\ clean /\ job = "none" /\ \A t \in Threads : thread[t] = "none"
                      /\ ~ThreadOwns /\ ~CheckOwns /\ ~WebOwns
    OBVIOUS
  <2>1. clean /\ job = "none" /\ \A t \in Threads : thread[t] = "none"
    BY <1>0, <1>1 DEF AccountTypes
  <2> QED BY <1>1, <2>1 DEF ThreadOwns, CheckOwns, CheckHolds, WebOwns
<1>4. CASE Accounts!Renewed(page, page') /\ web' = "saving"
  <2>1. /\ issued' = issued + 1 /\ issued' \in 1..MaxGrants /\ honoured' \subseteq 1..issued'
        /\ page.refresh \in honoured
        /\ page' \in Accounts!Account /\ page'.refresh <= issued' /\ page'.status = "connected"
        /\ page'.refresh \in honoured' /\ (~provider.rotates => honoured' = honoured)
    BY <1>2, <1>4, RenewedCopy
  <2>2. \A c : Row(c) => Row(c)'
    BY <1>2, <2>1, BoundAssumption DEF Row, Accounts!Account, Accounts!Grants
  <2>3. AccountTypes'
    <3>1. Row(page)'
      BY <2>1 DEF Row
    <3>2. Row(account)' /\ Row(mine)' /\ \A t \in Threads : Row(theirs[t])'
      BY <1>0, <1>1, <2>2 DEF AccountTypes, Row
    <3>3. clean' \in BOOLEAN
      BY <1>1
    <3> QED BY <1>0, <1>1, <1>4, <2>1, <3>1, <3>2, <3>3 DEF AccountTypes
  <2>4. AllClear' /\ Warned'
    BY <1>0, <1>1, <2>1 DEF AllClear, Clears, Warned
  <2>5. ASSUME clean', provider.rotates, OneOwner PROVE OneOwner'
    <3>1. RowOwns /\ Old(page)
      BY <1>1, <1>3, <2>5 DEF OneOwner, RowOwns, WaitingAreOld
    <3>2. Spent(account)'
      BY <1>0, <1>1, <1>2, <1>4, <2>5, <3>1, RefreshTakesOver
    <3>3. WaitingAreSpent' /\ NoThreadSaves' /\ CheckKeeps'
      BY <1>1, <1>3, <1>4, <2>5 DEF WaitingAreSpent, NoThreadSaves, CheckKeeps, CheckHolds
    <3> QED BY <1>4, <2>1, <3>2, <3>3 DEF OneOwner, WebOwns
  <2>6. ASSUME clean', ~provider.rotates, AllGood PROVE AllGood'
    BY <1>1, <1>3, <2>1, <2>6 DEF AllGood, Good, Working
  <2>7. Owned'
    BY <1>0, <1>1, <1>3, <2>5, <2>6 DEF Owned
  <2> QED BY <2>3, <2>4, <2>7 DEF AccountInv
<1>5. CASE web' = "none" /\ page' = Accounts!NoAccount /\ UNCHANGED <<issued, honoured>>
  <2>1. Row(Accounts!NoAccount) /\ Clears(Accounts!NoAccount)
    BY <1>2, EmptyRow
  <2>2. AccountTypes'
    BY <1>0, <1>1, <1>5, <2>1 DEF AccountTypes, Row
  <2>3. AllClear' /\ Warned'
    BY <1>0, <1>1, <1>5, <2>1 DEF AllClear, Clears, Warned
  <2>4. ASSUME clean', RowOwns PROVE RowOwns'
    BY <1>1, <1>3, <1>5, <2>4 DEF RowOwns, WaitingAreOld, Old, Spent, Good, NoThreadSaves,
       CheckKeeps, CheckHolds
  <2>5. ASSUME clean', AllGood PROVE AllGood'
    BY <1>1, <1>3, <1>5, <2>5 DEF AllGood, Good, Working
  <2>6. Owned'
    BY <1>0, <1>1, <1>3, <2>4, <2>5 DEF Owned, OneOwner
  <2> QED BY <2>2, <2>3, <2>6 DEF AccountInv
<1> QED BY <1>1, <1>4, <1>5

LEMMA ComposerSaveKeeps == AccountInv /\ Accounts!ComposerSave => AccountInv'
<1> SUFFICES ASSUME AccountInv, Accounts!ComposerSave PROVE AccountInv'
  OBVIOUS
<1>0. AccountTypes /\ AllClear /\ Warned /\ Owned
  BY DEF AccountInv
<1>1. /\ web = "saving" /\ web' = "none" /\ account' = page /\ page' = Accounts!NoAccount
      /\ clean' = (clean /\ job = "none")
      /\ UNCHANGED <<provider, issued, honoured, queued, job, mine, failed, thread, theirs>>
  BY DEF Accounts!ComposerSave, Accounts!platform, Accounts!checkVars, Accounts!threadVars
<1>2. Row(Accounts!NoAccount) /\ Clears(Accounts!NoAccount)
  BY <1>0, EmptyRow DEF AccountTypes
<1>3. AccountTypes'
  BY <1>0, <1>1, <1>2 DEF AccountTypes, Row
<1>4. AllClear' /\ Warned'
  BY <1>0, <1>1, <1>2 DEF AllClear, Clears, Warned
<1>5. Owned'
  <2> SUFFICES ASSUME clean' PROVE (provider.rotates => OneOwner') /\ (~provider.rotates => AllGood')
    BY <1>1 DEF Owned
  <2>1. clean /\ job = "none" /\ \A t \in Threads : thread[t] = "none"
    BY <1>0, <1>1 DEF AccountTypes
  <2>2. ~ThreadOwns /\ ~CheckOwns /\ ~RowOwns
    BY <1>1, <2>1 DEF ThreadOwns, CheckOwns, CheckHolds, RowOwns
  <2>3. WebOwns => RowOwns'
    BY <1>1, <2>1 DEF WebOwns, RowOwns, WaitingAreOld, Good, NoThreadSaves, CheckKeeps, CheckHolds
  <2>4. AllGood => AllGood'
    BY <1>1, <2>1 DEF AllGood, Good, Working
  <2> QED BY <1>0, <1>1, <2>1, <2>2, <2>3, <2>4 DEF Owned, OneOwner
<1> QED BY <1>3, <1>4, <1>5 DEF AccountInv

LEMMA RevokeKeeps == AccountInv /\ Accounts!Revoke => AccountInv'
<1> SUFFICES ASSUME AccountInv, Accounts!Revoke PROVE AccountInv'
  OBVIOUS
<1>0. AccountTypes /\ AllClear /\ Warned /\ Owned
  BY DEF AccountInv
<1>1. /\ web' = "disconnecting" /\ honoured' \subseteq honoured
      /\ clean' = (clean /\ job = "none")
      /\ UNCHANGED <<provider, account, issued, queued, job, mine, failed, thread, theirs, page>>
  BY DEF Accounts!Revoke, Accounts!checkVars, Accounts!threadVars
<1>2. AccountTypes'
  BY <1>0, <1>1 DEF AccountTypes, Row
<1>3. AllClear' /\ Warned'
  BY <1>0, <1>1 DEF AllClear, Clears, Warned
<1>4. Owned'
  BY <1>1 DEF Owned
<1> QED BY <1>2, <1>3, <1>4 DEF AccountInv

LEMMA DisconnectKeeps == AccountInv /\ Accounts!Disconnect => AccountInv'
<1> SUFFICES ASSUME AccountInv, Accounts!Disconnect PROVE AccountInv'
  OBVIOUS
<1>0. AccountTypes /\ AllClear /\ Warned /\ Owned
  BY DEF AccountInv
<1>1. /\ web = "disconnecting" /\ web' = "none" /\ account' = Accounts!NoAccount
      /\ clean' = (clean /\ job = "none")
      /\ UNCHANGED <<provider, issued, honoured, queued, job, mine, failed, thread, theirs, page>>
  BY DEF Accounts!Disconnect, Accounts!platform, Accounts!checkVars, Accounts!threadVars
<1>2. Row(Accounts!NoAccount) /\ Clears(Accounts!NoAccount) /\ Accounts!NoAccount.refresh = 0
  BY <1>0, EmptyRow DEF AccountTypes
<1>3. AccountTypes'
  BY <1>0, <1>1, <1>2 DEF AccountTypes, Row
<1>4. AllClear' /\ Warned'
  BY <1>0, <1>1, <1>2 DEF AllClear, Clears, Warned
<1>5. Owned'
  <2> SUFFICES ASSUME clean' PROVE RowOwns' /\ AllGood'
    BY DEF Owned, OneOwner
  <2>1. job = "none" /\ \A t \in Threads : thread[t] = "none"
    BY <1>0, <1>1 DEF AccountTypes
  <2> QED BY <1>1, <1>2, <2>1 DEF RowOwns, AllGood, WaitingAreOld, Good, Working, NoThreadSaves,
          CheckKeeps, CheckHolds
<1> QED BY <1>3, <1>4, <1>5 DEF AccountInv

LEMMA AuthorizedKeeps == AccountInv /\ (\E refresh, expires : Accounts!Authorized(refresh, expires)) => AccountInv'
<1> SUFFICES ASSUME AccountInv, (\E refresh, expires : Accounts!Authorized(refresh, expires)) PROVE AccountInv'
  OBVIOUS
<1>0. AccountTypes /\ AllClear /\ Warned /\ Owned
  BY DEF AccountInv
<1>1. PICK refresh, expires : Accounts!Authorized(refresh, expires)
  OBVIOUS
<1> DEFINE token == IF refresh THEN issued + 1 ELSE 0
           until == IF expires THEN "far" ELSE "none"
<1>2. /\ issued < MaxGrants /\ issued' = issued + 1 /\ honoured' = honoured \cup {issued + 1}
      /\ account' = [status |-> "connected", access |-> issued + 1, refresh |-> token,
                     expires |-> until]
      /\ clean' = (clean /\ Accounts!Alone)
      /\ UNCHANGED <<provider, queued, job, mine, failed, thread, theirs, web, page>>
  BY <1>1 DEF Accounts!Authorized, Accounts!checkVars, Accounts!threadVars
<1>3. issued \in 1..MaxGrants /\ honoured \subseteq 1..issued
  BY <1>0 DEF AccountTypes
<1>4. /\ issued' \in 1..MaxGrants /\ honoured' \subseteq 1..issued'
      /\ issued + 1 \in Accounts!Grants /\ 0 \in Accounts!Grants
  BY <1>2, <1>3, BoundAssumption DEF Accounts!Grants
<1>5. token \in {0, issued + 1} /\ until \in Accounts!Expiry
  BY DEF Accounts!Expiry
<1> HIDE DEF token, until
<1>6. /\ account' \in Accounts!Account /\ account'.refresh = token
      /\ account'.status = "connected"
  BY <1>2, <1>4, <1>5 DEF Accounts!Account, Accounts!ConnectionStatus
<1>7. AccountTypes'
  <2>1. \A c : Row(c) => Row(c)'
    BY <1>2, <1>3, BoundAssumption DEF Row, Accounts!Account, Accounts!Grants
  <2>2. Row(account)'
    BY <1>2, <1>3, <1>5, <1>6 DEF Row
  <2>3. Row(mine)' /\ Row(page)' /\ \A t \in Threads : Row(theirs[t])'
    BY <1>0, <1>2, <2>1 DEF AccountTypes, Row
  <2>4. clean' \in BOOLEAN
    BY <1>2
  <2> QED BY <1>0, <1>2, <1>4, <2>2, <2>3, <2>4 DEF AccountTypes
<1>8. AllClear' /\ Warned'
  BY <1>0, <1>2, <1>6 DEF AllClear, Clears, Warned
<1>9. Owned'
  <2> SUFFICES ASSUME clean' PROVE RowOwns' /\ AllGood'
    BY DEF Owned, OneOwner
  <2>1. job = "none" /\ web = "none" /\ \A t \in Threads : thread[t] = "none"
    BY <1>0, <1>2 DEF AccountTypes, Accounts!Alone
  <2>2. Good(account)'
    BY <1>2, <1>5, <1>6 DEF Good
  <2> QED BY <1>2, <2>1, <2>2 DEF RowOwns, AllGood, WaitingAreOld, Working, NoThreadSaves,
          CheckKeeps, CheckHolds
<1> QED BY <1>7, <1>8, <1>9 DEF AccountInv

\* create-manual and the healing list write the status alone.
LEMMA MendKeeps ==
  ASSUME AccountInv, account' = [account EXCEPT !.status = "connected"],
         clean' = (clean /\ Accounts!Alone),
         UNCHANGED <<provider, issued, honoured, queued, job, mine, failed, thread, theirs, web, page>>
  PROVE  AccountInv'
<1>0. AccountTypes /\ AllClear /\ Warned /\ Owned
  BY DEF AccountInv
<1>1. /\ account' \in Accounts!Account /\ account'.refresh = account.refresh
      /\ account'.status = "connected"
  BY <1>0 DEF AccountTypes, Row, Accounts!Account, Accounts!ConnectionStatus
<1>2. AccountTypes'
  BY <1>0, <1>1 DEF AccountTypes, Row
<1>3. AllClear' /\ Warned'
  BY <1>0, <1>1 DEF AllClear, Clears, Warned
<1>4. Owned'
  <2>1. Stays
    BY <1>1 DEF Stays
  <2>2. clean' => clean
    OBVIOUS
  <2> QED BY <1>0, <2>1, <2>2, OwnedStays
<1> QED BY <1>2, <1>3, <1>4 DEF AccountInv

LEMMA AccountNext == AccountInv /\ [Accounts!Next]_Accounts!vars => AccountInv'
<1> SUFFICES ASSUME AccountInv, [Accounts!Next]_Accounts!vars PROVE AccountInv'
  OBVIOUS
<1>1. CASE \/ Accounts!Age \/ Accounts!ScheduleChecks \/ Accounts!StartCheck
           \/ Accounts!PreserveManual \/ Accounts!CheckRefresh \/ Accounts!CheckProfile
           \/ Accounts!SaveCheck \/ Accounts!StartPublishing \/ Accounts!EndPublishing
  BY <1>1, AgeKeeps, ScheduleChecksKeeps, StartCheckKeeps, PreserveManualKeeps, CheckRefreshKeeps,
     CheckProfileKeeps, SaveCheckKeeps, StartPublishingKeeps, EndPublishingKeeps
<1>2. CASE \E t \in Threads :
             Accounts!ReadAccount(t) \/ Accounts!ThreadRefresh(t) \/ Accounts!ThreadSave(t)
  BY <1>2, ReadAccountKeeps, ThreadRefreshKeeps, ThreadSaveKeeps
<1>3. CASE \/ Accounts!OpenComposer \/ Accounts!ComposerRefresh \/ Accounts!ComposerSave
           \/ Accounts!Revoke \/ Accounts!Disconnect
  BY <1>3, OpenComposerKeeps, ComposerRefreshKeeps, ComposerSaveKeeps, RevokeKeeps, DisconnectKeeps
<1>4. CASE \/ Accounts!OauthCallback \/ Accounts!SelectAccount \/ Accounts!ConnectBluesky
           \/ Accounts!ConnectDevto
  BY <1>4, AuthorizedKeeps DEF Accounts!OauthCallback, Accounts!SelectAccount,
     Accounts!ConnectBluesky, Accounts!ConnectDevto
<1>5. CASE Accounts!ConnectManually \/ Accounts!ListAccounts
  BY <1>5, MendKeeps DEF Accounts!ConnectManually, Accounts!ListAccounts, Accounts!platform,
     Accounts!checkVars, Accounts!threadVars
<1>6. CASE UNCHANGED Accounts!vars
  <2>1. UNCHANGED <<provider, account, issued, honoured, queued, job, mine, failed, thread, theirs,
                    web, page, clean>>
    BY <1>6 DEF Accounts!vars
  <2> QED BY <2>1 DEF AccountInv, AccountTypes, Row, AllClear, Clears, Warned, Owned, OneOwner,
       RowOwns, ThreadOwns, CheckOwns, WebOwns, AllGood, WaitingAreOld, WaitingAreSpent, Old,
       Spent, Good, Working, NoThreadSaves, CheckKeeps, CheckHolds
<1> QED BY <1>1, <1>2, <1>3, <1>4, <1>5, <1>6 DEF Accounts!Next

-----------------------------------------------------------------------------
(* Publishing.  The shape of a recipe: one exchange publishes, nothing     *)
(* after it may raise, and a part the platform processes is waited for.    *)

Ops == {"check", "ask", "try", "vet", "stage", "put", "wait", "publish"}
Parts == 0..3
Exchanges == [op: Ops, part: Parts, named: BOOLEAN]

Before(r, i, op) == \E j \in 1..(i - 1) : r[j].op = op

Shaped(r) ==
  /\ r \in Seq(Exchanges)
  /\ \E i \in 1..Len(r) : r[i].op = "publish"
  /\ \A i \in 1..Len(r) : Before(r, i, "publish") => r[i].op = "try"
  /\ \A i \in 1..Len(r) : r[i].op = "stage" => r[i].part # 0

\* A part that is published has been waited for.
Waits(r) ==
  \A i \in 1..Len(r) : r[i].op = "publish" =>
    \E j \in 1..(i - 1) : r[j].op = "wait" /\ r[j].part = r[i].part

Prelude(r) ==
  /\ r \in Seq(Exchanges)
  /\ \A i \in 1..Len(r) : r[i].op # "publish" /\ (r[i].op = "stage" => r[i].part # 0)

LEMMA PreludeJoins ==
  ASSUME NEW s, NEW t, Prelude(s), Prelude(t)
  PROVE  Prelude(s \o t)
BY DEF Prelude

LEMMA PreludeShapes ==
  ASSUME NEW s, NEW t, Prelude(s), Shaped(t)
  PROVE  Shaped(s \o t) /\ (Waits(t) => Waits(s \o t))
<1> DEFINE r == s \o t
           n == Len(s)
<1>1. s \in Seq(Exchanges) /\ t \in Seq(Exchanges) /\ n \in Nat /\ Len(t) \in Nat
  BY DEF Prelude, Shaped
<1>2. r \in Seq(Exchanges) /\ Len(r) = n + Len(t)
  BY <1>1
<1>3. \A i \in 1..n : r[i] = s[i]
  BY <1>1
<1>4. \A i \in 1..Len(t) : r[n + i] = t[i]
  BY <1>1
<1>5. \A i \in 1..Len(r) : i \notin 1..n => i - n \in 1..Len(t) /\ r[i] = t[i - n]
  BY <1>1, <1>2, <1>4
<1> HIDE DEF r
<1>6. \E i \in 1..Len(r) : r[i].op = "publish"
  <2>1. PICK i \in 1..Len(t) : t[i].op = "publish"
    BY DEF Shaped
  <2>2. n + i \in 1..Len(r) /\ r[n + i].op = "publish"
    BY <1>1, <1>2, <1>4, <2>1
  <2> QED BY <2>2
<1>7. ASSUME NEW i \in 1..Len(r), Before(r, i, "publish") PROVE r[i].op = "try"
  <2>1. PICK j \in 1..(i - 1) : r[j].op = "publish"
    BY <1>7 DEF Before
  <2>2. j \in 1..Len(r) /\ j \notin 1..n /\ i \notin 1..n
    BY <1>1, <1>2, <1>3, <2>1 DEF Prelude
  <2>3. /\ i - n \in 1..Len(t) /\ r[i] = t[i - n]
        /\ j - n \in 1..((i - n) - 1) /\ t[j - n].op = "publish"
    BY <1>1, <1>5, <2>1, <2>2
  <2>4. Before(t, i - n, "publish")
    BY <2>3 DEF Before
  <2> QED BY <2>3, <2>4 DEF Shaped
<1>8. ASSUME NEW i \in 1..Len(r), r[i].op = "stage" PROVE r[i].part # 0
  BY <1>1, <1>2, <1>3, <1>5, <1>8 DEF Prelude, Shaped
<1>9. ASSUME Waits(t), NEW i \in 1..Len(r), r[i].op = "publish"
      PROVE  \E j \in 1..(i - 1) : r[j].op = "wait" /\ r[j].part = r[i].part
  <2>1. i \notin 1..n /\ i - n \in 1..Len(t) /\ r[i] = t[i - n]
    BY <1>1, <1>2, <1>3, <1>5, <1>9 DEF Prelude
  <2>2. PICK j \in 1..((i - n) - 1) : t[j].op = "wait" /\ t[j].part = t[i - n].part
    BY <1>9, <2>1 DEF Waits
  <2>3. n + j \in 1..(i - 1) /\ r[n + j] = t[j]
    BY <1>1, <1>4, <2>1, <2>2
  <2> QED BY <2>1, <2>2, <2>3
<1> QED BY <1>2, <1>6, <1>7, <1>8, <1>9 DEF Shaped, Waits, r

LEMMA PlainShapes ==
  /\ Shaped(Publishing!LinkedInText)
  /\ Shaped(Publishing!LinkedInCompanyText)
  /\ Shaped(Publishing!LinkedInArticle)
  /\ Shaped(Publishing!LinkedInPoll)
  /\ Shaped(Publishing!LinkedInImage)
  /\ Shaped(Publishing!LinkedInVideo)
  /\ Shaped(Publishing!InstagramSingle)
  /\ Shaped(Publishing!InstagramLoginSingle)
  /\ Shaped(Publishing!ThreadsText)
  /\ Shaped(Publishing!ThreadsMedia)
  /\ Shaped(Publishing!ThreadsCarousel)
  /\ Shaped(Publishing!FacebookText)
  /\ Shaped(Publishing!FacebookPhoto)
  /\ Shaped(Publishing!FacebookVideo)
  /\ Shaped(Publishing!TikTokFile)
  /\ Shaped(Publishing!TikTokPull)
  /\ Shaped(Publishing!YouTubeVideo)
  /\ Shaped(Publishing!PinterestImage)
  /\ Shaped(Publishing!PinterestVideo)
  /\ Shaped(Publishing!DevtoArticle)
  /\ Shaped(Publishing!GoogleBusinessPost)
  /\ Shaped(Publishing!LinkedInComment)
  /\ Shaped(Publishing!LinkedInReply)
  /\ Shaped(Publishing!ThreadsComment)
  /\ Shaped(Publishing!InstagramComment)
  /\ Shaped(Publishing!MastodonReply)
<1> USE DEF Publishing!Exchange, Publishing!Check, Publishing!Ask, Publishing!Try, Publishing!Vet, Publishing!Stage, Publishing!Put, Publishing!Wait, Publishing!Publish, Publishing!PublishNamed, Publishing!Whole,
  Shaped, Before, Exchanges, Ops, Parts
<1>1. Shaped(Publishing!LinkedInText) BY DEF Publishing!LinkedInText
<1>2. Shaped(Publishing!LinkedInCompanyText) BY DEF Publishing!LinkedInCompanyText
<1>3. Shaped(Publishing!LinkedInArticle) BY DEF Publishing!LinkedInArticle
<1>4. Shaped(Publishing!LinkedInPoll) BY DEF Publishing!LinkedInPoll
<1>5. Shaped(Publishing!LinkedInImage) BY DEF Publishing!LinkedInImage
<1>6. Shaped(Publishing!LinkedInVideo) BY DEF Publishing!LinkedInVideo
<1>7. Shaped(Publishing!InstagramSingle) BY DEF Publishing!InstagramSingle
<1>8. Shaped(Publishing!InstagramLoginSingle) BY DEF Publishing!InstagramLoginSingle
<1>9. Shaped(Publishing!ThreadsText) BY DEF Publishing!ThreadsText
<1>10. Shaped(Publishing!ThreadsMedia) BY DEF Publishing!ThreadsMedia
<1>11. Shaped(Publishing!ThreadsCarousel) BY DEF Publishing!ThreadsCarousel
<1>12. Shaped(Publishing!FacebookText) BY DEF Publishing!FacebookText
<1>13. Shaped(Publishing!FacebookPhoto) BY DEF Publishing!FacebookPhoto
<1>14. Shaped(Publishing!FacebookVideo) BY DEF Publishing!FacebookVideo
<1>15. Shaped(Publishing!TikTokFile) BY DEF Publishing!TikTokFile
<1>16. Shaped(Publishing!TikTokPull) BY DEF Publishing!TikTokPull
<1>17. Shaped(Publishing!YouTubeVideo) BY DEF Publishing!YouTubeVideo
<1>18. Shaped(Publishing!PinterestImage) BY DEF Publishing!PinterestImage
<1>19. Shaped(Publishing!PinterestVideo) BY DEF Publishing!PinterestVideo
<1>20. Shaped(Publishing!DevtoArticle) BY DEF Publishing!DevtoArticle
<1>21. Shaped(Publishing!GoogleBusinessPost) BY DEF Publishing!GoogleBusinessPost
<1>22. Shaped(Publishing!LinkedInComment) BY DEF Publishing!LinkedInComment
<1>23. Shaped(Publishing!LinkedInReply) BY DEF Publishing!LinkedInReply
<1>24. Shaped(Publishing!ThreadsComment) BY DEF Publishing!ThreadsComment
<1>25. Shaped(Publishing!InstagramComment) BY DEF Publishing!InstagramComment
<1>26. Shaped(Publishing!MastodonReply) BY DEF Publishing!MastodonReply
<1> QED BY <1>1, <1>2, <1>3, <1>4, <1>5, <1>6, <1>7, <1>8, <1>9, <1>10, <1>11, <1>12, <1>13, <1>14, <1>15, <1>16, <1>17, <1>18, <1>19, <1>20, <1>21, <1>22, <1>23, <1>24, <1>25, <1>26

LEMMA PlainWaits ==
  /\ Waits(Publishing!LinkedInVideo)
  /\ Waits(Publishing!InstagramSingle)
  /\ Waits(Publishing!InstagramLoginSingle)
  /\ Waits(Publishing!ThreadsMedia)
  /\ Waits(Publishing!ThreadsCarousel)
<1> USE DEF Publishing!Exchange, Publishing!Check, Publishing!Ask, Publishing!Try, Publishing!Vet, Publishing!Stage, Publishing!Put, Publishing!Wait, Publishing!Publish, Publishing!PublishNamed, Publishing!Whole, Waits
<1>1. Waits(Publishing!LinkedInVideo) BY DEF Publishing!LinkedInVideo
<1>2. Waits(Publishing!InstagramSingle) BY DEF Publishing!InstagramSingle
<1>3. Waits(Publishing!InstagramLoginSingle) BY DEF Publishing!InstagramLoginSingle
<1>4. Waits(Publishing!ThreadsMedia) BY DEF Publishing!ThreadsMedia
<1>5. Waits(Publishing!ThreadsCarousel) BY DEF Publishing!ThreadsCarousel
<1> QED BY <1>1, <1>2, <1>3, <1>4, <1>5

\* The recipes with a part per attachment.
LEMMA JoinedShapes ==
  /\ Shaped(Publishing!InstagramCarousel) /\ Waits(Publishing!InstagramCarousel)
  /\ Shaped(Publishing!InstagramLoginCarousel) /\ Waits(Publishing!InstagramLoginCarousel)
  /\ Shaped(Publishing!FacebookPhotos)
  /\ Shaped(Publishing!BlueskyPost)
  /\ Shaped(Publishing!MastodonStatus)
<1> DEFINE Pair(i) == <<Publishing!Stage(i), Publishing!Wait(i)>>
           tail == <<Publishing!Stage(Publishing!Whole), Publishing!Wait(Publishing!Whole),
                     Publishing!Publish(Publishing!Whole)>>
<1>1. /\ Prelude(Pair(1)) /\ Prelude(Pair(2))
      /\ Prelude(<<Publishing!Stage(1)>>) /\ Prelude(<<Publishing!Stage(2)>>)
      /\ Prelude(<<Publishing!Check>>)
      /\ Prelude(<<Publishing!Check, Publishing!Ask, Publishing!Try>>)
  BY DEF Publishing!Exchange, Publishing!Check, Publishing!Ask, Publishing!Try, Publishing!Stage,
     Publishing!Wait, Prelude, Exchanges, Ops, Parts
<1>2. Shaped(tail) /\ Shaped(<<Publishing!PublishNamed(0)>>) /\ Shaped(<<Publishing!Publish(0)>>)
  BY DEF Publishing!Exchange, Publishing!Stage, Publishing!Wait, Publishing!Publish,
     Publishing!PublishNamed, Publishing!Whole, Shaped, Before, Exchanges, Ops, Parts
<1>3. Waits(tail)
  BY DEF Publishing!Exchange, Publishing!Stage, Publishing!Wait, Publishing!Publish,
     Publishing!Whole, Waits
<1> DEFINE pairs == Pair(1) \o Pair(2)
           stages == <<Publishing!Stage(1)>> \o <<Publishing!Stage(2)>>
<1>4. Publishing!InstagramCarousel = pairs \o tail
  BY DEF Publishing!InstagramCarousel, Publishing!PerMedia
<1>5. Publishing!InstagramLoginCarousel = (<<Publishing!Check>> \o pairs) \o tail
  BY DEF Publishing!InstagramLoginCarousel, Publishing!PerMedia
<1>6. /\ Publishing!FacebookPhotos = (<<Publishing!Check>> \o stages) \o <<Publishing!PublishNamed(0)>>
      /\ Publishing!BlueskyPost =
           (<<Publishing!Check, Publishing!Ask, Publishing!Try>> \o stages) \o <<Publishing!Publish(0)>>
      /\ Publishing!MastodonStatus = stages \o <<Publishing!PublishNamed(0)>>
  BY DEF Publishing!FacebookPhotos, Publishing!BlueskyPost, Publishing!MastodonStatus,
     Publishing!PerMedia
<1> HIDE DEF Pair, tail
<1>7. Prelude(pairs) /\ Prelude(stages)
  BY <1>1, PreludeJoins
<1> HIDE DEF pairs, stages
<1>8. /\ Prelude(<<Publishing!Check>> \o pairs) /\ Prelude(<<Publishing!Check>> \o stages)
      /\ Prelude(<<Publishing!Check, Publishing!Ask, Publishing!Try>> \o stages)
  BY <1>1, <1>7, PreludeJoins
<1> QED BY <1>2, <1>3, <1>4, <1>5, <1>6, <1>7, <1>8, PreludeShapes

LEMMA RecipeShapes ==
  /\ \A r \in Publishing!Recipes : Shaped(r)
  /\ \A r \in Publishing!Processed : Waits(r)
BY PlainShapes, PlainWaits, JoinedShapes DEF Publishing!Recipes, Publishing!Processed

\* Where a call stands: what it has published so far is known from its place.
Gone == IF Before(recipe, at, "publish") THEN 1 ELSE 0

Balance ==
  /\ phase = "idle" => visible = told.visible /\ unheard = told.unheard
  /\ phase # "idle" /\ raised = "none" =>
       visible = told.visible + Gone /\ unheard = told.unheard
  /\ phase # "idle" /\ raised = "refused" =>
       \/ visible = told.visible /\ unheard = told.unheard
       \/ visible = told.visible + 1 /\ unheard = told.unheard + 1
  /\ phase # "idle" /\ raised = "rejected" => visible = told.visible /\ unheard = told.unheard

Course ==
  /\ phase = "idle" => temp = {} /\ (Publishing!Undoes /\ told.answer \in {"refused", "rejected"} => known = {})
  /\ phase # "idle" => calls < MaxCalls /\ told.answer \in {"none", "refused"}
  /\ phase = "fetching" => at = 1 /\ raised = "none" /\ known = {}
  /\ phase = "calling" => at <= Len(recipe) /\ raised = "none"
  /\ phase = "tidying" => raised # "none" /\ Publishing!Undoes
  /\ phase = "closing" => IF raised = "none" THEN at = Len(recipe) + 1
                                             ELSE Publishing!Undoes => known = {}

\* The waits behind the call have found their part processed.
Waited == phase = "calling" =>
  \A i \in 1..(at - 1) : recipe[i].op = "wait" => recipe[i].part \in ready

PublishTypes ==
  /\ recipe \in Publishing!Recipes
  /\ calls \in 0..MaxCalls
  /\ phase \in Publishing!Phases
  /\ at \in 1..(Len(recipe) + 1)
  /\ raised \in Publishing!Errors
  /\ known \subseteq 1..3 /\ staged \subseteq 1..3 /\ ready \subseteq 1..3
  /\ temp \subseteq Publishing!Media
  /\ visible \in Nat /\ unheard \in 0..visible
  /\ told \in [answer: Publishing!Errors \cup {"accepted"}, visible: 0..MaxCalls, unheard: 0..MaxCalls]
  /\ told.visible <= calls /\ told.unheard <= told.visible

PublishInv == PublishTypes /\ Balance /\ Course /\ Waited

\* Before and after an exchange that goes on.
LEMMA StepShape ==
  ASSUME PublishTypes, phase = "calling", Course
  PROVE  /\ at \in 1..Len(recipe) /\ Len(recipe) \in Nat
         /\ recipe[at] \in Exchanges
         /\ Before(recipe, at, "publish") => recipe[at].op = "try"
         /\ Before(recipe, at + 1, "publish") <=>
              Before(recipe, at, "publish") \/ recipe[at].op = "publish"
         /\ Before(recipe, Len(recipe) + 1, "publish")
         /\ recipe[at].op = "stage" => recipe[at].part \in 1..3
<1>1. Shaped(recipe)
  BY RecipeShapes DEF PublishTypes
<1>2. recipe \in Seq(Exchanges) /\ Len(recipe) \in Nat
  BY <1>1 DEF Shaped
<1>3. at \in 1..Len(recipe)
  BY <1>2 DEF PublishTypes, Course
<1>4. recipe[at] \in Exchanges
  BY <1>2, <1>3
<1>5. Before(recipe, at, "publish") => recipe[at].op = "try"
  BY <1>1, <1>3 DEF Shaped
<1>6. Before(recipe, at + 1, "publish") <=> Before(recipe, at, "publish") \/ recipe[at].op = "publish"
  <2>1. \A j : j \in 1..((at + 1) - 1) <=> j \in 1..(at - 1) \/ j = at
    BY <1>3
  <2> QED BY <2>1 DEF Before
<1>7. Before(recipe, Len(recipe) + 1, "publish")
  BY <1>1, <1>2 DEF Shaped, Before
<1>8. recipe[at].op = "stage" => recipe[at].part \in 1..3
  BY <1>1, <1>3, <1>4 DEF Shaped, Exchanges, Parts
<1> QED BY <1>2, <1>3, <1>4, <1>5, <1>6, <1>7, <1>8

LEMMA Proceeds ==
  ASSUME PublishInv, phase = "calling", Publishing!Proceed,
         UNCHANGED <<recipe, calls, told, temp, unheard>>,
         visible' = IF recipe[at].op = "publish" THEN visible + 1 ELSE visible,
         known' \subseteq 1..3, staged' \subseteq 1..3, ready' \subseteq 1..3, ready \subseteq ready',
         recipe[at].op = "wait" => recipe[at].part \in ready'
  PROVE  PublishInv'
<1>0. PublishTypes /\ Balance /\ Course /\ Waited
  BY DEF PublishInv
<1>1. /\ at \in 1..Len(recipe) /\ Len(recipe) \in Nat
      /\ Before(recipe, at, "publish") => recipe[at].op = "try"
      /\ Before(recipe, at + 1, "publish") <=>
           Before(recipe, at, "publish") \/ recipe[at].op = "publish"
      /\ Before(recipe, Len(recipe) + 1, "publish")
  BY <1>0, StepShape
<1>2. /\ at' = at + 1 /\ raised' = "none" /\ raised = "none"
      /\ phase' = IF at = Len(recipe) THEN "closing" ELSE "calling"
  BY <1>0 DEF Publishing!Proceed, Course
<1>3. visible' \in Nat /\ visible <= visible'
  BY <1>0 DEF PublishTypes
<1>4. PublishTypes'
  <2>1. at' \in 1..(Len(recipe) + 1) /\ phase' \in Publishing!Phases
    BY <1>1, <1>2 DEF Publishing!Phases
  <2>2. unheard' \in 0..visible'
    BY <1>0, <1>3 DEF PublishTypes
  <2> QED BY <1>0, <1>2, <1>3, <2>1, <2>2 DEF PublishTypes
<1>5. Balance'
  <2>1. Gone' = IF Before(recipe, at + 1, "publish") THEN 1 ELSE 0
    BY <1>2 DEF Gone
  <2>2. visible = told.visible + Gone /\ unheard = told.unheard
    BY <1>0, <1>2 DEF Balance
  <2>3. told.visible \in Nat /\ visible \in Nat
    BY <1>0 DEF PublishTypes
  <2>4. visible' = told.visible + Gone'
    <3>1. CASE recipe[at].op = "publish"
      BY <1>1, <2>1, <2>2, <2>3, <3>1 DEF Gone
    <3>2. CASE recipe[at].op # "publish"
      BY <1>1, <2>1, <2>2, <2>3, <3>2 DEF Gone
    <3> QED BY <3>1, <3>2
  <2>5. phase' # "idle"
    BY <1>2
  <2> QED BY <1>2, <2>2, <2>4, <2>5 DEF Balance
<1>6. Course'
  BY <1>0, <1>1, <1>2 DEF Course
<1>7. Waited'
  <2> SUFFICES ASSUME NEW i \in 1..((at + 1) - 1), recipe[i].op = "wait"
               PROVE  recipe[i].part \in ready'
    BY <1>2 DEF Waited
  <2>1. i \in 1..(at - 1) \/ i = at
    BY <1>1
  <2> QED BY <1>0, <2>1 DEF Waited
<1> QED BY <1>4, <1>5, <1>6, <1>7 DEF PublishInv

LEMMA Raises ==
  ASSUME PublishInv, phase = "calling", NEW e \in {"refused", "rejected"}, Publishing!Raise(e),
         recipe[at].op # "try", UNCHANGED <<recipe, calls, told, temp, ready, known>>,
         \/ UNCHANGED <<visible, unheard>>
         \/ e = "refused" /\ visible' = visible + 1 /\ unheard' = unheard + 1,
         staged' \subseteq 1..3
  PROVE  PublishInv'
<1>0. PublishTypes /\ Balance /\ Course /\ Waited
  BY DEF PublishInv
<1>1. ~Before(recipe, at, "publish")
  BY <1>0, StepShape
<1>2. /\ at' = at /\ raised' = e /\ raised = "none"
      /\ phase' = IF Publishing!Undoes THEN "tidying" ELSE "closing"
  BY <1>0 DEF Publishing!Raise, Course
<1>3. visible = told.visible /\ unheard = told.unheard
  BY <1>0, <1>1, <1>2 DEF Balance, Gone, PublishTypes
<1>4. PublishTypes'
  <2>1. raised' \in Publishing!Errors /\ phase' \in Publishing!Phases
    BY <1>2 DEF Publishing!Errors, Publishing!Phases
  <2>2. visible' \in Nat /\ unheard' \in 0..visible'
    BY <1>0 DEF PublishTypes
  <2> QED BY <1>0, <1>2, <2>1, <2>2 DEF PublishTypes
<1>5. phase' \in {"tidying", "closing"} /\ raised' # "none"
  BY <1>2
<1>6. Balance'
  BY <1>2, <1>3, <1>5 DEF Balance
<1>7. Course'
  BY <1>0, <1>2, <1>5 DEF Course, Publishing!Undoes
<1>8. Waited'
  BY <1>5 DEF Waited
<1> QED BY <1>4, <1>6, <1>7, <1>8 DEF PublishInv

\* An answer says what the call has put on the platform, except for a reply
\* that went missing.
Answers ==
  /\ calls < MaxCalls /\ calls' = calls + 1
  /\ told.answer \in {"none", "refused"}
  /\ told'.visible = visible /\ told'.unheard = unheard
  /\ \/ raised = "none" /\ told'.answer = "accepted"
          /\ visible = told.visible + 1 /\ unheard = told.unheard
     \/ raised = "refused" /\ told'.answer = "refused"
          /\ visible = told.visible /\ unheard = told.unheard
     \/ raised = "refused" /\ told'.answer = "refused"
          /\ visible = told.visible + 1 /\ unheard = told.unheard + 1
     \/ raised = "rejected" /\ told'.answer = "rejected"
          /\ visible = told.visible /\ unheard = told.unheard

LEMMA CloseAnswers == PublishInv /\ Publishing!Close => Answers
<1> SUFFICES ASSUME PublishInv, Publishing!Close PROVE Answers
  OBVIOUS
<1>0. PublishTypes /\ Balance /\ Course
  BY DEF PublishInv
<1>1. /\ phase = "closing" /\ calls' = calls + 1
      /\ told' = [answer |-> IF raised = "none" THEN "accepted" ELSE raised,
                  visible |-> visible, unheard |-> unheard]
  BY DEF Publishing!Close, Publishing!Answered
<1>2. /\ told'.visible = visible /\ told'.unheard = unheard
      /\ told'.answer = IF raised = "none" THEN "accepted" ELSE raised
  BY <1>1
<1>3. calls < MaxCalls /\ told.answer \in {"none", "refused"}
  BY <1>0, <1>1 DEF Course
<1>4. CASE raised = "none"
  <2>1. Before(recipe, at, "publish")
    <3>1. at = Len(recipe) + 1 /\ Shaped(recipe)
      BY <1>0, <1>1, <1>4, RecipeShapes DEF Course, PublishTypes
    <3> QED BY <3>1 DEF Shaped, Before
  <2>2. visible = told.visible + 1 /\ unheard = told.unheard
    BY <1>0, <1>1, <1>4, <2>1 DEF Balance, Gone
  <2> QED BY <1>1, <1>2, <1>3, <1>4, <2>2 DEF Answers
<1>5. CASE raised = "refused"
  BY <1>0, <1>1, <1>2, <1>3, <1>5 DEF Answers, Balance
<1>6. CASE raised = "rejected"
  BY <1>0, <1>1, <1>2, <1>3, <1>6 DEF Answers, Balance
<1> QED BY <1>0, <1>4, <1>5, <1>6 DEF PublishTypes, Publishing!Errors

LEMMA CloseKeeps == PublishInv /\ Publishing!Close => PublishInv'
<1> SUFFICES ASSUME PublishInv, Publishing!Close PROVE PublishInv'
  OBVIOUS
<1>0. PublishTypes /\ Balance /\ Course
  BY DEF PublishInv
<1>1. Answers
  BY CloseAnswers
<1>2. /\ phase = "closing" /\ phase' = "idle" /\ temp' = {}
      /\ told' = [answer |-> IF raised = "none" THEN "accepted" ELSE raised,
                  visible |-> visible, unheard |-> unheard]
      /\ UNCHANGED <<recipe, at, raised, known, staged, ready, visible, unheard>>
  BY DEF Publishing!Close, Publishing!Answered, Publishing!platformVars
<1>3. calls \in Nat /\ calls' \in 0..MaxCalls /\ visible \in Nat /\ visible <= calls' /\ unheard \in 0..visible
  BY <1>0, <1>1, BoundAssumption DEF PublishTypes, Answers
<1>4. told' \in [answer: Publishing!Errors \cup {"accepted"}, visible: 0..MaxCalls, unheard: 0..MaxCalls]
  <2>1. visible \in 0..MaxCalls /\ unheard \in 0..MaxCalls
    BY <1>3, BoundAssumption
  <2>2. (IF raised = "none" THEN "accepted" ELSE raised) \in Publishing!Errors \cup {"accepted"}
    BY <1>0 DEF PublishTypes
  <2> QED BY <1>2, <2>1, <2>2
<1>5. told'.visible = visible /\ told'.unheard = unheard
  BY <1>1 DEF Answers
<1>6. PublishTypes'
  BY <1>0, <1>2, <1>3, <1>4, <1>5 DEF PublishTypes, Publishing!Phases
<1>7. Balance'
  BY <1>2, <1>5 DEF Balance
<1>8. Course' /\ Waited'
  <2>1. told'.answer \in {"refused", "rejected"} => raised # "none"
    BY <1>2
  <2> QED BY <1>0, <1>2, <2>1 DEF Course, Waited, Publishing!Undoes
<1> QED BY <1>6, <1>7, <1>8 DEF PublishInv

LEMMA PublishInit == Publishing!Init => PublishInv
<1> SUFFICES ASSUME Publishing!Init PROVE PublishInv
  OBVIOUS
<1>1. recipe \in Seq(Exchanges) /\ Len(recipe) \in Nat
  BY RecipeShapes DEF Publishing!Init, Shaped
<1>2. PublishTypes
  BY <1>1, BoundAssumption DEF Publishing!Init, PublishTypes, Publishing!Phases, Publishing!Errors
<1>3. Balance /\ Course /\ Waited
  BY DEF Publishing!Init, Balance, Course, Waited
<1> QED BY <1>2, <1>3 DEF PublishInv

LEMMA PublishNext == PublishInv /\ [Publishing!Next]_Publishing!vars => PublishInv'
<1> SUFFICES ASSUME PublishInv, [Publishing!Next]_Publishing!vars PROVE PublishInv'
  OBVIOUS
<1>0. PublishTypes /\ Balance /\ Course /\ Waited
  BY DEF PublishInv
<1> USE DEF Publishing!callerVars, Publishing!platformVars
<1>1. CASE Publishing!Dispatch
  <2>1. /\ phase = "idle" /\ calls < MaxCalls /\ told.answer \in {"none", "refused"}
        /\ phase' = "fetching" /\ at' = 1 /\ raised' = "none"
        /\ known' = {} /\ staged' = {} /\ ready' = {}
        /\ UNCHANGED <<recipe, calls, told, visible, unheard, temp>>
    BY <1>1 DEF Publishing!Dispatch
  <2>2. Len(recipe) \in Nat
    BY <1>0, RecipeShapes DEF PublishTypes, Shaped
  <2>3. PublishTypes'
    BY <1>0, <2>1, <2>2 DEF PublishTypes, Publishing!Phases, Publishing!Errors
  <2>4. Gone' = 0
    BY <2>1 DEF Gone, Before
  <2>5. Balance'
    BY <1>0, <2>1, <2>4 DEF Balance, PublishTypes
  <2>6. Course' /\ Waited'
    BY <2>1 DEF Course, Waited
  <2> QED BY <2>3, <2>5, <2>6 DEF PublishInv
<1>2. CASE Publishing!FetchMedia
  <2>1. /\ phase = "fetching" /\ temp' \subseteq Publishing!Media
        /\ \/ phase' = "fetching" /\ raised' = raised
           \/ phase' = "closing" /\ raised' = "refused"
        /\ UNCHANGED <<recipe, calls, told, at, known, staged, ready, visible, unheard>>
    BY <1>0, <1>2 DEF Publishing!FetchMedia, PublishTypes
  <2>2. PublishTypes'
    BY <1>0, <2>1 DEF PublishTypes, Publishing!Phases, Publishing!Errors
  <2>3. Gone' = Gone /\ Gone = 0
    BY <1>0, <2>1 DEF Gone, Before, Course
  <2>4. Balance'
    BY <1>0, <2>1, <2>3 DEF Balance, Course, PublishTypes
  <2>5. Course' /\ Waited'
    BY <1>0, <2>1 DEF Course, Waited
  <2> QED BY <2>2, <2>4, <2>5 DEF PublishInv
<1>3. CASE Publishing!BuildContent
  <2>1. /\ phase = "fetching" /\ phase' = "calling"
        /\ UNCHANGED <<recipe, calls, told, at, raised, known, staged, ready, visible, unheard, temp>>
    BY <1>3 DEF Publishing!BuildContent
  <2>2. PublishTypes'
    BY <1>0, <2>1 DEF PublishTypes, Publishing!Phases
  <2>3. Balance'
    BY <1>0, <2>1 DEF Balance, Gone
  <2>4. Len(recipe) >= 1
    BY <1>0, RecipeShapes DEF PublishTypes, Shaped
  <2>5. Course' /\ Waited'
    BY <1>0, <2>1, <2>4 DEF Course, Waited
  <2> QED BY <2>2, <2>3, <2>5 DEF PublishInv
<1>4. CASE \/ Publishing!LocalCheck \/ Publishing!LookUp \/ Publishing!VetCreator
           \/ Publishing!PutBytes
  <2>1. /\ phase = "calling" /\ recipe[at].op \in {"check", "ask", "vet", "put"}
        /\ Publishing!Proceed \/ Publishing!Raise("refused") \/ Publishing!Raise("rejected")
        /\ UNCHANGED <<recipe, calls, told, known, staged, ready, visible, unheard, temp>>
    BY <1>4 DEF Publishing!LocalCheck, Publishing!LookUp, Publishing!VetCreator,
       Publishing!PutBytes, Publishing!Doing, Publishing!Step
  <2>2. known' \subseteq 1..3 /\ staged' \subseteq 1..3 /\ ready' \subseteq 1..3
    BY <1>0, <2>1 DEF PublishTypes
  <2>3. CASE Publishing!Proceed
    BY <2>1, <2>2, <2>3, Proceeds
  <2>4. CASE Publishing!Raise("refused") \/ Publishing!Raise("rejected")
    BY <2>1, <2>2, <2>4, Raises
  <2> QED BY <2>1, <2>3, <2>4
<1>5. CASE Publishing!BestEffort
  <2>1. /\ phase = "calling" /\ recipe[at].op = "try" /\ Publishing!Proceed
        /\ UNCHANGED <<recipe, calls, told, known, staged, ready, visible, unheard, temp>>
    BY <1>5 DEF Publishing!BestEffort, Publishing!Doing, Publishing!Step
  <2>2. known' \subseteq 1..3 /\ staged' \subseteq 1..3 /\ ready' \subseteq 1..3
    BY <1>0, <2>1 DEF PublishTypes
  <2> QED BY <2>1, <2>2, Proceeds
<1>6. CASE Publishing!StagePart
  <2>1. /\ phase = "calling" /\ recipe[at].op = "stage"
        /\ UNCHANGED <<recipe, calls, told, ready, visible, unheard, temp>>
    BY <1>6 DEF Publishing!StagePart, Publishing!Doing, Publishing!Step
  <2>2. /\ staged' = staged \/ staged' = staged \cup {recipe[at].part}
        /\ known' = known \/ known' = known \cup {recipe[at].part}
        /\ \/ Publishing!Proceed
           \/ known' = known /\ (Publishing!Raise("refused") \/ Publishing!Raise("rejected"))
    BY <1>6 DEF Publishing!StagePart, Publishing!Step
  <2>3. known' \subseteq 1..3 /\ staged' \subseteq 1..3 /\ ready' \subseteq 1..3
    BY <1>0, <2>1, <2>2, StepShape DEF PublishTypes
  <2>4. CASE Publishing!Proceed
    BY <2>1, <2>3, <2>4, Proceeds
  <2>5. CASE known' = known /\ (Publishing!Raise("refused") \/ Publishing!Raise("rejected"))
    BY <2>1, <2>3, <2>5, Raises
  <2> QED BY <2>2, <2>4, <2>5
<1>7. CASE Publishing!Process
  <2>1. /\ phase = "calling" /\ ready \subseteq ready' /\ ready' \subseteq ready \cup staged
        /\ UNCHANGED <<recipe, calls, told, phase, at, raised, known, staged, visible, unheard, temp>>
    BY <1>7 DEF Publishing!Process
  <2>2. PublishTypes'
    BY <1>0, <2>1 DEF PublishTypes
  <2>3. Balance' /\ Course' /\ Waited'
    BY <1>0, <2>1 DEF Balance, Gone, Course, Waited, Publishing!Undoes
  <2> QED BY <2>2, <2>3 DEF PublishInv
<1>8. CASE Publishing!WaitForPart
  <2>1. /\ phase = "calling" /\ recipe[at].op = "wait"
        /\ \/ recipe[at].part \in ready /\ Publishing!Proceed
           \/ Publishing!Raise("refused")
        /\ UNCHANGED <<recipe, calls, told, known, staged, ready, visible, unheard, temp>>
    BY <1>8 DEF Publishing!WaitForPart, Publishing!Doing, Publishing!Step
  <2>2. known' \subseteq 1..3 /\ staged' \subseteq 1..3 /\ ready' \subseteq 1..3
    BY <1>0, <2>1 DEF PublishTypes
  <2>3. CASE recipe[at].part \in ready /\ Publishing!Proceed
    BY <2>1, <2>2, <2>3, Proceeds
  <2>4. CASE Publishing!Raise("refused")
    BY <2>1, <2>2, <2>4, Raises
  <2> QED BY <2>1, <2>3, <2>4
<1>9. CASE Publishing!PublishIt
  <2>1. /\ phase = "calling" /\ recipe[at].op = "publish"
        /\ UNCHANGED <<recipe, calls, told, known, staged, ready, temp>>
    BY <1>9 DEF Publishing!PublishIt, Publishing!Doing, Publishing!Step
  <2>2. \/ visible' = visible + 1 /\ unheard' = unheard /\ Publishing!Proceed
        \/ visible' = visible + 1 /\ unheard' = unheard + 1 /\ Publishing!Raise("refused")
        \/ UNCHANGED <<visible, unheard>> /\ (Publishing!Raise("refused") \/ Publishing!Raise("rejected"))
    BY <1>9 DEF Publishing!PublishIt
  <2>3. known' \subseteq 1..3 /\ staged' \subseteq 1..3 /\ ready' \subseteq 1..3
    BY <1>0, <2>1 DEF PublishTypes
  <2>4. CASE visible' = visible + 1 /\ unheard' = unheard /\ Publishing!Proceed
    BY <2>1, <2>3, <2>4, Proceeds
  <2>5. CASE visible' = visible + 1 /\ unheard' = unheard + 1 /\ Publishing!Raise("refused")
    BY <2>1, <2>3, <2>5, Raises
  <2>6. CASE UNCHANGED <<visible, unheard>> /\ (Publishing!Raise("refused") \/ Publishing!Raise("rejected"))
    BY <2>1, <2>3, <2>6, Raises
  <2> QED BY <2>2, <2>4, <2>5, <2>6
<1>10. CASE Publishing!DeleteStaged
  <2>1. /\ phase = "tidying" /\ phase' \in {"tidying", "closing"}
        /\ phase' = "closing" => known' = {}
        /\ known' \subseteq known /\ staged' \subseteq staged
        /\ UNCHANGED <<recipe, calls, told, at, raised, ready, visible, unheard, temp>>
    BY <1>10 DEF Publishing!DeleteStaged
  <2>2. PublishTypes'
    BY <1>0, <2>1 DEF PublishTypes, Publishing!Phases
  <2>3. Balance'
    BY <1>0, <2>1 DEF Balance, Gone
  <2>4. Course' /\ Waited'
    BY <1>0, <2>1 DEF Course, Waited, Publishing!Undoes
  <2> QED BY <2>2, <2>3, <2>4 DEF PublishInv
<1>11. CASE Publishing!Close
  BY <1>0, <1>11, CloseKeeps
<1>12. CASE UNCHANGED Publishing!vars
  BY <1>12 DEF Publishing!vars, PublishInv, PublishTypes, Balance, Gone, Course, Waited,
     Publishing!Undoes
<1> QED BY <1>1, <1>2, <1>3, <1>4, <1>5, <1>6, <1>7, <1>8, <1>9, <1>10, <1>11, <1>12
        DEF Publishing!Next

-----------------------------------------------------------------------------
(* The three parts together. *)

PlatformsInv == PublishInv /\ AccountInv /\ ConnectInv

\* A step is a step of one part and leaves the others alone.
LEMMA StepsOfParts ==
  [Next]_vars => /\ [Publishing!Next]_Publishing!vars
                 /\ [Accounts!Next]_Accounts!vars
                 /\ [Connecting!Next]_Connecting!vars
BY DEF Next, vars, publishing, accounts, connecting, Publishing!vars, Accounts!vars, Connecting!vars

LEMMA PlatformsHold == Spec => []PlatformsInv
<1>1. Init => PlatformsInv
  BY PublishInit, AccountInit, ConnectInit DEF Init, PlatformsInv
<1>2. PlatformsInv /\ [Next]_vars => PlatformsInv'
  BY StepsOfParts, PublishNext, AccountNext, ConnectNext DEF PlatformsInv
<1> QED BY <1>1, <1>2, PTL DEF Spec

\* The variables of the three parts keep their types.
THEOREM PlatformTypes == Spec => []TypeOK
<1>1. PublishInv => Publishing!TypeOK
  <2> SUFFICES ASSUME PublishInv PROVE Publishing!TypeOK
    OBVIOUS
  <2>1. PublishTypes /\ Balance /\ Course
    BY DEF PublishInv
  <2>2. visible \in 0..MaxCalls
    <3>1. visible <= told.visible + 1 /\ (phase = "idle" => visible = told.visible)
      BY <2>1 DEF Balance, Gone, PublishTypes, Publishing!Errors
    <3>2. phase # "idle" => calls < MaxCalls
      BY <2>1 DEF Course
    <3> QED BY <2>1, <3>1, <3>2, BoundAssumption DEF PublishTypes
  <2>3. Publishing!Media \cup {Publishing!Whole} = 1..3
    BY DEF Publishing!Media, Publishing!Whole
  <2> QED BY <2>1, <2>2, <2>3 DEF PublishTypes, Publishing!TypeOK
<1>2. AccountInv => Accounts!TypeOK
  <2> SUFFICES ASSUME AccountInv PROVE Accounts!TypeOK
    OBVIOUS
  <2>1. AccountTypes
    BY DEF AccountInv
  <2>2. {account, mine, page} \cup {theirs[t] : t \in Threads} \subseteq Accounts!Account
    BY <2>1 DEF AccountTypes, Row
  <2>3. issued \in Accounts!Grants /\ honoured \subseteq Accounts!Grants
    BY <2>1, BoundAssumption DEF AccountTypes, Accounts!Grants
  <2> QED BY <2>1, <2>2, <2>3 DEF AccountTypes, Accounts!TypeOK
<1>3. ConnectInv => Connecting!TypeOK
  <2> SUFFICES ASSUME ConnectInv PROVE Connecting!TypeOK
    OBVIOUS
  <2>1. ConnectTypes
    BY DEF ConnectInv
  <2>2. \A b \in Browsers : session[b].flow \in [Connecting!Doors -> Flows]
    BY <2>1 DEF ConnectTypes, Sessions
  <2> QED BY <2>1, <2>2 DEF ConnectTypes, Connecting!TypeOK, Flows, Tickets
<1>4. PlatformsInv => TypeOK
  BY <1>1, <1>2, <1>3 DEF PlatformsInv, TypeOK
<1> QED BY <1>4, PlatformsHold, PTL

\* When a call of _dispatch_to_provider has ended, its temporary files are gone
\* and a failed multi-photo post has tried to delete every photo it knows of.
THEOREM CallsCleanUp == Spec => []NothingLeftBehind
<1>1. PlatformsInv => NothingLeftBehind
  BY DEF PlatformsInv, PublishInv, Course, NothingLeftBehind, Publishing!NothingLeftBehind
<1> QED BY <1>1, PlatformsHold, PTL

\* A refresh token stored while nobody is at work on the account is one the
\* platform accepts, for any number of publishing threads; a disconnected row
\* holds no token; an account is written by the browser that began its
\* authorization, for any number of browsers and requests.
THEOREM TokensStayGood == Spec => []TokensAreKept
<1>1. AccountInv => Accounts!StoredRefreshIsHonoured
  <2> SUFFICES ASSUME AccountInv, clean, Accounts!Alone, account.refresh # 0
               PROVE  account.refresh \in honoured
    BY DEF Accounts!StoredRefreshIsHonoured
  <2>1. AccountTypes /\ Owned /\ job = "none" /\ web = "none"
    BY DEF AccountInv, Accounts!Alone
  <2>2. \A t \in Threads : thread[t] = "none"
    BY <2>1 DEF AccountTypes
  <2>3. ~ThreadOwns /\ ~CheckOwns /\ ~WebOwns
    BY <2>1, <2>2 DEF ThreadOwns, CheckOwns, CheckHolds, WebOwns
  <2>4. RowOwns \/ AllGood
    BY <2>1, <2>3 DEF Owned, OneOwner
  <2> QED BY <2>4 DEF RowOwns, AllGood, Good
<1>2. AccountInv => Accounts!DisconnectedHoldsNoToken
  BY DEF AccountInv, AllClear, Clears, Accounts!DisconnectedHoldsNoToken
<1>3. ConnectInv => Connecting!StaysWithItsFlow
  BY DEF ConnectInv
<1>4. PlatformsInv => TokensAreKept
  BY <1>1, <1>2, <1>3 DEF PlatformsInv, TokensAreKept
<1> QED BY <1>4, PlatformsHold, PTL

\* publish_post implements the one call the engine counts on: whatever sequence
\* of exchanges a platform takes, every answer is a step of ProviderCall, and
\* whatever happens between two answers is invisible.
THEOREM ExchangesAreOneCall == Spec => IsOneCall
<1>1. Init => Publishing!Call!Init
  BY DEF Init, Publishing!Init, Publishing!Call!Init
<1>2. PlatformsInv /\ [Next]_vars =>
        [Publishing!Call!Next]_<<calls, told.answer, told.visible, told.unheard>>
  <2> SUFFICES ASSUME PublishInv, [Publishing!Next]_Publishing!vars
               PROVE  [Publishing!Call!Next]_<<calls, told.answer, told.visible, told.unheard>>
    BY StepsOfParts DEF PlatformsInv
  <2>1. CASE Publishing!Close
    <3>1. Answers
      BY <2>1, CloseAnswers
    <3> QED BY <3>1 DEF Answers, Publishing!Call!Next, Publishing!Call!Accept,
            Publishing!Call!Refuse, Publishing!Call!Reject, Publishing!Call!Lose
  <2>2. CASE ~Publishing!Close
    <3>1. UNCHANGED <<calls, told>>
      BY <2>2 DEF Publishing!Next, Publishing!vars, Publishing!Dispatch, Publishing!FetchMedia,
         Publishing!BuildContent, Publishing!LocalCheck, Publishing!LookUp, Publishing!BestEffort,
         Publishing!VetCreator, Publishing!StagePart, Publishing!PutBytes, Publishing!Process,
         Publishing!WaitForPart, Publishing!PublishIt, Publishing!DeleteStaged,
         Publishing!callerVars
    <3> QED BY <3>1
  <2> QED BY <2>1, <2>2
<1> QED BY <1>1, <1>2, PlatformsHold, PTL DEF Spec, IsOneCall, Publishing!IsOneCall, Publishing!Call!Spec

\* The exchange that publishes a part the platform has to process comes after
\* the platform said the part is ready.
THEOREM ReadyBeforePublished == Spec => CommitsWhatIsReady
<1>1. PublishInv /\ [Publishing!Next]_Publishing!vars =>
        (recipe \in Publishing!Processed /\ visible' # visible => Publishing!Step.part \in ready)
  <2> SUFFICES ASSUME PublishInv, [Publishing!Next]_Publishing!vars,
                      recipe \in Publishing!Processed, visible' # visible
               PROVE  recipe[at].part \in ready
    BY DEF Publishing!Step
  <2>1. Publishing!PublishIt
    BY DEF Publishing!Next, Publishing!vars, Publishing!Dispatch, Publishing!FetchMedia,
       Publishing!BuildContent, Publishing!LocalCheck, Publishing!LookUp, Publishing!BestEffort,
       Publishing!VetCreator, Publishing!StagePart, Publishing!PutBytes, Publishing!Process,
       Publishing!WaitForPart, Publishing!DeleteStaged, Publishing!Close, Publishing!platformVars
  <2>2. phase = "calling" /\ recipe[at].op = "publish"
    BY <2>1 DEF Publishing!PublishIt, Publishing!Doing, Publishing!Step
  <2>3. at \in 1..Len(recipe) /\ Waited
    BY <2>2, StepShape DEF PublishInv
  <2>4. PICK i \in 1..(at - 1) : recipe[i].op = "wait" /\ recipe[i].part = recipe[at].part
    BY <2>2, <2>3, RecipeShapes DEF Waits
  <2> QED BY <2>2, <2>3, <2>4 DEF Waited
<1>2. PlatformsInv /\ [Next]_vars =>
        [(recipe \in Publishing!Processed /\ visible' # visible)
           => Publishing!Step.part \in ready]_Publishing!vars
  BY <1>1, StepsOfParts DEF PlatformsInv
<1> QED BY <1>2, PlatformsHold, PTL DEF Spec, CommitsWhatIsReady, Publishing!CommitsWhatIsReady

\* A health check whose refresh failed leaves a warning or an error in the row,
\* even when the profile call after it succeeds.
THEOREM FailedRefreshWarns == Spec => FailedRefreshIsShown
<1>1. AccountInv /\ [Accounts!Next]_Accounts!vars =>
        (job = "saving" /\ job' = "none" /\ failed => account'.status # "connected")
  <2> SUFFICES ASSUME AccountInv, [Accounts!Next]_Accounts!vars, job = "saving", job' = "none", failed
               PROVE  account'.status # "connected"
    OBVIOUS
  <2>1. Accounts!SaveCheck
    BY DEF Accounts!Next, Accounts!vars, Accounts!Age, Accounts!ScheduleChecks, Accounts!StartCheck,
       Accounts!PreserveManual, Accounts!CheckRefresh, Accounts!CheckProfile,
       Accounts!StartPublishing, Accounts!EndPublishing, Accounts!ReadAccount,
       Accounts!ThreadRefresh, Accounts!ThreadSave, Accounts!OpenComposer,
       Accounts!ComposerRefresh, Accounts!ComposerSave, Accounts!Revoke, Accounts!Disconnect,
       Accounts!OauthCallback, Accounts!SelectAccount, Accounts!ConnectBluesky,
       Accounts!ConnectDevto, Accounts!Authorized, Accounts!ConnectManually,
       Accounts!ListAccounts, Accounts!checkVars
  <2> QED BY <2>1 DEF Accounts!SaveCheck, AccountInv, Warned
<1>2. PlatformsInv /\ [Next]_vars =>
        [job = "saving" /\ job' = "none" /\ failed => account'.status # "connected"]_Accounts!vars
  BY <1>1, StepsOfParts DEF PlatformsInv
<1> QED BY <1>2, PlatformsHold, PTL DEF Spec, FailedRefreshIsShown, Accounts!FailedRefreshIsShown

=============================================================================
