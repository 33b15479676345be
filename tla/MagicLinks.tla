----------------------------- MODULE MagicLinks -----------------------------
(***************************************************************************)
(* The links that let a client into the portal without a password           *)
(* (apps/client_portal).  A manager sends a link, which ends the earlier    *)
(* ones; whoever posts it first gets a session of thirty days; removing     *)
(* the client ends the links before the membership.                         *)
(***************************************************************************)
EXTENDS Naturals

CONSTANTS Links, Requests, None

VARIABLES
  client,   \* the user has the client role in the workspace
  link,     \* MagicLinkToken rows: absent, valid or expired; used: is_consumed
  request,  \* requests at work
  opened,   \* history: sessions each link opened
  crossed   \* history: a link was sent beside another or beside a removal

vars == <<client, link, request, opened, crossed>>

Steps == {"idle", "expire", "create", "consume", "login", "remove"}
Idle == [step |-> "idle", link |-> None]

TypeOK ==
  /\ client \in BOOLEAN /\ crossed \in BOOLEAN
  /\ link \in [Links -> [state: {"absent", "valid", "expired"}, used: BOOLEAN]]
  /\ request \in [Requests -> [step: Steps, link: Links \cup {None}]]
  /\ opened \in [Links -> 0..2]

Init ==
  /\ client = TRUE
  /\ link = [l \in Links |-> [state |-> "absent", used |-> FALSE]]
  /\ request = [r \in Requests |-> Idle]
  /\ opened = [l \in Links |-> 0]
  /\ crossed = FALSE

At(r, step) == request[r].step = step
Go(r, step, l) == request' = [request EXCEPT ![r] = [step |-> step, link |-> l]]
End(r) == request' = [request EXCEPT ![r] = Idle]
Sending == \E r \in Requests : request[r].step \in {"expire", "create"}
Removing == \E r \in Requests : At(r, "remove")

\* Every link that is still open, used ones left as they are.
Expired(all) ==
  [l \in Links |-> IF link[l].state = "valid" /\ (all \/ ~link[l].used)
                   THEN [link[l] EXCEPT !.state = "expired"] ELSE link[l]]

-----------------------------------------------------------------------------
\* generate_magic_link checks the role ...
Generate(r) ==
  /\ At(r, "idle") /\ client
  /\ Go(r, "expire", None)
  /\ crossed' = (crossed \/ Sending \/ Removing)
  /\ UNCHANGED <<client, link, opened>>

\* ... expires the links not used ...
ExpireEarlier(r) ==
  /\ At(r, "expire") /\ Go(r, "create", None)
  /\ link' = Expired(FALSE)
  /\ UNCHANGED <<client, opened, crossed>>

\* ... and creates and mails a new one.
CreateLink(r, l) ==
  /\ At(r, "create") /\ link[l].state = "absent" /\ End(r)
  /\ link' = [link EXCEPT ![l].state = "valid"]
  /\ UNCHANGED <<client, opened, crossed>>

\* revoke_magic_link, or the link's time is over.
Revoke(l) ==
  /\ link[l].state = "valid"
  /\ link' = [link EXCEPT ![l].state = "expired"]
  /\ UNCHANGED <<client, request, opened, crossed>>

\* magic_link_entry: the link posted is read; only its expiry is looked at.
Enter(r, l) ==
  /\ At(r, "idle") /\ link[l].state = "valid"
  /\ Go(r, "consume", l)
  /\ UNCHANGED <<client, link, opened, crossed>>

\* consume_magic_link: the update takes the row only if it is not used, ...
Consume(r) ==
  /\ At(r, "consume")
  /\ LET l == request[r].link IN
       IF link[l].used THEN End(r) /\ UNCHANGED link
       ELSE Go(r, "login", l) /\ link' = [link EXCEPT ![l].used = TRUE]
  /\ UNCHANGED <<client, opened, crossed>>

\* ... and who took it is logged in.
Login(r) ==
  /\ At(r, "login") /\ End(r)
  /\ opened' = [opened EXCEPT ![request[r].link] = IF @ < 2 THEN @ + 1 ELSE @]
  /\ UNCHANGED <<client, link, crossed>>

\* remove_client expires the links ...
RemoveClient(r) ==
  /\ At(r, "idle") /\ client
  /\ link' = Expired(TRUE) /\ UNCHANGED client
  /\ Go(r, "remove", None)
  /\ crossed' = (crossed \/ Sending)
  /\ UNCHANGED opened

\* ... and then deletes the membership.
DeleteMembership(r) ==
  /\ At(r, "remove") /\ End(r)
  /\ client' = FALSE
  /\ UNCHANGED <<link, opened, crossed>>

\* The client is invited again.
Rejoin ==
  /\ ~client /\ client' = TRUE
  /\ UNCHANGED <<link, request, opened, crossed>>

Kill(r) ==
  /\ ~At(r, "idle") /\ End(r)
  /\ UNCHANGED <<client, link, opened, crossed>>

Next ==
  \/ Rejoin
  \/ \E l \in Links : Revoke(l)
  \/ \E r \in Requests :
       \/ Generate(r) \/ ExpireEarlier(r) \/ Consume(r) \/ Login(r)
       \/ RemoveClient(r) \/ DeleteMembership(r) \/ Kill(r)
       \/ \E l \in Links : CreateLink(r, l) \/ Enter(r, l)

Spec == Init /\ [][Next]_vars

-----------------------------------------------------------------------------
\* A link opens one session, however many requests post it at a time.
LinksOpenOnce == \A l \in Links : opened[l] <= 1

\* Someone who is no client holds no link that would let them in, wherever the
\* removal is killed, unless a link was sent beside it.
LinksAreClients ==
  (\E l \in Links : link[l].state = "valid" /\ ~link[l].used) => client \/ crossed
=============================================================================
