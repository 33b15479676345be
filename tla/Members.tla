------------------------------ MODULE Members ------------------------------
(***************************************************************************)
(* Members of an organization and of a workspace in it (apps/members): they *)
(* are invited, accept, are assigned to the workspace, and are removed.     *)
(* Each request reads, checks, and writes row by row with no transaction;   *)
(* a web process may be killed between two rows.  Everybody who signs up    *)
(* gets an organization of their own, which an invitation replaces.         *)
(***************************************************************************)
EXTENDS Naturals, FiniteSets

CONSTANTS Users, Invitations, Requests, None

VARIABLES
  org,        \* users with an OrgMembership of the organization
  workspace,  \* users with a WorkspaceMembership in it
  own,        \* users with the organization signup gave them
  invitation, \* the rows; to: whom the address belongs to
  request,    \* requests at work: what, how far, and what they read
  removed,    \* history: users removed, the removal having written a row
  crossed,    \* history: users a removal of whom ran beside an accept or an assignment
  admitted,   \* history: users each invitation brought in
  shared      \* history: invitations two accepts ran for, or one was killed for

vars == <<org, workspace, own, invitation, request, removed, crossed, admitted, shared>>
history == <<removed, crossed, admitted, shared>>

Steps == {"idle", "invite", "join", "assign", "stamp", "leave_own",
          "remove_workspace", "remove_org", "manage", "direct"}
Idle == [step |-> "idle", user |-> None, inv |-> None, signup |-> FALSE, seen |-> FALSE]

TypeOK ==
  /\ org \subseteq Users /\ workspace \subseteq Users /\ own \subseteq Users
  /\ invitation \in [Invitations -> [state: {"none", "open", "closed", "accepted"},
                                     to: Users \cup {None}]]
  /\ request \in [Requests -> [step: Steps, user: Users \cup {None},
                               inv: Invitations \cup {None}, signup: BOOLEAN, seen: BOOLEAN]]
  /\ removed \subseteq Users /\ crossed \subseteq Users
  /\ admitted \in [Invitations -> SUBSET Users]
  /\ shared \subseteq Invitations

Init ==
  /\ org = {} /\ workspace = {}
  /\ own \in SUBSET Users      \* the others have not signed up yet
  /\ invitation = [i \in Invitations |-> [state |-> "none", to |-> None]]
  /\ request = [r \in Requests |-> Idle]
  /\ removed = {} /\ crossed = {} /\ shared = {}
  /\ admitted = [i \in Invitations |-> {}]

Go(r, step) == request' = [request EXCEPT ![r].step = step]
End(r) == request' = [request EXCEPT ![r] = Idle]
At(r, step) == request[r].step = step
User(r) == request[r].user
Inv(r) == request[r].inv

Busy(u, steps) == \E r \in Requests : User(r) = u /\ request[r].step \in steps
Removals == {"remove_workspace", "remove_org"}
Grants == {"join", "assign", "stamp", "manage", "direct"}

-----------------------------------------------------------------------------
(* Invitations *)

\* create_invitation: the address is no member's, and no invitation to it is
\* open.
Invite(r, u) ==
  /\ At(r, "idle") /\ u \notin org
  /\ \A i \in Invitations : ~(invitation[i].to = u /\ invitation[i].state = "open")
  /\ request' = [request EXCEPT ![r] = [Idle EXCEPT !.step = "invite", !.user = u]]
  /\ UNCHANGED <<org, workspace, own, invitation, history>>

CreateInvitation(r, i) ==
  /\ At(r, "invite") /\ invitation[i].state = "none"
  /\ invitation' = [invitation EXCEPT ![i] = [state |-> "open", to |-> User(r)]]
  /\ End(r)
  /\ UNCHANGED <<org, workspace, own, history>>

\* resend_invitation renews the expiry of one that was not accepted, be it
\* revoked or expired.
Resend(i) ==
  /\ invitation[i].state = "closed"
  /\ invitation' = [invitation EXCEPT ![i].state = "open"]
  /\ UNCHANGED <<org, workspace, own, request, history>>

\* revoke_invitation, or the week is over.
Revoke(i) ==
  /\ invitation[i].state = "open"
  /\ invitation' = [invitation EXCEPT ![i].state = "closed"]
  /\ UNCHANGED <<org, workspace, own, request, history>>

\* accept_invitation by a user with the address, or at signup by whoever
\* holds the link.
Accept(r, i, u, signup) ==
  /\ At(r, "idle") /\ invitation[i].state = "open"
  /\ IF signup THEN u \notin own \cup org \cup removed ELSE u = invitation[i].to /\ u \in own \cup org
  /\ request' = [request EXCEPT ![r] =
       [Idle EXCEPT !.step = "join", !.user = u, !.inv = i, !.signup = signup]]
  /\ own' = IF signup THEN own \cup {u} ELSE own
  /\ crossed' = IF Busy(u, Removals) THEN crossed \cup {u} ELSE crossed
  /\ shared' = IF \E q \in Requests : Inv(q) = i THEN shared \cup {i} ELSE shared
  /\ UNCHANGED <<org, workspace, invitation, removed, admitted>>

Join(r) ==
  /\ At(r, "join") /\ Go(r, "assign")
  /\ org' = org \cup {User(r)}
  /\ admitted' = IF User(r) \in org THEN admitted
                 ELSE [admitted EXCEPT ![Inv(r)] = @ \cup {User(r)}]
  /\ removed' = removed \ {User(r)}
  /\ UNCHANGED <<workspace, own, invitation, crossed, shared>>

JoinWorkspace(r) ==
  /\ At(r, "assign") /\ Go(r, "stamp")
  /\ workspace' = workspace \cup {User(r)}
  /\ UNCHANGED <<org, own, invitation, history>>

\* accepted_at is saved, whatever became of the invitation meanwhile.
Stamp(r) ==
  /\ At(r, "stamp")
  /\ invitation' = [invitation EXCEPT ![Inv(r)].state = "accepted"]
  /\ IF request[r].signup THEN Go(r, "leave_own") ELSE End(r)
  /\ UNCHANGED <<org, workspace, own, history>>

\* At signup the default organization is deleted when the invitation is in.
LeaveOwn(r) ==
  /\ At(r, "leave_own") /\ End(r)
  /\ own' = own \ {User(r)}
  /\ UNCHANGED <<org, workspace, invitation, history>>

-----------------------------------------------------------------------------
(* The members page *)

\* Mutant: the member leaves the organization before its workspaces.
Remove_OrgFirst(r, u) ==
  /\ At(r, "idle") /\ u \in org
  /\ org' = org \ {u} /\ removed' = removed \cup {u}
  /\ request' = [request EXCEPT ![r] = [Idle EXCEPT !.step = "remove_workspace", !.user = u]]
  /\ crossed' = IF Busy(u, Grants) THEN crossed \cup {u} ELSE crossed
  /\ UNCHANGED <<workspace, own, invitation, admitted, shared>>

\* remove_member: the memberships of the workspaces go first ...
Remove(r, u) ==
  /\ At(r, "idle") /\ u \in org
  /\ request' = [request EXCEPT ![r] = [Idle EXCEPT !.step = "remove_workspace", !.user = u]]
  /\ crossed' = IF Busy(u, Grants) THEN crossed \cup {u} ELSE crossed
  /\ UNCHANGED <<org, workspace, own, invitation, removed, admitted, shared>>

RemoveWorkspace(r) ==
  /\ At(r, "remove_workspace") /\ Go(r, "remove_org")
  /\ workspace' = workspace \ {User(r)}
  /\ UNCHANGED <<org, own, invitation, history>>

\* ... and then that of the organization.
RemoveOrg(r) ==
  /\ At(r, "remove_org") /\ End(r)
  /\ org' = org \ {User(r)} /\ removed' = removed \cup {User(r)}
  /\ UNCHANGED <<workspace, own, invitation, crossed, admitted, shared>>

\* manage_workspaces reads a member of the organization and its assignments.
Manage(r, u) ==
  /\ At(r, "idle") /\ u \in org
  /\ request' = [request EXCEPT ![r] =
       [Idle EXCEPT !.step = "manage", !.user = u, !.seen = u \in workspace]]
  /\ crossed' = IF Busy(u, Removals) THEN crossed \cup {u} ELSE crossed
  /\ UNCHANGED <<org, workspace, own, invitation, removed, admitted, shared>>

\* update_workspace_assignments gives or takes what differs from what it read;
\* giving what is there by now raises.
Assign(r) ==
  /\ At(r, "manage") /\ End(r)
  /\ workspace' = IF request[r].seen THEN workspace \ {User(r)} ELSE workspace \cup {User(r)}
  /\ UNCHANGED <<org, own, invitation, history>>

\* The dashboard's invite adds a user, new or not, at once: both memberships
\* are looked up and inserted in one transaction, with what was there when the
\* first was looked up; the organization a new user gets is deleted in it.
InviteDirectly(r, u) ==
  /\ At(r, "idle")
  /\ request' = [request EXCEPT ![r] =
       [Idle EXCEPT !.step = "direct", !.user = u, !.seen = u \in org]]
  /\ crossed' = IF Busy(u, Removals) THEN crossed \cup {u} ELSE crossed
  /\ UNCHANGED <<org, workspace, own, invitation, removed, admitted, shared>>

AddDirectly(r) ==
  /\ At(r, "direct") /\ End(r)
  /\ workspace' = workspace \cup {User(r)}
  /\ IF request[r].seen THEN UNCHANGED <<org, removed>>
     ELSE org' = org \cup {User(r)} /\ removed' = removed \ {User(r)}
  /\ UNCHANGED <<own, invitation, crossed, admitted, shared>>

\* A membership of the workspace alone is deleted.
LeaveWorkspace(u) ==
  /\ u \in workspace
  /\ workspace' = workspace \ {u}
  /\ UNCHANGED <<org, own, invitation, request, history>>

RemoveClient(u) == LeaveWorkspace(u)
RemoveWorkspaceMember(u) == LeaveWorkspace(u)

Kill(r) ==
  /\ ~At(r, "idle") /\ End(r)
  /\ shared' = IF Inv(r) # None THEN shared \cup {Inv(r)} ELSE shared
  /\ UNCHANGED <<org, workspace, own, invitation, removed, crossed, admitted>>

Next ==
  \/ \E i \in Invitations : Resend(i) \/ Revoke(i)
  \/ \E u \in Users : RemoveClient(u) \/ RemoveWorkspaceMember(u)
  \/ \E r \in Requests :
       \/ Join(r) \/ JoinWorkspace(r) \/ Stamp(r) \/ LeaveOwn(r)
       \/ RemoveWorkspace(r) \/ RemoveOrg(r) \/ Assign(r)
       \/ AddDirectly(r) \/ Kill(r)
       \/ \E u \in Users : Invite(r, u) \/ Remove(r, u) \/ Manage(r, u) \/ InviteDirectly(r, u)
       \/ \E i \in Invitations : CreateInvitation(r, i)
       \/ \E i \in Invitations, u \in Users, s \in BOOLEAN : Accept(r, i, u, s)

Spec == Init /\ [][Next]_vars

-----------------------------------------------------------------------------
\* Whoever may use the workspace is a member of the organization, wherever a
\* request is killed, unless a removal crossed an accept or an assignment: the
\* middleware lets a workspace membership in and asks for no other.
AccessIsMembership == workspace \subseteq org \cup crossed

\* An invitation brings in one user, unless two accepts of it overlapped or
\* one was killed before the invitation was stamped.
AdmitsOnce == \A i \in Invitations \ shared : Cardinality(admitted[i]) <= 1

\* Nobody who signed up is left without an organization, but by removal.
EverybodyIsSomewhere ==
  \A r \in Requests : request[r].signup => User(r) \in org \cup own \cup removed
=============================================================================
