---------------------------- MODULE Workspaces ----------------------------
(***************************************************************************)
(* The workspaces of an organization and their settings page               *)
(* (apps/workspaces/views.py).  Each request reads its workspace, checks,   *)
(* and writes.  The count that guards the last active workspace is taken in *)
(* a transaction, but an aggregate locks no row (Django drops FOR UPDATE    *)
(* from it), so two requests may both count the other's workspace.          *)
(***************************************************************************)
EXTENDS Naturals, FiniteSets

CONSTANTS Workspaces, Requests, None,
          First       \* the workspace made at signup

VARIABLES
  space,     \* the rows: none, active, archived or gone
  owned,     \* workspaces with an owner's membership
  asking,    \* requests at work: what for, how far, and the row they read
  torn,      \* history: workspaces whose creation is at work or was killed
  together   \* history: a request wrote while another was at work

vars == <<space, owned, asking, torn, together>>

Ops == {"archive", "unarchive", "delete", "save"}
Idle == [op |-> "idle", space |-> None, seen |-> "none", counted |-> FALSE]

TypeOK ==
  /\ space \in [Workspaces -> {"none", "active", "archived", "gone"}]
  /\ owned \subseteq Workspaces
  /\ asking \in [Requests -> [op : Ops \cup {"idle", "create"}, space : Workspaces \cup {None},
                              seen : {"none", "active", "archived"}, counted : BOOLEAN]]
  /\ torn \subseteq Workspaces /\ together \in BOOLEAN

Init ==
  /\ space = [w \in Workspaces |-> IF w = First THEN "active" ELSE "none"]
  /\ owned = {First}
  /\ asking = [r \in Requests |-> Idle]
  /\ torn = {} /\ together = FALSE

End(r) == asking' = [asking EXCEPT ![r] = Idle]
Of(r) == asking[r].space
Wrote(r) == together' = (together \/ \E q \in Requests \ {r} : asking[q] # Idle)

-----------------------------------------------------------------------------
\* workspace_create inserts the workspace ...
Create(r, w) ==
  /\ asking[r] = Idle /\ space[w] = "none"
  /\ asking' = [asking EXCEPT ![r] = [Idle EXCEPT !.op = "create", !.space = w]]
  /\ space' = [space EXCEPT ![w] = "active"]
  /\ torn' = torn \cup {w}
  /\ Wrote(r) /\ UNCHANGED owned

\* ... and then the membership of its owner.
Own(r) ==
  /\ asking[r].op = "create" /\ End(r)
  /\ owned' = owned \cup {Of(r)} /\ torn' = torn \ {Of(r)}
  /\ Wrote(r) /\ UNCHANGED space

\* workspace_settings, for a member: the row is read.
Begin(r, op, w) ==
  /\ asking[r] = Idle /\ w \in owned /\ space[w] \in {"active", "archived"}
  /\ asking' = [asking EXCEPT ![r] = [op |-> op, space |-> w, seen |-> space[w], counted |-> FALSE]]
  /\ UNCHANGED <<space, owned, torn, together>>

Active == {w \in Workspaces : space[w] = "active"}

\* The last active workspace is neither archived nor deleted; one that was read
\* as archived may be.
Count(r) ==
  /\ asking[r].op \in {"archive", "delete"} /\ ~asking[r].counted
  /\ IF Cardinality(Active) <= 1 /\ ~(asking[r].op = "delete" /\ asking[r].seen = "archived")
     THEN End(r)
     ELSE asking' = [asking EXCEPT ![r].counted = TRUE]
  /\ UNCHANGED <<space, owned, torn, together>>

Archive(r) ==
  /\ asking[r].op = "archive" /\ asking[r].counted /\ End(r)
  /\ space' = [space EXCEPT ![Of(r)] = IF @ = "gone" THEN "gone" ELSE "archived"]
  /\ Wrote(r) /\ UNCHANGED <<owned, torn>>

Unarchive(r) ==
  /\ asking[r].op = "unarchive" /\ End(r)
  /\ space' = [space EXCEPT ![Of(r)] = IF @ = "gone" THEN "gone" ELSE "active"]
  /\ Wrote(r) /\ UNCHANGED <<owned, torn>>

Delete(r) ==
  /\ asking[r].op = "delete" /\ asking[r].counted /\ End(r)
  /\ space' = [space EXCEPT ![Of(r)] = "gone"] /\ owned' = owned \ {Of(r)}
  /\ Wrote(r) /\ UNCHANGED torn

\* The name and the icon are saved with the whole row that was read, one that
\* was deleted meanwhile inserted again.
Save(r) ==
  /\ asking[r].op = "save" /\ End(r)
  /\ space' = [space EXCEPT ![Of(r)] = asking[r].seen]
  /\ Wrote(r) /\ UNCHANGED <<owned, torn>>

Kill(r) == asking[r] # Idle /\ End(r) /\ UNCHANGED <<space, owned, torn, together>>

Next == \E r \in Requests :
  \/ Own(r) \/ Count(r) \/ Archive(r) \/ Unarchive(r) \/ Delete(r) \/ Save(r) \/ Kill(r)
  \/ \E w \in Workspaces : Create(r, w) \/ \E op \in Ops : Begin(r, op, w)

Spec == Init /\ [][Next]_vars

-----------------------------------------------------------------------------
\* The organization keeps an active workspace that somebody may enter, unless
\* requests overlapped, or the creation of a workspace was cut short: one that
\* nobody may enter counts as active.
LastWorkspaceStays == together \/ torn # {} \/ Active \cap owned # {}
=============================================================================
