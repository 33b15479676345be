-------------------------- MODULE ApprovalWorkflow --------------------------
(***************************************************************************)
(* The editorial workflow of one composer Post: apps/approvals/services.py *)
(* (submit, approve, request changes, reject, hold, resume, resubmit), the *)
(* composer's save_post and autosave, its per-account chip, and the API's  *)
(* edit, schedule and cancel.                                              *)
(*                                                                         *)
(* The status lives on the children, one PlatformPost per selected         *)
(* account, while decisions are bundled: a service reads every child,      *)
(* keeps those it may move, and writes them later in one transaction       *)
(* without looking at them again.  A save is a sequence: the content and   *)
(* the deselection, then for every chosen account a read and a write of    *)
(* the whole row, and only then the revert of what was approved and the    *)
(* move of the others.  No transaction holds these together.               *)
(***************************************************************************)
EXTENDS FiniteSets, TLC

CONSTANTS
  Children,    \* the accounts the post can be selected for
  Modes,       \* the values of Workspace.approval_workflow_mode explored
  Asked,       \* the approval services requested
  Deciders,    \* requests to the approval services that can be in flight
  Editors,     \* composer saves that can be in flight
  Autosavers,  \* autosaves that can be in flight
  Marks,       \* the statuses the chip is used for
  Edits        \* the ways in which the content changes

ModeKinds == {"none", "optional", "required_internal", "required_internal_and_client"}
\* "unaware": the request does not know that it changes the content, because
\* it read it before another edit, or is an autosave that names its post in
\* the form and compares nothing.
EditKinds == {"save", "queue", "submit", "autosave", "unaware", "api"}

ASSUME ModeAssumption == Modes \subseteq ModeKinds
ASSUME EditAssumption == Edits \subseteq EditKinds

-----------------------------------------------------------------------------
(* The state machine of a child *)

Status == {"draft", "pending_review", "pending_client", "changes_requested",
           "rejected", "approved", "on_hold", "scheduled", "publishing",
           "published", "failed"}
Protected == {"published", "publishing"}

\* VALID_TRANSITIONS
Transitions ==
  [draft             |-> {"pending_review", "scheduled", "publishing"},
   pending_review    |-> {"approved", "changes_requested", "rejected"},
   approved          |-> {"pending_client", "scheduled", "publishing", "draft",
                          "on_hold", "pending_review"},
   pending_client    |-> {"approved", "changes_requested", "rejected"},
   changes_requested |-> {"pending_review", "draft"},
   rejected          |-> {"draft", "pending_review"},
   scheduled         |-> {"publishing", "draft"},
   publishing        |-> {"published", "failed", "scheduled"},
   failed            |-> {"publishing", "draft", "scheduled"},
   on_hold           |-> {"approved", "draft", "changes_requested"},
   published         |-> {},
   absent            |-> {}]

\* "absent": the account is not selected, there is no PlatformPost row.
Presence == Status \cup {"absent"}
CanTransition(s, t) == t \in Transitions[s]

\* _transition_post_children: straight there, or by way of draft.
Hop(s) ==
  IF CanTransition(s, "scheduled") \/ CanTransition(s, "draft") THEN "scheduled" ELSE s

-----------------------------------------------------------------------------
(* The approval services: which children they take, and where to *)

Services == {"submit", "approve", "request_changes", "reject", "hold",
             "resume", "resubmit"}

From ==
  [submit          |-> {"draft", "changes_requested", "rejected"},
   approve         |-> {"pending_review", "pending_client", "draft", "rejected",
                        "changes_requested"},
   request_changes |-> {"pending_review", "pending_client"},
   reject          |-> {"pending_review", "pending_client"},
   hold            |-> {"approved"},
   resume          |-> {"on_hold"},
   resubmit        |-> {"changes_requested", "rejected", "approved"}]

To ==
  [submit |-> "pending_review", approve |-> "approved",
   request_changes |-> "changes_requested", reject |-> "rejected",
   hold |-> "on_hold", resume |-> "approved", resubmit |-> "pending_review"]

ASSUME AskedAssumption == Asked \subseteq Services
ASSUME MarksAssumption == Marks \subseteq Status

\* Who calls a service: the author from the composer, the team from the
\* approval queue, the client from the portal.  (A client who requests changes
\* or rejects does what the team may do at any time.)
Callers ==
  [submit |-> {"author"}, resubmit |-> {"author"}, resume |-> {"team"},
   hold |-> {"client"}, approve |-> {"team", "client"},
   request_changes |-> {"team"}, reject |-> {"team"}]

Snapshot == [Children -> Presence]
Decision == [service: Services, seen: Snapshot, lost: SUBSET Children]

\* What save_post does once the rows are synced.  "goes" are the children in
\* scope when they are to be scheduled (schedule, publish_now, the queue), and
\* none in save_draft.
SaveKinds == {"save", "queue", "submit", "resubmit"}
Save == [kind: SaveKinds \cup {"none"}, edited: BOOLEAN, goes: SUBSET Children,
         todo: SUBSET Children, held: SUBSET Children, seen: Presence, lost: BOOLEAN]

VARIABLES
  mode,      \* Workspace.approval_workflow_mode
  status,    \* each child's PlatformPost.status, or "absent"
  decision,  \* requests to the approval services that have read the children
  saving,    \* saves that have written the content and not yet the statuses
  undoing,   \* autosaves that have, and are about to revert what was approved
  signed,    \* history: children approved since the content changed
  loose      \* history: children left approved by a step that does not revert them

vars == <<mode, status, decision, saving, undoing, signed, loose>>

-----------------------------------------------------------------------------

NoDecision == [service |-> "submit", seen |-> [c \in Children |-> "absent"], lost |-> {}]
NoSave == [kind |-> "none", edited |-> FALSE, goes |-> {},
           todo |-> {}, held |-> {}, seen |-> "absent", lost |-> FALSE]

Selected == {c \in Children : status[c] # "absent"}

\* The children a service may move.
Eligible(service) == {c \in Children : /\ status[c] \in From[service]
                                       /\ CanTransition(status[c], To[service])}

\* The children a request is about to write.
Moves(d) == {c \in Children : d.seen[c] # "absent"}

\* Mutant: a hold writes the name of its ApprovalAction.
Target_ActionName(d, c) == IF d.service = "hold" THEN "held" ELSE To[d.service]

\* Where it moves them: in the two-stage mode an approval out of
\* pending_review goes on to the client.
Target(d, c) ==
  IF /\ d.service = "approve"
     /\ mode = "required_internal_and_client"
     /\ d.seen[c] = "pending_review"
    THEN "pending_client"
    ELSE To[d.service]

Init ==
  /\ mode \in Modes
  /\ status \in [Children -> {"draft", "absent"}]
  /\ decision = [r \in Deciders |-> NoDecision]
  /\ saving = [e \in Editors |-> NoSave]
  /\ undoing = {}
  /\ signed = {}
  /\ loose = {}

-----------------------------------------------------------------------------
(* Approval services *)

\* The view's checks and _resolve_targets: the portal asks for a child that
\* is waiting for the client (or is approved, to hold it).
OpenDecision(r, service, by) ==
  /\ decision[r] = NoDecision
  /\ by \in Callers[service]
  /\ Eligible(service) # {}
  /\ by = "client" /\ service # "hold" => \E c \in Children : status[c] = "pending_client"
  /\ decision' = [decision EXCEPT ![r] =
       [service |-> service,
        seen |-> [c \in Children |-> IF c \in Eligible(service) THEN status[c] ELSE "absent"],
        lost |-> {}]]
  /\ UNCHANGED <<mode, status, saving, undoing, signed, loose>>

\* History: a child in one of these starts a new round, with no signatures.
Unsigned == {"absent", "draft", "pending_review", "changes_requested", "rejected"}

\* The signed children are those of "base", but for new rounds; "left" are
\* the children the step leaves approved although nobody approved the content.
Signs(base, left) ==
  /\ signed' = {c \in base : status'[c] \notin Unsigned}
  /\ loose' = {c \in loose \cup left : status'[c] = "approved" /\ c \notin signed'}

\* The transaction: every target is written as the request saw it.
Decide(r) ==
  LET d == decision[r] IN
  /\ Moves(d) # {}
  /\ d.lost = {}
  /\ status' = [c \in Children |-> IF c \in Moves(d) THEN Target(d, c) ELSE status[c]]
  /\ Signs(IF To[d.service] = "approved" THEN signed \cup Moves(d) ELSE signed, {})
  /\ decision' = [decision EXCEPT ![r] = NoDecision]
  /\ UNCHANGED <<mode, saving, undoing>>

\* A decision about a row that was deleted since fails as a whole.
DecisionFails(r) ==
  /\ decision[r].lost # {}
  /\ decision' = [decision EXCEPT ![r] = NoDecision]
  /\ UNCHANGED <<mode, status, saving, undoing, signed, loose>>

-----------------------------------------------------------------------------
(* Composer saves *)

\* _remove_deselected_platform_posts: within the scope, rows that are not
\* chosen are deleted, except those that are history.
Deselected(scope, chosen) == {c \in scope \ chosen : status[c] \notin Protected}

\* _sync_platform_posts: and rows are created for the new choices.
Synced(scope, chosen, initial) ==
  [c \in Children |->
     IF c \in Deselected(scope, chosen) THEN "absent"
     ELSE IF c \in chosen /\ status[c] = "absent" THEN initial
     ELSE status[c]]

\* A request that holds one of these rows will find it gone.
DecisionsLose(gone) ==
  decision' = [r \in Deciders |->
    [decision[r] EXCEPT !.lost = @ \cup (Moves(decision[r]) \cap gone)]]
SavesLosing(gone) ==
  [e \in Editors |-> [saving[e] EXCEPT !.lost = @ \/ saving[e].held \cap gone # {}]]

Approved == {c \in Children : status'[c] = "approved"}

\* A new content voids the signatures; unless a revert is still to come, what
\* is approved stays so.
Writes(change, reverts) ==
  Signs(IF change = "no" THEN signed ELSE {},
        IF change = "no" \/ reverts THEN {} ELSE Approved)

Changes == {"no", "noticed", "unaware"}
MayChange(path, change) ==
  /\ change = "noticed" => path \in Edits
  /\ change = "unaware" => "unaware" \in Edits

Scopes == {Children} \cup {{c} : c \in Children}
EditOf(kind) == IF kind = "resubmit" THEN "submit" ELSE kind

\* save_post, up to the deselection; of its branches only "save" compares the
\* content with the one it read.
StartSave(e, kind, change, scope, chosen, goes) ==
  LET reverts == kind = "save" /\ change = "noticed"
      gone == Deselected(scope, chosen)
  IN
  /\ saving[e] = NoSave
  /\ MayChange(EditOf(kind), change)
  /\ kind = "queue" => goes = scope
  /\ goes # {} => kind \in {"save", "queue"}
  /\ status' = Synced(scope, chosen \cap Selected, "draft")
  /\ DecisionsLose(gone)
  /\ saving' = [SavesLosing(gone) EXCEPT ![e] =
       [NoSave EXCEPT !.kind = kind, !.edited = reverts, !.goes = goes, !.todo = chosen]]
  /\ Writes(change, reverts)
  /\ UNCHANGED <<mode, undoing>>

\* get_or_create of a chosen row: read, or created as the action wants it.
SyncRead(e, c) ==
  LET s == saving[e]
      initial == IF s.kind = "save" /\ s.goes # {} THEN "scheduled" ELSE "draft"
      row == IF status[c] = "absent" THEN initial ELSE status[c]
  IN
  /\ c \in s.todo
  /\ s.held = {}
  /\ status' = [status EXCEPT ![c] = row]
  /\ saving' = [saving EXCEPT ![e] =
       [s EXCEPT !.todo = @ \ {c}, !.held = {c}, !.seen = row, !.lost = FALSE]]
  /\ UNCHANGED <<mode, decision, undoing, signed, loose>>

\* pp.save(): every column of the row is written as it was read, whatever
\* happened to it since; a row that was deleted is inserted again, unless the
\* account has a new one (SaveFails).
SyncWrite(e) ==
  LET s == saving[e]
      back == IF s.lost THEN s.held ELSE {}
  IN
  /\ s.held # {}
  /\ \A c \in back : status[c] = "absent"
  /\ status' = [c \in Children |-> IF c \in s.held THEN s.seen ELSE status[c]]
  /\ Signs(signed, {c \in s.held : status[c] # "approved"})
  /\ decision' = [r \in Deciders |-> [decision[r] EXCEPT !.lost = @ \ back]]
  /\ saving' = [u \in Editors |->
       IF u = e THEN [s EXCEPT !.held = {}, !.seen = "absent", !.lost = FALSE]
                ELSE [saving[u] EXCEPT !.lost = @ /\ saving[u].held \cap back = {}]]
  /\ UNCHANGED <<mode, undoing>>

\* Mutant: the children are reverted when the post, not each of them, is approved.
ToRevert_ByPost ==
  IF \A c \in Selected : status[c] = "approved" THEN Selected ELSE {}

\* _revert_approved_to_review: every approved child, in the scope or not.
ToRevert == {c \in Children : status[c] = "approved"}

\* The last part of a save: its rows are written, and it moves the children.
Ends(e, kinds, after) ==
  /\ saving[e].kind \in kinds
  /\ saving[e].todo = {} /\ saving[e].held = {}
  /\ status' = after
  /\ saving' = [saving EXCEPT ![e] = NoSave]
  /\ Signs(signed, {})
  /\ UNCHANGED <<mode, decision, undoing>>

\* save_draft, schedule and publish_now: approved children of an edited post go
\* back to review and take no part in the move to the target.
FinishSave(e) ==
  LET s == saving[e]
      reverted == IF s.edited THEN ToRevert ELSE {}
      moved == (s.goes \cap Selected) \ reverted
  IN
  Ends(e, {"save"}, [c \in Children |->
    IF c \in reverted THEN "pending_review"
    ELSE IF c \in moved THEN Hop(status[c])
    ELSE status[c]])

\* add_to_queue(_priority): the children in scope move to "scheduled", unless
\* the queue is full and the request stops after the save.
FinishQueue(e, full) ==
  Ends(e, {"queue"}, [c \in Children |->
    IF c \in saving[e].goes /\ ~full THEN Hop(status[c]) ELSE status[c]])

\* submit_for_approval and resubmit_for_approval: every child of the post is
\* handed to the approval service.
FinishSubmit(e, service) ==
  Ends(e, {service}, [c \in Children |->
    IF status[c] \in From[service] THEN To[service] ELSE status[c]])

\* A save may end half-way: its row exists twice, or its worker dies.
SaveFails(e) ==
  /\ saving[e] # NoSave
  /\ saving' = [saving EXCEPT ![e] = NoSave]
  /\ status' = status
  /\ Signs(signed, IF saving[e].edited THEN Approved ELSE {})
  /\ UNCHANGED <<mode, decision, undoing>>

\* autosave creates and deletes rows and writes none back; it is done, unless
\* it noticed that it changed the content.
Autosave(u, change, scope, chosen) ==
  LET reverts == change = "noticed"
      gone == Deselected(scope, chosen)
  IN
  /\ u \notin undoing
  /\ MayChange("autosave", change)
  /\ status' = Synced(scope, chosen, "draft")
  /\ DecisionsLose(gone)
  /\ saving' = SavesLosing(gone)
  /\ undoing' = IF reverts THEN undoing \cup {u} ELSE undoing
  /\ Writes(change, reverts)
  /\ mode' = mode

\* ... and then reverts, or its worker dies first.
FinishAutosave(u, dies) ==
  /\ u \in undoing
  /\ undoing' = undoing \ {u}
  /\ status' = [c \in Children |->
       IF ~dies /\ c \in ToRevert THEN "pending_review" ELSE status[c]]
  /\ Signs(signed, IF dies THEN Approved ELSE {})
  /\ UNCHANGED <<mode, decision, saving>>

\* Post.is_editable, of the status derived from the children.
Editable ==
  LET present == {status[c] : c \in Selected} IN
  \/ present = {}
  \/ present \cap {"draft", "changes_requested", "rejected"} # {}
  \/ /\ present \cap {"approved", "scheduled"} # {}
     /\ present \cap {"on_hold", "pending_review", "pending_client"} = {}

\* PATCH /posts/{id}: a new content, and nothing is reverted.
ApiEdit ==
  /\ "api" \in Edits
  /\ Editable
  /\ status' = status
  /\ Writes("unaware", FALSE)
  /\ UNCHANGED <<mode, decision, saving, undoing>>

-----------------------------------------------------------------------------
(* One child at a time: the composer's chip, the API, the publisher *)

\* transition_platform_post: any edge of the state machine; approving needs
\* approve_posts.
Chip(c, target) ==
  /\ CanTransition(status[c], target)
  /\ status' = [status EXCEPT ![c] = target]
  /\ Signs(IF target = "approved" THEN signed \cup {c} ELSE signed, {})
  /\ UNCHANGED <<mode, decision, saving, undoing>>

MoveAll(from, to) ==
  /\ \E c \in Children : status[c] = from
  /\ status' = [c \in Children |-> IF status[c] = from THEN to ELSE status[c]]
  /\ Signs(signed, {})
  /\ UNCHANGED <<mode, decision, saving, undoing>>

\* POST /posts/{id}/schedule, behind the approval gate.
ApiSchedule ==
  /\ mode \notin {"required_internal", "required_internal_and_client"}
  /\ MoveAll("draft", "scheduled")

\* POST /posts/{id}/cancel
ApiCancel == MoveAll("scheduled", "draft")

\* What the publishing engine does to a scheduled child (PublishEngine).
EnginePublishes(c, outcome) ==
  /\ \/ status[c] = "scheduled" /\ outcome = "publishing"
     \/ status[c] = "publishing" /\ outcome \in {"published", "failed", "scheduled"}
  /\ status' = [status EXCEPT ![c] = outcome]
  /\ UNCHANGED <<mode, decision, saving, undoing, signed, loose>>

-----------------------------------------------------------------------------

DecisionStep(r) ==
  \/ \E service \in Asked : \E by \in Callers[service] : OpenDecision(r, service, by)
  \/ Decide(r)
  \/ DecisionFails(r)

SaveStep(e) ==
  \/ \E kind \in SaveKinds, change \in Changes, scope \in Scopes :
       \E chosen \in SUBSET scope, goes \in {{}, scope} :
         StartSave(e, kind, change, scope, chosen, goes)
  \/ \E c \in Children : SyncRead(e, c)
  \/ SyncWrite(e)
  \/ FinishSave(e)
  \/ \E full \in BOOLEAN : FinishQueue(e, full)
  \/ \E service \in {"submit", "resubmit"} : FinishSubmit(e, service)
  \/ SaveFails(e)

AutosaveStep(u) ==
  \/ \E change \in Changes, scope \in Scopes : \E chosen \in SUBSET scope :
       Autosave(u, change, scope, chosen)
  \/ \E dies \in BOOLEAN : FinishAutosave(u, dies)

ChildStep(c) ==
  \/ \E target \in Marks : Chip(c, target)
  \/ \E outcome \in Status : EnginePublishes(c, outcome)

Next ==
  \/ \E r \in Deciders : DecisionStep(r)
  \/ \E e \in Editors : SaveStep(e)
  \/ \E u \in Autosavers : AutosaveStep(u)
  \/ \E c \in Children : ChildStep(c)
  \/ ApiEdit
  \/ ApiSchedule
  \/ ApiCancel

Spec == Init /\ [][Next]_vars

\* Accounts are alike.
AccountSymmetry == Permutations(Children)

-----------------------------------------------------------------------------
(* Properties *)

\* Type invariant.
TypeOK ==
  /\ mode \in Modes
  /\ status \in Snapshot
  /\ decision \in [Deciders -> Decision]
  /\ saving \in [Editors -> Save]
  /\ undoing \subseteq Autosavers
  /\ signed \subseteq Children
  /\ loose \subseteq Children

\* Once no edit waits for its revert, a child that says "approved" was approved
\* by somebody after the last edit, whatever decisions, holds and other saves
\* run at the same time; or one of the steps that put an edit past the revert
\* left it so: a save path without one, a save that died before its own, or a
\* row written back as it was.
ApprovedIsReviewed ==
  (\A e \in Editors : ~saving[e].edited) /\ undoing = {} =>
    \A c \in Children : status[c] = "approved" => c \in signed \cup loose

\* A save that ends takes a child from "approved" onto the schedule only with
\* a content that was approved.
ScheduledWasReviewed ==
  [][(\E e \in Editors : saving[e] # NoSave /\ saving'[e] = NoSave) =>
       \A c \in Children :
         status[c] = "approved" /\ status'[c] = "scheduled" => c \in signed']_vars

=============================================================================
