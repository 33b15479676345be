--------------------------- MODULE ApprovalProofs ---------------------------
(***************************************************************************)
(* Proofs about ApprovalWorkflow, for any set of accounts, of requests in  *)
(* flight, of overlapping saves and autosaves, and of ways to edit: type   *)
(* correctness, and that what is approved without a fresh review was left  *)
(* so by one of the steps that put an edit past the revert.                *)
(***************************************************************************)
EXTENDS ApprovalWorkflow, TLAPS

\* The tables of the services stay within the statuses.
LEMMA Tables ==
  /\ From \in [Services -> SUBSET Status]
  /\ To \in [Services -> Status]
  /\ Callers \in [Services -> SUBSET {"author", "team", "client"}]
  /\ Status \subseteq Presence
BY DEF From, To, Callers, Services, Status, Presence

\* The sentinels and the single steps of a status are well typed.
LEMMA Sentinels == NoDecision \in Decision /\ NoSave \in Save
BY DEF NoDecision, NoSave, Decision, Save, Snapshot, Services, Presence

LEMMA HopType == ASSUME NEW s \in Presence PROVE Hop(s) \in Presence
BY DEF Hop, Presence, Status

LEMMA SyncedType ==
  ASSUME status \in Snapshot, NEW scope, NEW chosen, NEW initial \in Status
  PROVE  Synced(scope, chosen, initial) \in Snapshot
BY Tables DEF Synced, Snapshot, Presence

LEMMA TargetType ==
  ASSUME NEW d \in Decision, NEW c PROVE Target(d, c) \in Presence
BY Tables DEF Target, Decision, Presence, Status

\* The history stays within the accounts.
LEMMA SignsType ==
  ASSUME TypeOK, NEW base \in SUBSET Children, NEW left \in SUBSET Children, Signs(base, left)
  PROVE  signed' \subseteq Children /\ loose' \subseteq Children
BY DEF Signs, TypeOK

LEMMA WritesType ==
  ASSUME TypeOK, NEW change, NEW reverts, Writes(change, reverts)
  PROVE  signed' \subseteq Children /\ loose' \subseteq Children
<1> DEFINE base == IF change = "no" THEN signed ELSE {}
           left == IF change = "no" \/ reverts THEN {} ELSE Approved
<1>1. base \in SUBSET Children /\ left \in SUBSET Children
  BY DEF TypeOK, Approved
<1>2. Signs(base, left)
  BY DEF Writes
<1> HIDE DEF base, left
<1> QED
  BY <1>1, <1>2, SignsType

\* A deletion marks the requests that hold the row, and changes nothing else.
LEMMA LosesType ==
  ASSUME TypeOK, NEW gone, DecisionsLose(gone)
  PROVE  decision' \in [Deciders -> Decision]
<1>1. \A r \in Deciders : Moves(decision[r]) \subseteq Children
  BY DEF Moves
<1> QED
  BY <1>1 DEF DecisionsLose, TypeOK, Decision

LEMMA SavesLosingType ==
  ASSUME TypeOK, NEW gone
  PROVE  /\ SavesLosing(gone) \in [Editors -> Save]
         /\ \A e \in Editors : /\ SavesLosing(gone)[e].edited = saving[e].edited
                              /\ SavesLosing(gone)[e].kind = saving[e].kind
BY DEF SavesLosing, TypeOK, Save

-----------------------------------------------------------------------------
LEMMA InitType == Init => TypeOK
<1> SUFFICES ASSUME Init PROVE TypeOK
  OBVIOUS
<1>1. decision \in [Deciders -> Decision] /\ saving \in [Editors -> Save]
  BY Sentinels DEF Init
<1>2. status \in Snapshot
  BY DEF Init, Snapshot, Presence, Status
<1> QED
  BY <1>1, <1>2 DEF Init, TypeOK

LEMMA OpenDecisionType ==
  ASSUME TypeOK, NEW r \in Deciders, NEW service \in Asked, NEW by,
         OpenDecision(r, service, by)
  PROVE  TypeOK'
<1> DEFINE seen == [c \in Children |-> IF c \in Eligible(service) THEN status[c] ELSE "absent"]
           d == [service |-> service, seen |-> seen, lost |-> {}]
<1>1. seen \in Snapshot
  BY DEF TypeOK, Snapshot, Presence
<1>2. d \in Decision
  BY <1>1, AskedAssumption DEF Decision
<1>3. decision' = [decision EXCEPT ![r] = d]
  BY DEF OpenDecision
<1> HIDE DEF d
<1>4. decision' \in [Deciders -> Decision]
  BY <1>2, <1>3 DEF TypeOK
<1> QED
  BY <1>4 DEF OpenDecision, TypeOK

LEMMA DecideType ==
  ASSUME TypeOK, NEW r \in Deciders, Decide(r)
  PROVE  TypeOK'
<1> DEFINE d == decision[r]
           base == IF To[d.service] = "approved" THEN signed \cup Moves(d) ELSE signed
<1>1. \A c \in Children : Target(d, c) \in Presence
  BY TargetType DEF TypeOK
<1>2. status' \in Snapshot
  BY <1>1 DEF Decide, TypeOK, Snapshot
<1>3. base \in SUBSET Children /\ Signs(base, {})
  BY DEF Decide, TypeOK, Moves
<1> HIDE DEF base, d
<1>4. signed' \subseteq Children /\ loose' \subseteq Children
  BY <1>3, SignsType
<1>5. decision' \in [Deciders -> Decision]
  BY Sentinels DEF Decide, TypeOK
<1> QED
  BY <1>2, <1>4, <1>5 DEF Decide, TypeOK

LEMMA DecisionFailsType ==
  ASSUME TypeOK, NEW r \in Deciders, DecisionFails(r)
  PROVE  TypeOK'
BY Sentinels DEF DecisionFails, TypeOK

LEMMA StartSaveType ==
  ASSUME TypeOK, NEW e \in Editors, NEW kind \in SaveKinds, NEW change,
         NEW scope \in SUBSET Children, NEW chosen \in SUBSET scope, NEW goes \in {{}, scope},
         StartSave(e, kind, change, scope, chosen, goes)
  PROVE  TypeOK'
<1> DEFINE reverts == kind = "save" /\ change = "noticed"
           gone == Deselected(scope, chosen)
           s == [NoSave EXCEPT !.kind = kind, !.edited = reverts, !.goes = goes, !.todo = chosen]
<1>1. "draft" \in Status
  BY DEF Status
<1>2. status' \in Snapshot
  BY <1>1, SyncedType DEF TypeOK, StartSave
<1>3. s \in Save
  BY DEF Save, NoSave, Presence
<1>4. /\ saving' = [SavesLosing(gone) EXCEPT ![e] = s]
      /\ DecisionsLose(gone) /\ Writes(change, reverts)
  BY DEF StartSave
<1> HIDE DEF s, gone, reverts
<1>5. saving' \in [Editors -> Save]
  BY <1>3, <1>4, SavesLosingType
<1>6. /\ decision' \in [Deciders -> Decision]
      /\ signed' \subseteq Children /\ loose' \subseteq Children
  BY <1>4, LosesType, WritesType
<1> QED
  BY <1>2, <1>5, <1>6 DEF StartSave, TypeOK

LEMMA SyncReadType ==
  ASSUME TypeOK, NEW e \in Editors, NEW c \in Children, SyncRead(e, c)
  PROVE  TypeOK'
<1> DEFINE initial == IF saving[e].kind = "save" /\ saving[e].goes # {}
                        THEN "scheduled" ELSE "draft"
           row == IF status[c] = "absent" THEN initial ELSE status[c]
           s == [saving[e] EXCEPT !.todo = @ \ {c}, !.held = {c}, !.seen = row, !.lost = FALSE]
<1>1. row \in Presence
  BY DEF TypeOK, Snapshot, Presence, Status
<1>2. status' = [status EXCEPT ![c] = row] /\ saving' = [saving EXCEPT ![e] = s]
  BY DEF SyncRead
<1> HIDE DEF row
<1>3. s \in Save
  BY <1>1 DEF TypeOK, Save
<1> HIDE DEF s
<1>4. saving' \in [Editors -> Save] /\ status' \in Snapshot
  BY <1>1, <1>2, <1>3 DEF TypeOK, Snapshot
<1> QED
  BY <1>4 DEF SyncRead, TypeOK

LEMMA SyncWriteType ==
  ASSUME TypeOK, NEW e \in Editors, SyncWrite(e)
  PROVE  TypeOK'
<1> DEFINE s == saving[e]
           back == IF s.lost THEN s.held ELSE {}
           done == [s EXCEPT !.held = {}, !.seen = "absent", !.lost = FALSE]
           left == {c \in s.held : status[c] # "approved"}
<1>1. s \in Save
  BY DEF TypeOK
<1>2. /\ status' = [c \in Children |-> IF c \in s.held THEN s.seen ELSE status[c]]
      /\ Signs(signed, left)
      /\ decision' = [r \in Deciders |-> [decision[r] EXCEPT !.lost = @ \ back]]
      /\ saving' = [u \in Editors |-> IF u = e THEN done
                      ELSE [saving[u] EXCEPT !.lost = @ /\ saving[u].held \cap back = {}]]
  BY DEF SyncWrite
<1>3. status' \in Snapshot
  BY <1>1, <1>2 DEF TypeOK, Snapshot, Save
<1>4. done \in Save
  BY <1>1 DEF Save, Presence
<1>5. left \in SUBSET Children /\ signed \in SUBSET Children
  BY <1>1 DEF Save, TypeOK
<1>6. signed' \subseteq Children /\ loose' \subseteq Children
  <2> HIDE DEF left
  <2> QED
    BY <1>2, <1>5, SignsType
<1> HIDE DEF done, back
<1>7. decision' \in [Deciders -> Decision]
  BY <1>2 DEF TypeOK, Decision
<1>8. saving' \in [Editors -> Save]
  <2>1. \A u \in Editors : [saving[u] EXCEPT !.lost = @ /\ saving[u].held \cap back = {}] \in Save
    BY DEF TypeOK, Save
  <2> QED
    BY <1>2, <1>4, <2>1
<1> QED
  BY <1>3, <1>6, <1>7, <1>8 DEF SyncWrite, TypeOK

LEMMA EndsType ==
  ASSUME TypeOK, NEW e \in Editors, NEW kinds, NEW after \in Snapshot, Ends(e, kinds, after)
  PROVE  TypeOK'
<1>1. signed' \subseteq Children /\ loose' \subseteq Children
  BY SignsType DEF Ends, TypeOK
<1>2. saving' \in [Editors -> Save]
  BY Sentinels DEF Ends, TypeOK
<1> QED
  BY <1>1, <1>2 DEF Ends, TypeOK

LEMMA FinishType ==
  ASSUME TypeOK, NEW e \in Editors,
         \/ FinishSave(e)
         \/ \E full \in BOOLEAN : FinishQueue(e, full)
         \/ \E service \in {"submit", "resubmit"} : FinishSubmit(e, service)
  PROVE  TypeOK'
<1>1. \A c \in Children : status[c] \in Presence /\ Hop(status[c]) \in Presence
  BY HopType DEF TypeOK, Snapshot
<1>2. CASE FinishSave(e)
  <2> DEFINE reverted == IF saving[e].edited THEN ToRevert ELSE {}
             moved == (saving[e].goes \cap Selected) \ reverted
             after == [c \in Children |-> IF c \in reverted THEN "pending_review"
                                          ELSE IF c \in moved THEN Hop(status[c])
                                          ELSE status[c]]
  <2>1. Ends(e, {"save"}, after)
    BY <1>2 DEF FinishSave
  <2>2. "pending_review" \in Presence
    BY DEF Presence, Status
  <2> HIDE DEF reverted, moved
  <2>3. after \in Snapshot
    BY <1>1, <2>2 DEF Snapshot
  <2> HIDE DEF after
  <2> QED
    BY <2>1, <2>3, EndsType
<1>3. ASSUME NEW full \in BOOLEAN, FinishQueue(e, full) PROVE TypeOK'
  <2> DEFINE after == [c \in Children |->
               IF c \in saving[e].goes /\ ~full THEN Hop(status[c]) ELSE status[c]]
  <2>1. Ends(e, {"queue"}, after)
    BY <1>3 DEF FinishQueue
  <2>2. after \in Snapshot
    BY <1>1 DEF Snapshot
  <2> HIDE DEF after
  <2> QED
    BY <2>1, <2>2, EndsType
<1>4. ASSUME NEW service \in {"submit", "resubmit"}, FinishSubmit(e, service) PROVE TypeOK'
  <2> DEFINE after == [c \in Children |->
               IF status[c] \in From[service] THEN To[service] ELSE status[c]]
  <2>1. Ends(e, {service}, after)
    BY <1>4 DEF FinishSubmit
  <2>2. To[service] \in Presence
    BY Tables DEF Services
  <2>3. after \in Snapshot
    BY <1>1, <2>2 DEF Snapshot
  <2> HIDE DEF after
  <2> QED
    BY <2>1, <2>3, EndsType
<1> QED
  BY <1>2, <1>3, <1>4

LEMMA SaveFailsType ==
  ASSUME TypeOK, NEW e \in Editors, SaveFails(e)
  PROVE  TypeOK'
<1> DEFINE left == IF saving[e].edited THEN Approved ELSE {}
<1>1. left \in SUBSET Children /\ signed \in SUBSET Children
  BY DEF Approved, TypeOK
<1>2. Signs(signed, left)
  BY DEF SaveFails
<1> HIDE DEF left
<1>3. signed' \subseteq Children /\ loose' \subseteq Children
  BY <1>1, <1>2, SignsType
<1>4. saving' \in [Editors -> Save]
  BY Sentinels DEF SaveFails, TypeOK
<1> QED
  BY <1>3, <1>4 DEF SaveFails, TypeOK

LEMMA AutosaveType ==
  ASSUME TypeOK, NEW u \in Autosavers, NEW change, NEW scope \in SUBSET Children,
         NEW chosen \in SUBSET scope, Autosave(u, change, scope, chosen)
  PROVE  TypeOK'
<1> DEFINE gone == Deselected(scope, chosen)
<1>1. "draft" \in Status
  BY DEF Status
<1>2. status' \in Snapshot
  BY <1>1, SyncedType DEF TypeOK, Autosave
<1>3. /\ saving' = SavesLosing(gone) /\ DecisionsLose(gone)
      /\ Writes(change, change = "noticed")
  BY DEF Autosave
<1> HIDE DEF gone
<1>4. /\ saving' \in [Editors -> Save] /\ decision' \in [Deciders -> Decision]
      /\ signed' \subseteq Children /\ loose' \subseteq Children
  BY <1>3, SavesLosingType, LosesType, WritesType
<1>5. undoing' \subseteq Autosavers
  BY DEF Autosave, TypeOK
<1> QED
  BY <1>2, <1>4, <1>5 DEF Autosave, TypeOK

LEMMA FinishAutosaveType ==
  ASSUME TypeOK, NEW u \in Autosavers, NEW dies \in BOOLEAN, FinishAutosave(u, dies)
  PROVE  TypeOK'
<1> DEFINE left == IF dies THEN Approved ELSE {}
<1>1. left \in SUBSET Children /\ signed \in SUBSET Children
  BY DEF Approved, TypeOK
<1>2. Signs(signed, left)
  BY DEF FinishAutosave
<1> HIDE DEF left
<1>3. signed' \subseteq Children /\ loose' \subseteq Children
  BY <1>1, <1>2, SignsType
<1>4. status' \in Snapshot
  BY DEF FinishAutosave, TypeOK, Snapshot, Presence, Status
<1> QED
  BY <1>3, <1>4 DEF FinishAutosave, TypeOK

LEMMA ApiEditType == ASSUME TypeOK, ApiEdit PROVE TypeOK'
BY WritesType DEF ApiEdit, TypeOK

LEMMA ChildType ==
  ASSUME TypeOK, NEW c \in Children, ChildStep(c)
  PROVE  TypeOK'
<1>1. ASSUME NEW target \in Marks, Chip(c, target) PROVE TypeOK'
  <2> DEFINE base == IF target = "approved" THEN signed \cup {c} ELSE signed
  <2>1. base \in SUBSET Children /\ Signs(base, {})
    BY <1>1 DEF Chip, TypeOK
  <2> HIDE DEF base
  <2>2. signed' \subseteq Children /\ loose' \subseteq Children
    BY <2>1, SignsType
  <2>3. status' \in Snapshot
    BY <1>1, Tables, MarksAssumption DEF Chip, TypeOK, Snapshot
  <2> QED
    BY <1>1, <2>2, <2>3 DEF Chip, TypeOK
<1>2. ASSUME NEW outcome \in Status, EnginePublishes(c, outcome) PROVE TypeOK'
  <2>1. status' \in Snapshot
    BY <1>2, Tables DEF EnginePublishes, TypeOK, Snapshot
  <2> QED
    BY <1>2, <2>1 DEF EnginePublishes, TypeOK
<1> QED
  BY <1>1, <1>2 DEF ChildStep

LEMMA MoveAllType ==
  ASSUME TypeOK, NEW from, NEW to \in Presence, MoveAll(from, to)
  PROVE  TypeOK'
<1>1. status' \in Snapshot
  BY DEF MoveAll, TypeOK, Snapshot
<1>2. signed' \subseteq Children /\ loose' \subseteq Children
  BY SignsType DEF MoveAll, TypeOK
<1> QED
  BY <1>1, <1>2 DEF MoveAll, TypeOK

LEMMA NextType == TypeOK /\ [Next]_vars => TypeOK'
<1> SUFFICES ASSUME TypeOK, [Next]_vars PROVE TypeOK'
  OBVIOUS
<1>s. Scopes \subseteq SUBSET Children
  BY DEF Scopes
<1>1. ASSUME NEW r \in Deciders, DecisionStep(r) PROVE TypeOK'
  BY <1>1, OpenDecisionType, DecideType, DecisionFailsType DEF DecisionStep
<1>2. ASSUME NEW e \in Editors, SaveStep(e) PROVE TypeOK'
  BY <1>2, <1>s, StartSaveType, SyncReadType, SyncWriteType, FinishType, SaveFailsType
  DEF SaveStep
<1>3. ASSUME NEW u \in Autosavers, AutosaveStep(u) PROVE TypeOK'
  BY <1>3, <1>s, AutosaveType, FinishAutosaveType DEF AutosaveStep
<1>4. ASSUME NEW c \in Children, ChildStep(c) PROVE TypeOK'
  BY <1>4, ChildType
<1>5. CASE ApiEdit \/ ApiSchedule \/ ApiCancel
  <2>1. {"scheduled", "draft"} \subseteq Presence
    BY DEF Presence, Status
  <2> QED
    BY <1>5, <2>1, ApiEditType, MoveAllType DEF ApiSchedule, ApiCancel
<1>6. CASE UNCHANGED vars
  BY <1>6 DEF TypeOK, vars
<1> QED
  BY <1>1, <1>2, <1>3, <1>4, <1>5, <1>6 DEF Next

\* Every state of the workflow is well typed: no service, save, chip or API
\* call writes a status outside PlatformPost.Status.
THEOREM TypeCorrect == Spec => []TypeOK
<1>1. Init => TypeOK
  BY InitType
<1>2. TypeOK /\ [Next]_vars => TypeOK'
  BY NextType
<1> QED
  BY <1>1, <1>2, PTL DEF Spec

-----------------------------------------------------------------------------
(* ApprovedIsReviewed.  It is not inductive by itself: a save that ends must *)
(* be known to be of the branch that reverts when it is an edit.             *)

OnlySavesRevert == \A e \in Editors : saving[e].edited => saving[e].kind = "save"
IInv == TypeOK /\ OnlySavesRevert /\ ApprovedIsReviewed

\* No edit waits for its revert.
Quiet == (\A e \in Editors : ~saving[e].edited) /\ undoing = {}

\* What is approved after a step is signed or loose as the step computes it.
LEMMA SignsApproved ==
  ASSUME NEW base, NEW left, Signs(base, left), NEW c, status'[c] = "approved"
  PROVE  c \in (signed \cup loose)' <=> c \in base \cup loose \cup left
BY DEF Signs, Unsigned

\* A step that writes no history, or only adds to it, keeps the invariant when
\* nothing slips into "approved".
LEMMA NoneSlipsIn ==
  ASSUME ApprovedIsReviewed, Quiet' => Quiet, NEW base, NEW left, Signs(base, left),
         \A c \in Children : status'[c] = "approved" =>
           \/ status[c] = "approved" /\ (c \in signed => c \in base)
           \/ c \in base \cup left
  PROVE  ApprovedIsReviewed'
<1> SUFFICES ASSUME Quiet', NEW c \in Children, status'[c] = "approved"
             PROVE  c \in (signed \cup loose)'
  BY DEF ApprovedIsReviewed, Quiet
<1>1. status[c] = "approved" => c \in signed \cup loose
  BY DEF ApprovedIsReviewed, Quiet
<1>2. c \in base \cup loose \cup left
  BY <1>1
<1> QED
  BY <1>2, SignsApproved

\* A step that reads, or whose revert is still to come, or that leaves nothing
\* approved, keeps it too.
LEMMA NothingNew ==
  ASSUME ApprovedIsReviewed, Quiet' => Quiet, UNCHANGED <<signed, loose>>,
         \A c \in Children : status'[c] = "approved" => status[c] = "approved"
  PROVE  ApprovedIsReviewed'
BY DEF ApprovedIsReviewed, Quiet

LEMMA StillWaiting == ASSUME ~Quiet' PROVE ApprovedIsReviewed'
BY DEF ApprovedIsReviewed, Quiet

LEMMA AllSettled ==
  ASSUME \A c \in Children : status'[c] # "approved" PROVE ApprovedIsReviewed'
BY DEF ApprovedIsReviewed

LEMMA HopApproved ==
  ASSUME NEW s, Hop(s) = "approved" PROVE s = "approved"
BY DEF Hop

\* A sync creates no approved child.
LEMMA SyncedApproved ==
  ASSUME NEW scope, NEW chosen, NEW initial, initial # "approved", NEW c \in Children,
         Synced(scope, chosen, initial)[c] = "approved"
  PROVE  status[c] = "approved"
BY DEF Synced

\* A new content without a revert leaves its approved children loose.
LEMMA WritesReviewed ==
  ASSUME ApprovedIsReviewed, Quiet' => Quiet, NEW change, Writes(change, FALSE),
         \A c \in Children : status'[c] = "approved" => status[c] = "approved"
  PROVE  ApprovedIsReviewed'
<1> DEFINE base == IF change = "no" THEN signed ELSE {}
           left == IF change = "no" THEN {} ELSE Approved
<1>1. Signs(base, left)
  BY DEF Writes
<1>2. \A c \in Children : status'[c] = "approved" =>
        \/ status[c] = "approved" /\ (c \in signed => c \in base)
        \/ c \in base \cup left
  BY DEF Approved
<1> HIDE DEF base, left
<1> QED
  BY <1>1, <1>2, NoneSlipsIn

LEMMA DecideReviewed ==
  ASSUME ApprovedIsReviewed, NEW r \in Deciders, Decide(r)
  PROVE  ApprovedIsReviewed'
<1> DEFINE d == decision[r]
           base == IF To[d.service] = "approved" THEN signed \cup Moves(d) ELSE signed
<1>1. Signs(base, {})
  BY DEF Decide
<1>2. ASSUME NEW c \in Children, status'[c] = "approved"
      PROVE  (status[c] = "approved" /\ (c \in signed => c \in base)) \/ c \in base
  <2>1. CASE c \in Moves(d)
    <3>1. Target(d, c) = "approved"
      BY <1>2, <2>1 DEF Decide
    <3>2. To[d.service] = "approved"
      BY <3>1 DEF Target
    <3> QED
      BY <2>1, <3>2
  <2>2. CASE c \notin Moves(d)
    BY <1>2, <2>2 DEF Decide
  <2> QED
    BY <2>1, <2>2
<1>3. Quiet' => Quiet
  BY DEF Decide, Quiet
<1> HIDE DEF base, d
<1> QED
  BY <1>1, <1>2, <1>3, NoneSlipsIn

LEMMA DecisionReviewed ==
  ASSUME IInv, NEW r \in Deciders, DecisionStep(r)
  PROVE  IInv'
<1>1. TypeOK' /\ saving' = saving
  <2>1. [Next]_vars
    BY DEF Next
  <2> QED
    BY <2>1, NextType DEF IInv, DecisionStep, OpenDecision, Decide, DecisionFails
<1>2. OnlySavesRevert'
  BY <1>1 DEF IInv, OnlySavesRevert
<1>3. ASSUME NEW service, NEW by, OpenDecision(r, service, by) PROVE ApprovedIsReviewed'
  BY <1>3 DEF OpenDecision, IInv, ApprovedIsReviewed
<1>4. ASSUME DecisionFails(r) PROVE ApprovedIsReviewed'
  BY <1>4 DEF DecisionFails, IInv, ApprovedIsReviewed
<1>5. ASSUME Decide(r) PROVE ApprovedIsReviewed'
  BY <1>5, DecideReviewed DEF IInv
<1>6. ApprovedIsReviewed'
  BY <1>3, <1>4, <1>5 DEF DecisionStep
<1> QED
  BY <1>1, <1>2, <1>6 DEF IInv

LEMMA StartSaveReviewed ==
  ASSUME IInv, NEW e \in Editors, NEW kind \in SaveKinds, NEW change, NEW scope,
         NEW chosen, NEW goes, StartSave(e, kind, change, scope, chosen, goes)
  PROVE  OnlySavesRevert' /\ ApprovedIsReviewed'
<1> DEFINE reverts == kind = "save" /\ change = "noticed"
           gone == Deselected(scope, chosen)
           s == [NoSave EXCEPT !.kind = kind, !.edited = reverts, !.goes = goes, !.todo = chosen]
<1>1. /\ saving' = [SavesLosing(gone) EXCEPT ![e] = s]
      /\ saving[e] = NoSave /\ undoing' = undoing /\ Writes(change, reverts)
      /\ status' = Synced(scope, chosen \cap Selected, "draft")
  BY DEF StartSave
<1>2. s.edited = reverts /\ s.kind = kind /\ ~NoSave.edited
  BY DEF NoSave
<1>3. /\ saving'[e].edited = reverts /\ saving'[e].kind = kind
      /\ \A u \in Editors \ {e} : /\ saving'[u].edited = saving[u].edited
                                   /\ saving'[u].kind = saving[u].kind
  <2> HIDE DEF s, gone, reverts
  <2> QED
    BY <1>1, <1>2, SavesLosingType DEF IInv
<1>4. OnlySavesRevert'
  BY <1>3 DEF IInv, OnlySavesRevert
<1>5. CASE reverts
  <2>1. ~Quiet'
    BY <1>3, <1>5 DEF Quiet
  <2> QED
    BY <1>4, <2>1, StillWaiting
<1>6. CASE ~reverts
  <2>1. Quiet' => Quiet
    BY <1>1, <1>2, <1>3 DEF Quiet
  <2>2. \A c \in Children : status'[c] = "approved" => status[c] = "approved"
    BY <1>1, SyncedApproved
  <2>3. Writes(change, FALSE)
    BY <1>1, <1>6 DEF Writes
  <2> QED
    BY <1>4, <2>1, <2>2, <2>3, WritesReviewed DEF IInv
<1> QED
  BY <1>5, <1>6

\* Between its start and its end a save changes neither its kind nor whether
\* it will revert.
LEMMA SyncReadReviewed ==
  ASSUME IInv, NEW e \in Editors, NEW c \in Children, SyncRead(e, c)
  PROVE  OnlySavesRevert' /\ ApprovedIsReviewed'
<1> DEFINE initial == IF saving[e].kind = "save" /\ saving[e].goes # {}
                        THEN "scheduled" ELSE "draft"
           row == IF status[c] = "absent" THEN initial ELSE status[c]
           s == [saving[e] EXCEPT !.todo = @ \ {c}, !.held = {c}, !.seen = row, !.lost = FALSE]
<1>1. /\ status' = [status EXCEPT ![c] = row] /\ saving' = [saving EXCEPT ![e] = s]
      /\ UNCHANGED <<undoing, signed, loose>>
  BY DEF SyncRead
<1>2. row = "approved" => status[c] = "approved"
  OBVIOUS
<1> HIDE DEF row
<1>3. s.edited = saving[e].edited /\ s.kind = saving[e].kind
  BY DEF IInv, TypeOK, Save
<1> HIDE DEF s
<1>4. \A u \in Editors : saving'[u].edited = saving[u].edited /\ saving'[u].kind = saving[u].kind
  BY <1>1, <1>3 DEF IInv, TypeOK
<1>5. (Quiet' => Quiet) /\ OnlySavesRevert'
  BY <1>1, <1>4 DEF Quiet, IInv, OnlySavesRevert
<1>6. \A k \in Children : status'[k] = "approved" => status[k] = "approved"
  BY <1>1, <1>2 DEF IInv, TypeOK, Snapshot
<1> QED
  BY <1>1, <1>5, <1>6, NothingNew DEF IInv

LEMMA SyncWriteReviewed ==
  ASSUME IInv, NEW e \in Editors, SyncWrite(e)
  PROVE  OnlySavesRevert' /\ ApprovedIsReviewed'
<1> DEFINE left == {c \in saving[e].held : status[c] # "approved"}
           back == IF saving[e].lost THEN saving[e].held ELSE {}
<1>1. /\ status' = [c \in Children |-> IF c \in saving[e].held THEN saving[e].seen ELSE status[c]]
      /\ Signs(signed, left) /\ undoing' = undoing
      /\ saving' = [u \in Editors |->
           IF u = e THEN [saving[e] EXCEPT !.held = {}, !.seen = "absent", !.lost = FALSE]
                    ELSE [saving[u] EXCEPT !.lost = @ /\ saving[u].held \cap back = {}]]
  BY DEF SyncWrite
<1> HIDE DEF back
<1>2. \A u \in Editors : saving'[u].edited = saving[u].edited /\ saving'[u].kind = saving[u].kind
  BY <1>1 DEF IInv, TypeOK, Save
<1>3. (Quiet' => Quiet) /\ OnlySavesRevert'
  BY <1>1, <1>2 DEF Quiet, IInv, OnlySavesRevert
<1>4. \A c \in Children : status'[c] = "approved" =>
        \/ status[c] = "approved" /\ (c \in signed => c \in signed)
        \/ c \in signed \cup left
  BY <1>1
<1> HIDE DEF left
<1> QED
  BY <1>1, <1>3, <1>4, NoneSlipsIn DEF IInv

LEMMA EndsQuiet ==
  ASSUME IInv, NEW e \in Editors, NEW kinds, NEW after, Ends(e, kinds, after)
  PROVE  /\ OnlySavesRevert'
         /\ Signs(signed, {}) /\ status' = after
         /\ ~saving[e].edited => (Quiet' => Quiet)
         /\ saving[e].edited => "save" \in kinds
<1>1. saving' = [saving EXCEPT ![e] = NoSave] /\ undoing' = undoing
  BY DEF Ends
<1>2. ~NoSave.edited
  BY DEF NoSave
<1>3. \A u \in Editors \ {e} : saving'[u] = saving[u]
  BY <1>1 DEF IInv, TypeOK
<1>4. saving'[e] = NoSave
  BY <1>1 DEF IInv, TypeOK
<1>5. OnlySavesRevert'
  BY <1>2, <1>3, <1>4 DEF IInv, OnlySavesRevert
<1>6. ~saving[e].edited => (Quiet' => Quiet)
  BY <1>1, <1>3 DEF Quiet
<1>7. saving[e].edited => "save" \in kinds
  BY DEF Ends, IInv, OnlySavesRevert
<1> QED
  BY <1>5, <1>6, <1>7 DEF Ends

LEMMA FinishReviewed ==
  ASSUME IInv, NEW e \in Editors,
         \/ FinishSave(e)
         \/ \E full \in BOOLEAN : FinishQueue(e, full)
         \/ \E service \in {"submit", "resubmit"} : FinishSubmit(e, service)
  PROVE  OnlySavesRevert' /\ ApprovedIsReviewed'
<1>u. ASSUME NEW after, NEW kinds, Ends(e, kinds, after), ~saving[e].edited,
             \A c \in Children : after[c] = "approved" => status[c] = "approved"
      PROVE  OnlySavesRevert' /\ ApprovedIsReviewed'
  <2>1. /\ OnlySavesRevert' /\ Signs(signed, {}) /\ status' = after /\ (Quiet' => Quiet)
    BY <1>u, EndsQuiet
  <2>2. \A c \in Children : status'[c] = "approved" =>
          \/ status[c] = "approved" /\ (c \in signed => c \in signed)
          \/ c \in signed \cup {}
    BY <1>u, <2>1
  <2> QED
    BY <2>1, <2>2, NoneSlipsIn DEF IInv
<1>1. CASE FinishSave(e)
  <2> DEFINE reverted == IF saving[e].edited THEN ToRevert ELSE {}
             moved == (saving[e].goes \cap Selected) \ reverted
             after == [c \in Children |-> IF c \in reverted THEN "pending_review"
                                          ELSE IF c \in moved THEN Hop(status[c])
                                          ELSE status[c]]
  <2>1. Ends(e, {"save"}, after)
    BY <1>1 DEF FinishSave
  <2>2. \A c \in Children : after[c] = "approved" => status[c] = "approved" /\ c \notin reverted
    BY HopApproved
  <2>3. CASE saving[e].edited
    <3>1. status' = after /\ OnlySavesRevert'
      BY <2>1, EndsQuiet
    <3>2. \A c \in Children : status[c] = "approved" => c \in reverted
      BY <2>3 DEF ToRevert
    <3> HIDE DEF after, reverted
    <3> QED
      BY <2>2, <3>1, <3>2, AllSettled
  <2>4. CASE ~saving[e].edited
    <3> HIDE DEF after
    <3> QED
      BY <1>u, <2>1, <2>2, <2>4
  <2> QED
    BY <2>3, <2>4
<1>2. ASSUME NEW full \in BOOLEAN, FinishQueue(e, full)
      PROVE  OnlySavesRevert' /\ ApprovedIsReviewed'
  <2> DEFINE after == [c \in Children |->
               IF c \in saving[e].goes /\ ~full THEN Hop(status[c]) ELSE status[c]]
  <2>1. Ends(e, {"queue"}, after)
    BY <1>2 DEF FinishQueue
  <2>2. \A c \in Children : after[c] = "approved" => status[c] = "approved"
    BY HopApproved
  <2> HIDE DEF after
  <2>3. ~saving[e].edited
    BY <2>1, EndsQuiet
  <2> QED
    BY <1>u, <2>1, <2>2, <2>3
<1>3. ASSUME NEW service \in {"submit", "resubmit"}, FinishSubmit(e, service)
      PROVE  OnlySavesRevert' /\ ApprovedIsReviewed'
  <2> DEFINE after == [c \in Children |->
               IF status[c] \in From[service] THEN To[service] ELSE status[c]]
  <2>1. Ends(e, {service}, after)
    BY <1>3 DEF FinishSubmit
  <2>2. To[service] # "approved"
    BY DEF To
  <2>3. \A c \in Children : after[c] = "approved" => status[c] = "approved"
    BY <2>2
  <2> HIDE DEF after
  <2>4. ~saving[e].edited
    BY <2>1, EndsQuiet
  <2> QED
    BY <1>u, <2>1, <2>3, <2>4
<1> QED
  BY <1>1, <1>2, <1>3

\* A save that dies before its revert leaves its approved children loose.
LEMMA SaveFailsReviewed ==
  ASSUME IInv, NEW e \in Editors, SaveFails(e)
  PROVE  OnlySavesRevert' /\ ApprovedIsReviewed'
<1> DEFINE left == IF saving[e].edited THEN Approved ELSE {}
<1>1. /\ saving' = [saving EXCEPT ![e] = NoSave] /\ undoing' = undoing
      /\ status' = status /\ Signs(signed, left)
  BY DEF SaveFails
<1>2. saving'[e] = NoSave /\ ~NoSave.edited /\ \A u \in Editors \ {e} : saving'[u] = saving[u]
  BY <1>1 DEF IInv, TypeOK, NoSave
<1>3. OnlySavesRevert'
  BY <1>2 DEF IInv, OnlySavesRevert
<1>4. CASE ~saving[e].edited
  <2>1. Quiet' => Quiet
    BY <1>1, <1>2, <1>4 DEF Quiet
  <2>2. \A c \in Children : status'[c] = "approved" =>
          \/ status[c] = "approved" /\ (c \in signed => c \in signed)
          \/ c \in signed \cup left
    BY <1>1
  <2> HIDE DEF left
  <2> QED
    BY <1>1, <1>3, <2>1, <2>2, NoneSlipsIn DEF IInv
<1>5. CASE saving[e].edited
  <2> SUFFICES ASSUME NEW c \in Children, status'[c] = "approved"
               PROVE  c \in (signed \cup loose)'
    BY <1>3 DEF ApprovedIsReviewed
  <2>1. c \in left
    BY <1>5 DEF Approved
  <2> HIDE DEF left
  <2> QED
    BY <1>1, <2>1, SignsApproved
<1> QED
  BY <1>4, <1>5

LEMMA SaveReviewed ==
  ASSUME IInv, NEW e \in Editors, SaveStep(e)
  PROVE  IInv'
<1>1. [Next]_vars
  BY DEF Next
<1>2. OnlySavesRevert' /\ ApprovedIsReviewed'
  BY StartSaveReviewed, SyncReadReviewed, SyncWriteReviewed, FinishReviewed, SaveFailsReviewed
  DEF SaveStep
<1> QED
  BY <1>1, <1>2, NextType DEF IInv

LEMMA AutosaveReviewed ==
  ASSUME IInv, NEW u \in Autosavers, AutosaveStep(u)
  PROVE  IInv'
<1>1. TypeOK'
  <2>1. [Next]_vars
    BY DEF Next
  <2> QED
    BY <2>1, NextType DEF IInv
<1>2. ASSUME NEW change, NEW scope, NEW chosen, Autosave(u, change, scope, chosen)
      PROVE  OnlySavesRevert' /\ ApprovedIsReviewed'
  <2> DEFINE gone == Deselected(scope, chosen)
  <2>1. /\ saving' = SavesLosing(gone) /\ Writes(change, change = "noticed")
        /\ status' = Synced(scope, chosen, "draft")
        /\ undoing' = IF change = "noticed" THEN undoing \cup {u} ELSE undoing
    BY <1>2 DEF Autosave
  <2> HIDE DEF gone
  <2>2. \A e \in Editors : /\ saving'[e].edited = saving[e].edited
                          /\ saving'[e].kind = saving[e].kind
    BY <2>1, SavesLosingType DEF IInv
  <2>3. OnlySavesRevert'
    BY <2>2 DEF IInv, OnlySavesRevert
  <2>4. CASE change = "noticed"
    <3>1. ~Quiet'
      BY <2>1, <2>4 DEF Quiet
    <3> QED
      BY <2>3, <3>1, StillWaiting
  <2>5. CASE change # "noticed"
    <3>1. Quiet' => Quiet
      BY <2>1, <2>2, <2>5 DEF Quiet
    <3>2. \A c \in Children : status'[c] = "approved" => status[c] = "approved"
      BY <2>1, SyncedApproved
    <3>3. Writes(change, FALSE)
      BY <2>1, <2>5 DEF Writes
    <3> QED
      BY <2>3, <3>1, <3>2, <3>3, WritesReviewed DEF IInv
  <2> QED
    BY <2>4, <2>5
<1>3. ASSUME NEW dies \in BOOLEAN, FinishAutosave(u, dies)
      PROVE  OnlySavesRevert' /\ ApprovedIsReviewed'
  <2> DEFINE left == IF dies THEN Approved ELSE {}
  <2>1. OnlySavesRevert' /\ Signs(signed, left)
    BY <1>3 DEF FinishAutosave, IInv, OnlySavesRevert
  <2>2. CASE dies
    <3> SUFFICES ASSUME NEW c \in Children, status'[c] = "approved"
                 PROVE  c \in (signed \cup loose)'
      BY <2>1 DEF ApprovedIsReviewed
    <3>1. c \in left
      BY <2>2 DEF Approved
    <3> HIDE DEF left
    <3> QED
      BY <2>1, <3>1, SignsApproved
  <2>3. CASE ~dies
    <3>1. \A c \in Children : status'[c] # "approved"
      BY <1>3, <2>3 DEF FinishAutosave, ToRevert
    <3> QED
      BY <2>1, <3>1, AllSettled
  <2> QED
    BY <2>2, <2>3
<1> QED
  BY <1>1, <1>2, <1>3 DEF AutosaveStep, IInv

LEMMA ChildReviewed ==
  ASSUME IInv, NEW c \in Children, ChildStep(c)
  PROVE  ApprovedIsReviewed'
<1>1. Quiet' => Quiet
  BY DEF ChildStep, Chip, EnginePublishes, Quiet
<1>2. ASSUME NEW target \in Marks, Chip(c, target) PROVE ApprovedIsReviewed'
  <2> DEFINE base == IF target = "approved" THEN signed \cup {c} ELSE signed
  <2>1. Signs(base, {}) /\ status' = [status EXCEPT ![c] = target]
    BY <1>2 DEF Chip
  <2>2. \A k \in Children : status'[k] = "approved" =>
          \/ status[k] = "approved" /\ (k \in signed => k \in base)
          \/ k \in base \cup {}
    BY <2>1 DEF IInv, TypeOK, Snapshot
  <2> HIDE DEF base
  <2> QED
    BY <1>1, <2>1, <2>2, NoneSlipsIn DEF IInv
<1>3. ASSUME NEW outcome \in Status, EnginePublishes(c, outcome) PROVE ApprovedIsReviewed'
  <2>1. outcome # "approved"
    BY <1>3 DEF EnginePublishes
  <2>2. \A k \in Children : status'[k] = "approved" => status[k] = "approved"
    BY <1>3, <2>1 DEF EnginePublishes, IInv, TypeOK, Snapshot
  <2> QED
    BY <1>1, <1>3, <2>2, NothingNew DEF EnginePublishes, IInv
<1> QED
  BY <1>2, <1>3 DEF ChildStep

LEMMA ApiReviewed ==
  ASSUME IInv, ApiEdit \/ ApiSchedule \/ ApiCancel
  PROVE  ApprovedIsReviewed'
<1>1. Quiet' => Quiet
  BY DEF ApiEdit, ApiSchedule, ApiCancel, MoveAll, Quiet
<1>2. CASE ApiEdit
  BY <1>1, <1>2, WritesReviewed DEF ApiEdit, IInv
<1>3. ASSUME NEW from, NEW to, to # "approved", MoveAll(from, to) PROVE ApprovedIsReviewed'
  <2>1. Signs(signed, {})
    BY <1>3 DEF MoveAll
  <2>2. \A c \in Children : status'[c] = "approved" =>
          \/ status[c] = "approved" /\ (c \in signed => c \in signed)
          \/ c \in signed \cup {}
    BY <1>3 DEF MoveAll
  <2> QED
    BY <1>1, <2>1, <2>2, NoneSlipsIn DEF IInv
<1> QED
  BY <1>2, <1>3 DEF ApiSchedule, ApiCancel

LEMMA NextReviewed == IInv /\ [Next]_vars => IInv'
<1> SUFFICES ASSUME IInv, [Next]_vars PROVE IInv'
  OBVIOUS
<1>1. TypeOK'
  BY NextType DEF IInv
<1>2. ASSUME saving' = saving PROVE OnlySavesRevert'
  BY <1>2 DEF IInv, OnlySavesRevert
<1>3. ASSUME NEW r \in Deciders, DecisionStep(r) PROVE IInv'
  BY <1>3, DecisionReviewed
<1>4. ASSUME NEW e \in Editors, SaveStep(e) PROVE IInv'
  BY <1>4, SaveReviewed
<1>5. ASSUME NEW u \in Autosavers, AutosaveStep(u) PROVE IInv'
  BY <1>5, AutosaveReviewed
<1>6. ASSUME NEW c \in Children, ChildStep(c) PROVE IInv'
  <2>1. saving' = saving
    BY <1>6 DEF ChildStep, Chip, EnginePublishes
  <2> QED
    BY <1>1, <1>2, <1>6, <2>1, ChildReviewed DEF IInv
<1>7. CASE ApiEdit \/ ApiSchedule \/ ApiCancel
  <2>1. saving' = saving
    BY <1>7 DEF ApiEdit, ApiSchedule, ApiCancel, MoveAll
  <2> QED
    BY <1>1, <1>2, <1>7, <2>1, ApiReviewed DEF IInv
<1>8. CASE UNCHANGED vars
  BY <1>1, <1>2, <1>8 DEF IInv, ApprovedIsReviewed, vars
<1> QED
  BY <1>3, <1>4, <1>5, <1>6, <1>7, <1>8 DEF Next

\* However many saves, autosaves and decisions overlap, whatever they read
\* before they write, and wherever a save dies: once no edit waits for its
\* revert, a child that says "approved" was approved after the last edit, or
\* is one that a step listed in "loose" left so.
THEOREM ApprovalsAreFresh == Spec => []ApprovedIsReviewed
<1>1. Init => IInv
  <2>1. Init => OnlySavesRevert /\ ApprovedIsReviewed
    BY DEF Init, OnlySavesRevert, NoSave, ApprovedIsReviewed
  <2> QED
    BY <2>1, InitType DEF IInv
<1>2. IInv /\ [Next]_vars => IInv'
  BY NextReviewed
<1>3. IInv => ApprovedIsReviewed
  BY DEF IInv
<1> QED
  BY <1>1, <1>2, <1>3, PTL DEF Spec

=============================================================================
