---------------------------- MODULE OrgDeletion ----------------------------
(***************************************************************************)
(* The deletion of an organization after a grace period                     *)
(* (apps/organizations).  A request writes the time and queues a task for   *)
(* it; a cancel removes the tasks and clears the time; the task reads the   *)
(* organization again before it deletes it, and settles the members.        *)
(* Requests are numbered; their grace periods end in that order.            *)
(***************************************************************************)
EXTENDS Naturals

CONSTANTS
  Members,      \* the members other than the owner
  MaxRequests   \* bound: deletions requested

VARIABLES
  scheduled,  \* deletion_scheduled_for: the request that set it; 0: none
  latest,     \* requests made
  ripe,       \* requests whose grace period is over
  tasks,      \* execute_scheduled_org_deletion tasks queued
  web,        \* a request or a cancel at work, and its number
  worker,     \* the task at work: idle, deleting or settling
  gone,
  homeless,   \* members whose organization is gone and who have none yet
  crossed,    \* history: a cancel came while the worker was about to delete
  cut         \* history: a web request was killed or ran beside another
              \* between its two writes, or the worker while it settled

vars == <<scheduled, latest, ripe, tasks, web, worker, gone, homeless, crossed, cut>>

Numbers == 0..MaxRequests
Idle == [step |-> "idle", number |-> 0]

TypeOK ==
  /\ scheduled \in Numbers /\ latest \in Numbers /\ ripe \in Numbers
  /\ tasks \subseteq 1..MaxRequests
  /\ web \in [1..2 -> [step: {"idle", "enqueue", "clear"}, number: Numbers]]
  /\ worker \in [step: {"idle", "delete", "settle"}, number: Numbers]
  /\ gone \in BOOLEAN /\ homeless \subseteq Members
  /\ crossed \in BOOLEAN /\ cut \in BOOLEAN

Init ==
  /\ scheduled = 0 /\ latest = 0 /\ ripe = 0 /\ tasks = {}
  /\ web = [r \in 1..2 |-> Idle] /\ worker = Idle
  /\ gone = FALSE /\ homeless = {}
  /\ crossed = FALSE /\ cut = FALSE

Begins(r, step, number) ==
  /\ web[r].step = "idle" /\ ~gone
  /\ web' = [web EXCEPT ![r] = [step |-> step, number |-> number]]
  /\ cut' = (cut \/ \E q \in 1..2 : web[q].step # "idle")

Ends(r) == web' = [web EXCEPT ![r] = Idle]

-----------------------------------------------------------------------------
\* _handle_org_deletion by the owner ...
Request(r) ==
  /\ latest < MaxRequests
  /\ Begins(r, "enqueue", latest + 1)
  /\ latest' = latest + 1 /\ scheduled' = latest + 1
  /\ UNCHANGED <<ripe, tasks, worker, gone, homeless, crossed>>

\* ... and its second write.
Enqueue(r) ==
  /\ web[r].step = "enqueue" /\ Ends(r)
  /\ tasks' = tasks \cup {web[r].number}
  /\ UNCHANGED <<scheduled, latest, ripe, worker, gone, homeless, crossed, cut>>

\* _handle_cancel_deletion deletes the tasks ...
Cancel(r) ==
  /\ Begins(r, "clear", 0)
  /\ tasks' = {}
  /\ UNCHANGED <<scheduled, latest, ripe, worker, gone, homeless, crossed>>

\* ... and clears the time; an organization gone by now has no row.
Clear(r) ==
  /\ web[r].step = "clear" /\ Ends(r)
  /\ scheduled' = IF gone THEN scheduled ELSE 0
  /\ crossed' = (crossed \/ worker.step # "idle")
  /\ UNCHANGED <<latest, ripe, tasks, worker, gone, homeless, cut>>

\* _handle_immediate_org_deletion needs no grace period.
DeleteNow(r) ==
  /\ web[r].step = "idle" /\ ~gone /\ worker.step = "idle"
  /\ tasks' = {}
  /\ gone' = TRUE /\ crossed' = TRUE
  /\ UNCHANGED <<scheduled, latest, ripe, web, worker, homeless, cut>>

KillWeb(r) ==
  /\ web[r].step # "idle" /\ Ends(r)
  /\ cut' = TRUE
  /\ UNCHANGED <<scheduled, latest, ripe, tasks, worker, gone, homeless, crossed>>

GraceEnds ==
  /\ ripe < latest /\ ripe' = ripe + 1
  /\ UNCHANGED <<scheduled, latest, tasks, web, worker, gone, homeless, crossed, cut>>

-----------------------------------------------------------------------------
(* execute_scheduled_org_deletion *)

\* Mutant: the task trusts that a cancel has removed it.
Run_NoRecheck(n) ==
  /\ worker.step = "idle" /\ n \in tasks /\ n <= ripe
  /\ IF gone THEN tasks' = tasks \ {n} /\ UNCHANGED worker
     ELSE worker' = [step |-> "delete", number |-> n] /\ UNCHANGED tasks
  /\ UNCHANGED <<scheduled, latest, ripe, web, gone, homeless, crossed, cut>>

\* The task reads the organization: it is done when the organization is gone,
\* its deletion cancelled, or put off by a later request.
Run(n) ==
  /\ worker.step = "idle" /\ n \in tasks /\ n <= ripe
  /\ IF gone \/ scheduled = 0 \/ scheduled > ripe
     THEN tasks' = tasks \ {n} /\ UNCHANGED worker
     ELSE worker' = [step |-> "delete", number |-> n] /\ UNCHANGED tasks
  /\ UNCHANGED <<scheduled, latest, ripe, web, gone, homeless, crossed, cut>>

\* hard_delete removes everything of the organization ...
Delete ==
  /\ worker.step = "delete"
  /\ gone' = TRUE /\ homeless' = Members
  /\ worker' = [worker EXCEPT !.step = "settle"]
  /\ UNCHANGED <<scheduled, latest, ripe, tasks, web, crossed, cut>>

\* ... and gives each member an organization of their own.
Settle(m) ==
  /\ worker.step = "settle" /\ m \in homeless
  /\ homeless' = homeless \ {m}
  /\ UNCHANGED <<scheduled, latest, ripe, tasks, web, worker, gone, crossed, cut>>

Done ==
  /\ worker.step = "settle" /\ homeless = {}
  /\ tasks' = tasks \ {worker.number} /\ worker' = Idle
  /\ UNCHANGED <<scheduled, latest, ripe, web, gone, homeless, crossed, cut>>

\* A task killed runs again, and finds the organization gone if it was.
Kill ==
  /\ worker.step # "idle"
  /\ worker' = Idle
  /\ cut' = (cut \/ worker.step = "settle")
  /\ UNCHANGED <<scheduled, latest, ripe, tasks, web, gone, homeless, crossed>>

Next ==
  \/ \E r \in 1..2 : Request(r) \/ Enqueue(r) \/ Cancel(r) \/ Clear(r) \/ DeleteNow(r) \/ KillWeb(r)
  \/ GraceEnds \/ Delete \/ Done \/ Kill
  \/ \E n \in 1..MaxRequests : Run(n)
  \/ \E m \in Members : Settle(m)

\* Time passes, the worker takes ripe tasks, and is not killed for ever.
WebStep == \E r \in 1..2 : Enqueue(r) \/ Clear(r)
RunStep == \E n \in 1..MaxRequests : Run(n)
WorkerStep == Delete \/ Done \/ \E m \in Members : Settle(m)
Fairness ==
  WF_vars(GraceEnds) /\ WF_vars(WebStep) /\ SF_vars(RunStep) /\ SF_vars(WorkerStep)

Spec == Init /\ [][Next]_vars /\ Fairness

-----------------------------------------------------------------------------
\* An organization whose deletion was cancelled is kept, though the task or an
\* earlier one may still be queued, unless the cancel met the deletion itself.
CancelledIsKept == gone => scheduled # 0 \/ crossed

\* A deletion that stays requested happens once the grace period is over, and
\* every member ends with an organization, however often the task is killed
\* before it deletes and whatever tasks of earlier requests ran for nothing.
Deleted == (gone /\ homeless = {}) \/ cut \/ crossed
RequestedIsDeleted == <>[](scheduled # 0) => []<>Deleted
=============================================================================
