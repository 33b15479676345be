----------------------------- MODULE Activation -----------------------------
(***************************************************************************)
(* Activating a paid Intelligence subscription                             *)
(* (apps/intelligence/views.py, apps/intelligence/tasks.py).  An admin's    *)
(* request validates the paid checkout session with the Intelligence        *)
(* service, commits it there, and stores the subscription with the API key  *)
(* the commit minted.  When the service does not answer, the request leaves *)
(* a PendingActivation for the background worker, which does the same with  *)
(* a bounded number of attempts.  A commit that is replayed returns no key; *)
(* a subscription without one asks for a new key, which revokes the old.    *)
(*                                                                         *)
(* One organization and one paid session; Checkout models how it comes to   *)
(* be paid.  The service's keys are told apart only by whether it still     *)
(* accepts them.                                                            *)
(***************************************************************************)
EXTENDS Naturals

CONSTANTS
  Users,        \* members of the organization, each with one request at a time
  MaxAttempts,  \* WORKER_MAX_ATTEMPTS
  MaxTasks,     \* bound: queued runs that are told apart
  MaxKills      \* bound: processes killed

Worker == "worker"
Nobody == "nobody"
Actors == Users \cup {Worker}

VARIABLES
  admin,    \* members with the role OWNER or ADMIN
  attempt,  \* the StudioCheckoutAttempt of the session
  pending,  \* the PendingActivation row
  tasks,    \* runs of the activation task in the worker's queue
  at,       \* where each request and the worker is
  held,     \* the key in the commit's answer it holds
  sub,      \* the IntelligenceSubscription: status and API key
  account,  \* external: the account at the Intelligence service
  seen,     \* the worker's reconciliation: the status it read, and the answer
  kills,    \* processes killed so far
  apart     \* history: no two actors held answers to the commit at once

vars == <<admin, attempt, pending, tasks, at, held, sub, account, seen, kills, apart>>
queue == <<pending, tasks>>
local == <<attempt, sub>>

Statuses == {"active", "past_due", "canceled"}
Claimable == {"pending", "in_progress"}
Ends == {"rejected_unauthorized", "provisioning_failed", "completed"}
Keys == {"none", "live", "dead"}
Calling == {"preflight", "commit"}
Places == Calling \cup {"idle", "validated", "finalize", "deferred", "queued", "loaded", "answered"}
NotSeen == [was |-> "none", now |-> "none"]

TypeOK ==
  /\ admin \subseteq Users
  /\ attempt \in {"open", "activated"}
  /\ pending \in [status: {"absent"} \cup Claimable \cup Ends,
                  user: Users \cup {Nobody}, attempts: 0..MaxAttempts]
  /\ tasks \in 0..MaxTasks
  /\ at \in [Actors -> Places]
  /\ held \in [Actors -> Keys]
  /\ sub \in [status: {"none"} \cup Statuses, key: Keys]
  /\ account \in {"none"} \cup Statuses
  /\ seen \in [was: {"none"} \cup Statuses, now: {"none"} \cup Statuses]
  /\ kills \in 0..MaxKills /\ apart \in BOOLEAN

Init ==
  /\ admin = Users
  /\ attempt = "open"
  /\ pending = [status |-> "absent", user |-> Nobody, attempts |-> 0]
  /\ tasks = 0
  /\ at = [x \in Actors |-> "idle"]
  /\ held = [x \in Actors |-> "none"]
  /\ sub = [status |-> "none", key |-> "none"]
  /\ account = "none"
  /\ seen = NotSeen
  /\ kills = 0 /\ apart = TRUE

-----------------------------------------------------------------------------
(* Starting, ending, handing over *)

Go(x, place) == at' = [at EXCEPT ![x] = place]

\* The GET of the return page, or recover.
Activate(u) ==
  /\ at[u] = "idle" /\ u \in admin
  /\ Go(u, "preflight")
  /\ UNCHANGED <<admin, queue, held, local, account, seen, kills, apart>>

\* The task claims the row under its lock; a settled row ends the run.
Claim ==
  /\ at[Worker] = "idle" /\ tasks > 0
  /\ IF pending.status \in Claimable
     THEN /\ pending' = [pending EXCEPT !.status = "in_progress",
                           !.attempts = IF @ < MaxAttempts THEN @ + 1 ELSE @]
          /\ Go(Worker, "preflight") /\ UNCHANGED tasks
     ELSE tasks' = tasks - 1 /\ UNCHANGED <<pending, at>>
  /\ UNCHANGED <<admin, held, local, account, seen, kills, apart>>

\* The user sees a page; the worker saves how the row ended.
End(x, status) ==
  /\ Go(x, "idle")
  /\ IF x = Worker
     THEN pending' = [pending EXCEPT !.status = status] /\ tasks' = tasks - 1
     ELSE UNCHANGED queue

\* _reschedule_or_fail of the worker: a new run for this one, until the
\* attempts are used up.  A request queues the activation.
Defer(x) ==
  IF x = Worker
  THEN /\ Go(x, "idle")
       /\ IF pending.attempts >= MaxAttempts
          THEN pending' = [pending EXCEPT !.status = "provisioning_failed"] /\ tasks' = tasks - 1
          ELSE pending' = [pending EXCEPT !.status = "pending"] /\ UNCHANGED tasks
  ELSE Go(x, "deferred") /\ UNCHANGED queue

\* _queue_pending_activation writes the row, unless another user's row has
\* the session, which is an error ...
Queue(u) ==
  /\ at[u] = "deferred"
  /\ IF pending.user \in {Nobody, u}
     THEN /\ pending' = [pending EXCEPT !.status = "pending", !.user = u]
          /\ Go(u, "queued")
     ELSE Go(u, "idle") /\ UNCHANGED pending
  /\ UNCHANGED <<admin, tasks, held, local, account, seen, kills, apart>>

\* ... and then schedules the task.
Enqueue(u) ==
  /\ at[u] = "queued"
  /\ Go(u, "idle")
  /\ tasks' = IF tasks < MaxTasks THEN tasks + 1 ELSE tasks
  /\ UNCHANGED <<admin, pending, held, local, account, seen, kills, apart>>

-----------------------------------------------------------------------------
(* The two phases *)

PreflightOk(x) ==
  /\ at[x] = "preflight"
  /\ Go(x, "validated")
  /\ UNCHANGED <<admin, queue, held, local, account, seen, kills, apart>>

\* The service refuses the session or the token, or names another
\* organization; for a request, every answer that is not transient.
Rejected(x) ==
  /\ at[x] \in Calling
  /\ End(x, "provisioning_failed")
  /\ UNCHANGED <<admin, held, local, account, seen, kills, apart>>

Unavailable(x) ==
  /\ at[x] \in Calling
  /\ Defer(x)
  /\ UNCHANGED <<admin, held, local, account, seen, kills, apart>>

\* The role is checked again before the commit: the worker checks the user
\* who queued the activation.
Vet(x) ==
  /\ at[x] = "validated"
  /\ LET user == IF x = Worker THEN pending.user ELSE x IN
       IF user \in admin THEN Go(x, "commit") /\ UNCHANGED queue
       ELSE End(x, "rejected_unauthorized")
  /\ UNCHANGED <<admin, held, local, account, seen, kills, apart>>

\* The first commit creates the account and mints a key; a replay does not.
CommitOk(x) ==
  /\ at[x] = "commit"
  /\ Go(x, "finalize")
  /\ held' = [held EXCEPT ![x] = IF account = "none" THEN "live" ELSE "none"]
  /\ account' = IF account = "none" THEN "active" ELSE account
  /\ apart' = (apart /\ \A y \in Actors \ {x} : at[y] # "finalize")
  /\ UNCHANGED <<admin, queue, local, seen, kills>>

\* The commit took effect and its answer is lost.
CommitLost(x) ==
  /\ at[x] = "commit" /\ account = "none"
  /\ account' = "active"
  /\ Defer(x)
  /\ UNCHANGED <<admin, held, local, seen, kills, apart>>

-----------------------------------------------------------------------------
(* _finalize_local_subscription: one transaction with the row locked *)

NeedsKey(x) == held[x] = "none" /\ sub.key = "none"
Revoked(key) == IF key = "live" THEN "dead" ELSE key
Rotated == [y \in Actors |-> Revoked(held[y])]

\* Mutant: no key is asked for when the commit was replayed.
Finalize_NoRotate(x) ==
  /\ at[x] = "finalize"
  /\ sub' = [status |-> "active", key |-> IF held[x] # "none" THEN held[x] ELSE sub.key]
  /\ held' = [held EXCEPT ![x] = "none"]
  /\ attempt' = "activated"
  /\ End(x, "completed")
  /\ UNCHANGED <<admin, account, seen, kills, apart>>

\* The minted key is stored; without one, and without a stored key, a new
\* one is asked for and every other key of the account stops working.
Write(x) ==
  /\ at[x] = "finalize"
  /\ sub' = [status |-> "active",
             key |-> IF NeedsKey(x) THEN "live" ELSE IF held[x] # "none" THEN held[x] ELSE sub.key]
  /\ held' = [(IF NeedsKey(x) THEN Rotated ELSE held) EXCEPT ![x] = "none"]
  /\ attempt' = "activated"

Finalize(x) ==
  /\ Write(x) /\ End(x, "completed")
  /\ UNCHANGED <<admin, account, seen, kills, apart>>

\* The process is killed after the transaction: the worker's row stays in
\* progress and its run in the queue.
KillWritten(x) ==
  /\ Write(x) /\ kills < MaxKills
  /\ kills' = kills + 1
  /\ Go(x, "idle")
  /\ UNCHANGED <<admin, queue, account, seen, apart>>

\* Asking for the key fails, before or after the service made one.
RotateFails(x) ==
  /\ at[x] = "finalize" /\ NeedsKey(x)
  /\ held' \in {held, Rotated}
  /\ Defer(x)
  /\ UNCHANGED <<admin, local, account, seen, kills, apart>>

-----------------------------------------------------------------------------
(* Reconciliation, every now and then and after a visit *)

\* Mutant: only rows that are active are reconciled.
Load_ActiveOnly ==
  /\ at[Worker] = "idle" /\ sub.status = "active"
  /\ Go(Worker, "loaded")
  /\ seen' = [was |-> sub.status, now |-> "none"]
  /\ UNCHANGED <<admin, queue, held, local, account, kills, apart>>

\* The worker reads the subscriptions that are not canceled ...
Load ==
  /\ at[Worker] = "idle" /\ sub.status \notin {"none", "canceled"}
  /\ Go(Worker, "loaded")
  /\ seen' = [was |-> sub.status, now |-> "none"]
  /\ UNCHANGED <<admin, queue, held, local, account, kills, apart>>

\* ... asks for the account ...
Ask ==
  /\ at[Worker] = "loaded"
  /\ Go(Worker, "answered")
  /\ seen' = [seen EXCEPT !.now = account]
  /\ UNCHANGED <<admin, queue, held, local, account, kills, apart>>

AskFails ==
  /\ at[Worker] = "loaded"
  /\ Go(Worker, "idle") /\ seen' = NotSeen
  /\ UNCHANGED <<admin, queue, held, local, account, kills, apart>>

\* ... and saves a status that differs from the one it read.
Apply ==
  /\ at[Worker] = "answered"
  /\ Go(Worker, "idle") /\ seen' = NotSeen
  /\ sub' = IF seen.now # seen.was THEN [sub EXCEPT !.status = seen.now] ELSE sub
  /\ UNCHANGED <<admin, queue, held, attempt, account, kills, apart>>

-----------------------------------------------------------------------------
(* The environment *)

ChangeRole(u) ==
  /\ admin' = IF u \in admin THEN admin \ {u} ELSE admin \cup {u}
  /\ UNCHANGED <<attempt, pending, tasks, at, held, sub, account, seen, kills, apart>>

\* A payment fails or is made up for, or the customer cancels.
Bill(status) ==
  /\ account \in {"active", "past_due"} /\ status # account
  /\ account' = status
  /\ UNCHANGED <<admin, queue, at, held, local, seen, kills, apart>>

\* A process is killed, maybe after the service made a new key.  A run of
\* the worker stays in its queue until it has ended.
Kill(x) ==
  /\ at[x] # "idle" /\ kills < MaxKills
  /\ kills' = kills + 1
  /\ Go(x, "idle")
  /\ \E h \in {held} \cup (IF at[x] = "finalize" /\ NeedsKey(x) THEN {Rotated} ELSE {}) :
       held' = [h EXCEPT ![x] = "none"]
  /\ seen' = IF x = Worker THEN NotSeen ELSE seen
  /\ UNCHANGED <<admin, queue, local, account, apart>>

Phases(x) ==
  \/ PreflightOk(x) \/ Rejected(x) \/ Unavailable(x) \/ Vet(x)
  \/ CommitOk(x) \/ CommitLost(x) \/ Finalize(x) \/ RotateFails(x)

Next ==
  \/ \E u \in Users : Activate(u) \/ Queue(u) \/ Enqueue(u) \/ ChangeRole(u)
  \/ \E x \in Actors : Phases(x) \/ KillWritten(x) \/ Kill(x)
  \/ \E s \in Statuses : Bill(s)
  \/ Claim \/ Load \/ Ask \/ AskFails \/ Apply

\* The worker takes due tasks oldest first, so each of its tasks gets its
\* turn; a call ends, by a timeout if nothing else; and the service answers
\* a question that is asked again and again.
WorkerStep == Phases(Worker) \/ Ask \/ AskFails \/ Apply
Fairness == WF_vars(WorkerStep) /\ SF_vars(Claim) /\ SF_vars(Load) /\ SF_vars(Ask)

Spec == Init /\ [][Next]_vars /\ Fairness

-----------------------------------------------------------------------------
\* views.py, _finalize_local_subscription: an active subscription can be
\* used: its stored key is one the service accepts, whatever answer was lost
\* and whoever was killed, unless two actors held answers to the commit at
\* the same time.
ActiveKeyWorks == (sub.status # "none" /\ apart) => sub.key = "live"

\* An activation that reached the worker's queue is settled in the end: the
\* row does not stay pending or in progress, whatever calls fail and whoever
\* is killed on the way.
Queued == tasks > 0 /\ pending.status \in Claimable
Settled == pending.status \in Ends
PendingSettles == Queued ~> Settled

\* Reconciliation catches drift: when the account's status stops changing,
\* the subscription shows it again and again.
Stays(s) == account = s /\ sub.status # "none"
DriftIsCaught == \A s \in Statuses : <>[]Stays(s) => []<>(sub.status = s)
=============================================================================
