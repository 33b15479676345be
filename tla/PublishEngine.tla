--------------------------- MODULE PublishEngine ---------------------------
(***************************************************************************)
(* The publishing engine of apps/publisher/engine.py, the background       *)
(* worker that sends scheduled PlatformPosts to the social networks, run   *)
(* next to the web requests that schedule, cancel, hold and move the same  *)
(* rows.                                                                   *)
(*                                                                         *)
(* One atomic step is one statement or transaction on the shared database, *)
(* or one call to a platform.  A publisher process polls, claims the due   *)
(* rows of one post under a row lock, publishes them in parallel from the  *)
(* copies it read, and then walks a snapshot of the rows due for retry.    *)
(* Every engine write after a claim is Model.save(): it writes every       *)
(* column of its copy.  A web request reads a row, decides on what it      *)
(* read, and writes; nothing locks the row in between.                     *)
(* A composer save writes the whole Post and the whole row it read back,   *)
(* before anything else; those two writes, and the two reads before them,  *)
(* are one step each.                                                      *)
(***************************************************************************)
EXTENDS Integers, FiniteSets

CONSTANTS
  Posts,              \* composer Posts
  PlatformPosts,      \* their per-account children, the rows the engine owns
  PostOf,             \* the parent Post of each PlatformPost
  Engines,            \* publisher processes (process_tasks, run_publisher)
  Users,              \* web requests under way: at most one of each on a row
  MaxRetries,         \* MAX_RETRIES
  RetryBackoff,       \* RETRY_BACKOFF, indexed by retry_count
  MaxDue,             \* MAX_CONCURRENT_PUBLISHES, the poll's LIMIT
  MaxConcurrentPosts, \* MAX_CONCURRENT_POSTS, the size of the group pool
  Acts,               \* the kinds of web request the instance explores
  AtomicRequests,     \* TRUE: a request reads and writes in one step
  Faults,             \* the faults the instance explores
  MaxTime, MaxEdits   \* bounds: clock values, number of web requests

FaultKinds == {"crash", "lostReply", "logError"}
ActKinds == {"schedule", "cancel", "reschedule", "compose", "hold", "chip", "mark"}

ASSUME PostOfAssumption == PostOf \in [PlatformPosts -> Posts]
ASSUME RetryAssumption ==
  /\ MaxRetries \in Nat
  /\ RetryBackoff \in [0..(MaxRetries - 1) -> Nat]
ASSUME PoolAssumption == MaxDue \in Nat \ {0} /\ MaxConcurrentPosts \in Nat \ {0}
ASSUME BoundAssumption == MaxTime \in Nat /\ MaxEdits \in Nat
ASSUME ChoiceAssumption ==
  AtomicRequests \in BOOLEAN /\ Faults \subseteq FaultKinds /\ Acts \subseteq ActKinds

-----------------------------------------------------------------------------
(* Types *)

NoTime == -1   \* a NULL timestamp
Clock == 0..MaxTime
OptClock == Clock \cup {NoTime}

\* The statuses that matter to the engine; the review statuses before
\* "approved" are the business of module ApprovalWorkflow.
Status == {"draft", "approved", "on_hold", "scheduled", "publishing",
           "published", "failed"}
Protected == {"published", "publishing"}

Row == [status: Status, scheduledAt: OptClock, retryCount: 0..MaxRetries,
        nextRetryAt: Nat \cup {NoTime}, publishedAt: OptClock]

NewRow(s, t) == [status |-> s, scheduledAt |-> t, retryCount |-> 0,
                 nextRetryAt |-> NoTime, publishedAt |-> NoTime]
NoRow == NewRow("draft", NoTime)     \* stands for "no copy held"

PostRow == [scheduledAt: OptClock, publishedAt: OptClock]
NoPost == [scheduledAt |-> NoTime, publishedAt |-> NoTime]

\* What one publishing thread is about to do with its PlatformPost.
TaskState == {"none", "cleared", "claimed", "accepted", "refused",
              "rejected", "saved"}

Working == {"claimed", "accepted", "refused", "rejected"}

\* How far a web request on a row has come: it has read the row; a composer
\* save has written it back, spread the chosen time, read the row again.
RequestStage == {"none", "read", "written", "spread", "reread"}

Cycle == [phase: {"idle", "groups", "retries"}, batch: SUBSET PlatformPosts,
          claimed: SUBSET PlatformPosts, retryQueue: SUBSET PlatformPosts]
IdleCycle == [phase |-> "idle", batch |-> {}, claimed |-> {}, retryQueue |-> {}]

VARIABLES
  now,        \* timezone.now()
  row,        \* the PlatformPost table
  post,       \* the Post columns the engine and the schedulers maintain
  engine,     \* each process's place in poll_and_publish
  task,       \* each process's publishing threads
  copy,       \* the in-memory PlatformPost each thread works on
  request,    \* the row each web request has read, per PlatformPost
  loaded,     \* the Post it has read
  open,       \* how far it has come
  edits,      \* number of web requests so far
  live,       \* external: posts visible on the platform, per PlatformPost
  tries,      \* history: calls of provider.publish_post
  commented,  \* history: first-comment tasks enqueued
  abandoned,  \* history: rows left in "publishing" with no thread at work
  orders,     \* history: times a user who saw the row off the schedule put it there
  reopened,   \* history: times a request put it back from what it had read before
  erased,     \* history: counted retries such writes took off retry_count
  marked      \* history: rows a user has called published by hand

dbVars == <<row, post>>
engineVars == <<engine, task, copy>>
userVars == <<request, loaded, open, edits>>
countVars == <<orders, reopened, erased, marked>>
historyVars == <<live, tries, commented, abandoned, countVars>>
vars == <<now, dbVars, engineVars, userVars, historyVars>>

-----------------------------------------------------------------------------
(* Helper state formulae *)

Children(x) == {p \in PlatformPosts : PostOf[p] = x}
Siblings(p) == Children(PostOf[p])

Held(x) == \E p \in Children(x) : row[p].status = "on_hold"

\* Coalesce(scheduled_at, post__scheduled_at)
EffectiveAt(p) ==
  IF row[p].scheduledAt # NoTime THEN row[p].scheduledAt
                                 ELSE post[PostOf[p]].scheduledAt

\* Mutant: a row is due at its instant only, one the poll missed never is.
Due_OnTime == {p \in PlatformPosts :
                 /\ row[p].status = "scheduled"
                 /\ EffectiveAt(p) = now
                 /\ ~Held(PostOf[p])}

\* The poll reads neither retry_count nor next_retry_at.
Due == {p \in PlatformPosts :
          /\ row[p].status = "scheduled"
          /\ EffectiveAt(p) # NoTime
          /\ EffectiveAt(p) <= now
          /\ ~Held(PostOf[p])}

\* ORDER BY effective_at LIMIT MaxDue
DueBatches == {S \in SUBSET Due :
                 /\ Cardinality(S) = MaxDue \/ (S = Due /\ Cardinality(S) < MaxDue)
                 /\ \A p \in S, q \in Due \ S : EffectiveAt(p) <= EffectiveAt(q)}

\* The retry query reads retry_count and next_retry_at, never scheduled_at.
DueRetries == {p \in PlatformPosts :
                 /\ row[p].status = "scheduled"
                 /\ row[p].retryCount \in 1..MaxRetries
                 /\ row[p].nextRetryAt # NoTime
                 /\ row[p].nextRetryAt <= now
                 /\ ~Held(PostOf[p])}

\* A thread is at work on p and will write its outcome.
Owned(p) == \E e \in Engines : task[e][p] \in Working

Busy(e) == {p \in PlatformPosts : task[e][p] # "none"}

\* m is the MAX (MIN) of a set of timestamps, as an aggregate returns it.
IsLatest(m, times) == m \in times /\ \A t \in times : t <= m
IsEarliest(m, times) ==
  IF times = {} THEN m = NoTime ELSE m \in times /\ \A t \in times : m <= t

-----------------------------------------------------------------------------
(* Initial states: rows as create_post and the approval flow leave them *)

Init ==
  /\ now = 0
  /\ row \in [PlatformPosts -> {NewRow("draft", NoTime), NewRow("approved", NoTime)}
                                 \cup {NewRow("scheduled", t) : t \in Clock}]
  /\ post \in [Posts -> [scheduledAt: OptClock, publishedAt: {NoTime}]]
  /\ \A x \in Posts :
       IsEarliest(post[x].scheduledAt, {row[p].scheduledAt : p \in Children(x)} \ {NoTime})
  /\ engine = [e \in Engines |-> IdleCycle]
  /\ task = [e \in Engines |-> [p \in PlatformPosts |-> "none"]]
  /\ copy = [e \in Engines |-> [p \in PlatformPosts |-> NoRow]]
  /\ request = [u \in Users |-> [p \in PlatformPosts |-> NoRow]]
  /\ loaded = [u \in Users |-> [p \in PlatformPosts |-> NoPost]]
  /\ open = [u \in Users |-> [p \in PlatformPosts |-> "none"]]
  /\ edits = 0
  /\ live = [p \in PlatformPosts |-> 0]
  /\ tries = [p \in PlatformPosts |-> 0]
  /\ commented = {}
  /\ abandoned = {}
  /\ orders = [p \in PlatformPosts |-> IF row[p].status = "scheduled" THEN 1 ELSE 0]
  /\ reopened = [p \in PlatformPosts |-> 0]
  /\ erased = [p \in PlatformPosts |-> 0]
  /\ marked = {}

-----------------------------------------------------------------------------
(* Engine actions: poll_and_publish *)

\* The due query.
Poll(e) ==
  /\ engine[e].phase = "idle"
  /\ \E batch \in DueBatches :
       engine' = [engine EXCEPT ![e] = [IdleCycle EXCEPT !.phase = "groups", !.batch = batch]]
  /\ UNCHANGED <<now, dbVars, task, copy, userVars, historyVars>>

\* The transaction of _publish_post_group: every row of the post is locked,
\* a hold ends the group, and the due rows that are still scheduled move to
\* "publishing".  Their scheduled time is not looked at again.
\* Mutant: the rows of the poll are trusted, their status not read again.
Claimable_Unchecked(e, x) == Children(x) \cap engine[e].batch

Claimable(e, x) == {p \in Children(x) \cap engine[e].batch : row[p].status = "scheduled"}

\* Mutant: only the due rows are locked and checked for a hold.
GroupHeld_DueOnly(e, x) ==
  \E p \in Children(x) \cap engine[e].batch : row[p].status = "on_hold"

GroupHeld(e, x) == \E p \in Children(x) : row[p].status = "on_hold"

ClaimGroup(e, x) ==
  LET mine == Claimable(e, x)
      waiting == engine[e].batch \ Children(x)
  IN
  /\ engine[e].phase = "groups"
  /\ Children(x) \cap engine[e].batch # {}
  /\ Cardinality({PostOf[p] : p \in engine[e].claimed}) < MaxConcurrentPosts
  /\ IF GroupHeld(e, x) \/ mine = {}
       THEN /\ engine' = [engine EXCEPT ![e] = [@ EXCEPT !.batch = waiting]]
            /\ UNCHANGED <<row, task, copy, abandoned>>
       ELSE /\ engine' = [engine EXCEPT ![e] = [@ EXCEPT
                              !.batch = waiting,
                              !.claimed = engine[e].claimed \cup mine]]
            /\ row' = [p \in PlatformPosts |->
                         IF p \in mine THEN [row[p] EXCEPT !.status = "publishing"] ELSE row[p]]
            /\ copy' = [copy EXCEPT ![e] = [p \in PlatformPosts |->
                         IF p \in mine THEN row[p] ELSE @[p]]]
            /\ task' = [task EXCEPT ![e] = [p \in PlatformPosts |->
                         IF p \in mine THEN "claimed" ELSE @[p]]]
            /\ abandoned' = abandoned \ mine
  /\ UNCHANGED <<now, post, userVars, live, tries, commented, countVars>>

\* provider.publish_post: the platform takes the post, refuses it with a
\* retryable or a non-retryable error, or (a fault) takes it while the reply
\* is lost.  The rate-limit check before the call reads rows that only
\* _update_rate_limit writes, from keys no dispatch result carries: it never
\* fires.
Outcomes == {"accepted", "refused", "rejected"}
              \cup (IF "lostReply" \in Faults THEN {"lost"} ELSE {})

Dispatch(e, p) ==
  /\ task[e][p] = "claimed"
  /\ \E outcome \in Outcomes :
       /\ task' = [task EXCEPT ![e][p] = IF outcome = "lost" THEN "refused" ELSE outcome]
       /\ live' = [live EXCEPT ![p] = IF outcome \in {"accepted", "lost"} THEN @ + 1 ELSE @]
  /\ tries' = [tries EXCEPT ![p] = @ + 1]
  /\ UNCHANGED <<now, dbVars, engine, copy, userVars, commented, abandoned, countVars>>

\* The thread ends and drops its copy.
Conclude(e, p) ==
  /\ task' = [task EXCEPT ![e][p] = "none"]
  /\ copy' = [copy EXCEPT ![e][p] = NoRow]

\* Mutant: the provider's reply is not looked at.
SaveSuccess_AnyReply(e, p) ==
  LET done == [copy[e][p] EXCEPT !.status = "published", !.publishedAt = now] IN
  /\ task[e][p] \in {"accepted", "refused"}
  /\ row' = [row EXCEPT ![p] = done]
  /\ copy' = [copy EXCEPT ![e][p] = done]
  /\ task' = [task EXCEPT ![e][p] = "saved"]
  /\ UNCHANGED <<now, post, engine, userVars, historyVars>>

\* A success is saved with the whole copy; the QueueEntry goes with it.
SaveSuccess(e, p) ==
  LET done == [copy[e][p] EXCEPT !.status = "published", !.publishedAt = now] IN
  /\ task[e][p] = "accepted"
  /\ row' = [row EXCEPT ![p] = done]
  /\ copy' = [copy EXCEPT ![e][p] = done]
  /\ task' = [task EXCEPT ![e][p] = "saved"]
  /\ UNCHANGED <<now, post, engine, userVars, historyVars>>

\* Mutant: the retries are not counted.
AfterFailure_Uncounted(c) ==
  IF c.retryCount >= MaxRetries
    THEN [c EXCEPT !.status = "failed"]
    ELSE [c EXCEPT !.status = "scheduled",
                   !.nextRetryAt = now + RetryBackoff[c.retryCount]]

\* Mutant: the retries are not limited.
AfterFailure_Unlimited(c) ==
  [c EXCEPT !.status = "scheduled", !.retryCount = @ + 1, !.nextRetryAt = now]

\* _schedule_retry and _fail_permanently, on the copy.
AfterFailure(c) ==
  IF c.retryCount >= MaxRetries
    THEN [c EXCEPT !.status = "failed"]
    ELSE [c EXCEPT !.status = "scheduled",
                   !.retryCount = @ + 1,
                   !.nextRetryAt = now + RetryBackoff[c.retryCount]]

\* _sync_parent_published_at
SyncPublishedAt(x) ==
  \E m \in OptClock :
    /\ IsLatest(m, {row[p].publishedAt : p \in Children(x)})
    /\ post' = IF m = NoTime THEN post ELSE [post EXCEPT ![x].publishedAt = m]

\* Mutant: a retry's success is not reflected onto the parent.
LogSuccess_NoSync(e, p) ==
  /\ task[e][p] = "saved"
  /\ Conclude(e, p)
  /\ UNCHANGED <<now, dbVars, engine, userVars, historyVars>>

\* Mutant: an error after the save falls through to the except branch.
LogSuccess_FallsThrough(e, p) ==
  /\ task[e][p] = "saved"
  /\ row' = [row EXCEPT ![p] = AfterFailure(copy[e][p])]
  /\ Conclude(e, p)
  /\ UNCHANGED <<now, post, engine, userVars, historyVars>>

\* The PublishLog row is written.  A retry then reflects the success onto the
\* parent; a group waits for its other threads first (FinishGroup).
LogSuccess(e, p) ==
  /\ task[e][p] = "saved"
  /\ Conclude(e, p)
  /\ IF engine[e].phase = "retries" THEN SyncPublishedAt(PostOf[p]) ELSE post' = post
  /\ UNCHANGED <<now, row, engine, userVars, historyVars>>

\* Mutant: the failure stays in the copy, unsaved.
ScheduleRetry_Unsaved(e, p) ==
  /\ task[e][p] = "refused"
  /\ Conclude(e, p)
  /\ UNCHANGED <<now, dbVars, engine, userVars, historyVars>>

\* The except branch: log the error, then retry.
ScheduleRetry(e, p) ==
  /\ task[e][p] = "refused"
  /\ row' = [row EXCEPT ![p] = AfterFailure(copy[e][p])]
  /\ Conclude(e, p)
  /\ UNCHANGED <<now, post, engine, userVars, historyVars>>

\* An error marked retryable=False.
FailPermanently(e, p) ==
  /\ task[e][p] = "rejected"
  /\ row' = [row EXCEPT ![p] = [copy[e][p] EXCEPT !.status = "failed"]]
  /\ Conclude(e, p)
  /\ UNCHANGED <<now, post, engine, userVars, historyVars>>

\* Fault: PublishLog.objects.create of the success fails once.  It stands in
\* the try block of the dispatch, so the except branch treats it as a failed
\* attempt.
LogSuccessFails(e, p) ==
  /\ "logError" \in Faults
  /\ task[e][p] = "saved"
  /\ row' = [row EXCEPT ![p] = AfterFailure(copy[e][p])]
  /\ Conclude(e, p)
  /\ UNCHANGED <<now, post, engine, userVars, historyVars>>

\* Fault: the insert of the error's own PublishLog fails, for an attempt that
\* failed or after the log of a success has: the except branch is left before
\* it saves an outcome, and the caller swallows the exception.
ErrorLogFails(e, p) ==
  /\ "logError" \in Faults
  /\ task[e][p] \in {"refused", "rejected", "saved"}
  /\ Conclude(e, p)
  /\ abandoned' = IF task[e][p] = "saved" THEN abandoned ELSE abandoned \cup {p}
  /\ UNCHANGED <<now, dbVars, engine, userVars, live, tries, commented, countVars>>

\* Mutant: the comments are enqueued without waiting for the group's threads.
FinishGroup_NoWait(e, x) ==
  LET mine == Children(x) \cap engine[e].claimed IN
  /\ engine[e].phase = "groups"
  /\ mine # {}
  /\ SyncPublishedAt(x)
  /\ commented' = commented \cup {p \in mine : row[p].status = "published"}
  /\ engine' = [engine EXCEPT ![e].claimed = @ \ mine]
  /\ UNCHANGED <<now, row, task, copy, userVars, live, tries, abandoned, countVars>>

\* Every thread of the group is done: reflect published_at onto the parent and
\* enqueue the first comments of the children now published.
FinishGroup(e, x) ==
  LET mine == Children(x) \cap engine[e].claimed IN
  /\ engine[e].phase = "groups"
  /\ mine # {}
  /\ mine \cap Busy(e) = {}
  /\ SyncPublishedAt(x)
  /\ commented' = commented \cup {p \in mine : row[p].status = "published"}
  /\ engine' = [engine EXCEPT ![e].claimed = @ \ mine]
  /\ UNCHANGED <<now, row, task, copy, userVars, live, tries, abandoned, countVars>>

\* _process_retries evaluates its query once and keeps the rows it read.
StartRetries(e) ==
  /\ engine[e].phase = "groups"
  /\ engine[e].batch = {}
  /\ engine[e].claimed = {}
  /\ engine' = [engine EXCEPT ![e] = [@ EXCEPT !.phase = "retries", !.retryQueue = DueRetries]]
  /\ copy' = [copy EXCEPT ![e] = [p \in PlatformPosts |->
                IF p \in DueRetries THEN row[p] ELSE NoRow]]
  /\ UNCHANGED <<now, dbVars, task, userVars, historyVars>>

\* The next row of the snapshot: skip it if a sibling is on hold by now.
RetryCheck(e, p) ==
  /\ engine[e].phase = "retries"
  /\ p \in engine[e].retryQueue
  /\ Busy(e) = {}
  /\ engine' = [engine EXCEPT ![e].retryQueue = @ \ {p}]
  /\ IF Held(PostOf[p])
       THEN /\ copy' = [copy EXCEPT ![e][p] = NoRow]
            /\ task' = task
       ELSE /\ task' = [task EXCEPT ![e][p] = "cleared"]
            /\ copy' = copy
  /\ UNCHANGED <<now, dbVars, userVars, historyVars>>

\* pp.save(update_fields=["status", ...]): no lock, no look at the row.
RetryClaim(e, p) ==
  /\ task[e][p] = "cleared"
  /\ row' = [row EXCEPT ![p].status = "publishing"]
  /\ copy' = [copy EXCEPT ![e][p].status = "publishing"]
  /\ task' = [task EXCEPT ![e][p] = "claimed"]
  /\ abandoned' = abandoned \ {p}
  /\ UNCHANGED <<now, post, engine, userVars, live, tries, commented, countVars>>

EndCycle(e) ==
  /\ engine[e].phase = "retries"
  /\ engine[e].retryQueue = {}
  /\ Busy(e) = {}
  /\ engine' = [engine EXCEPT ![e] = IdleCycle]
  /\ UNCHANGED <<now, dbVars, task, copy, userVars, historyVars>>

\* Mutant: the restart puts the rows it was publishing back on the schedule.
Crash_Requeues(e) ==
  /\ "crash" \in Faults
  /\ engine[e].phase # "idle"
  /\ engine' = [engine EXCEPT ![e] = IdleCycle]
  /\ task' = [task EXCEPT ![e] = [p \in PlatformPosts |-> "none"]]
  /\ copy' = [copy EXCEPT ![e] = [p \in PlatformPosts |-> NoRow]]
  /\ row' = [p \in PlatformPosts |->
               IF p \in Busy(e) THEN [row[p] EXCEPT !.status = "scheduled"] ELSE row[p]]
  /\ UNCHANGED <<now, post, userVars, historyVars>>

\* Fault: the process dies and comes back.  Nothing looks at the rows it left
\* in "publishing".
Crash(e) ==
  /\ "crash" \in Faults
  /\ engine[e].phase # "idle"
  /\ engine' = [engine EXCEPT ![e] = IdleCycle]
  /\ task' = [task EXCEPT ![e] = [p \in PlatformPosts |-> "none"]]
  /\ copy' = [copy EXCEPT ![e] = [p \in PlatformPosts |-> NoRow]]
  /\ UNCHANGED <<now, dbVars, userVars, historyVars>>

-----------------------------------------------------------------------------
(* Web requests: read a row, decide on what was read, write *)

\* The row a request decides on: the current one, or the one it read earlier.
Seen(u, p) == IF AtomicRequests THEN row[p] ELSE request[u][p]

\* The request's read of the row and its Post.
OpenRequest(u, p) ==
  /\ ~AtomicRequests
  /\ open[u][p] = "none"
  /\ edits < MaxEdits
  /\ request' = [request EXCEPT ![u][p] = row[p]]
  /\ loaded' = [loaded EXCEPT ![u][p] = post[PostOf[p]]]
  /\ open' = [open EXCEPT ![u][p] = "read"]
  /\ edits' = edits + 1
  /\ UNCHANGED <<now, dbVars, engineVars, historyVars>>

\* The request is over.
Close(u, p) ==
  /\ open' = [open EXCEPT ![u][p] = "none"]
  /\ request' = [request EXCEPT ![u][p] = NoRow]
  /\ loaded' = [loaded EXCEPT ![u][p] = NoPost]
  /\ edits' = edits

\* What the histories say of a write of row[p].
Counted(u, p) ==
  LET back == row[p].status # "scheduled" /\ row'[p].status = "scheduled"
      lost == row[p].retryCount - row'[p].retryCount
  IN
  /\ orders' = [orders EXCEPT ![p] =
                  IF back /\ Seen(u, p).status # "scheduled" THEN @ + 1 ELSE @]
  /\ reopened' = [reopened EXCEPT ![p] =
                  IF back /\ Seen(u, p).status = "scheduled" THEN @ + 1 ELSE @]
  /\ erased' = [erased EXCEPT ![p] = IF lost > 0 THEN @ + lost ELSE @]
  /\ UNCHANGED <<now, engineVars, live, tries, commented>>

\* A request puts p into a status; nobody works on it if that is "publishing".
Strands(p) ==
  abandoned' = IF row'[p].status = "publishing" /\ ~Owned(p)
                 THEN abandoned \cup {p} ELSE abandoned

\* Bookkeeping of a request of one read and one write, which it now makes.
Served(kind, u, p) ==
  /\ kind \in Acts
  /\ IF AtomicRequests
       THEN edits < MaxEdits /\ edits' = edits + 1 /\ UNCHANGED <<request, loaded, open>>
       ELSE open[u][p] = "read" /\ Close(u, p)
  /\ Counted(u, p)

\* sync_post_scheduled_at: the parent takes the earliest child time.
SyncScheduledAt(x) ==
  \E m \in OptClock :
    /\ IsEarliest(m, {row'[q].scheduledAt : q \in Children(x)} \ {NoTime})
    /\ post' = [post EXCEPT ![x].scheduledAt = m]

\* REST and MCP: schedule a draft at t (services.transition_platform_post).
Schedule(u, p, t) ==
  /\ Seen(u, p).status = "draft"
  /\ row' = [row EXCEPT ![p].status = "scheduled", ![p].scheduledAt = t]
  /\ SyncScheduledAt(PostOf[p])
  /\ Served("schedule", u, p)
  /\ UNCHANGED <<abandoned, marked>>

\* REST and MCP cancel, and remove_from_queue: back to draft, time cleared.
Cancel(u, p) ==
  /\ Seen(u, p).status \in {"scheduled", "failed", "approved", "on_hold"}
  /\ row' = [row EXCEPT ![p].status = "draft",
                        ![p].scheduledAt = IF Seen(u, p).scheduledAt # NoTime THEN NoTime ELSE @]
  /\ SyncScheduledAt(PostOf[p])
  /\ Served("cancel", u, p)
  /\ UNCHANGED <<abandoned, marked>>

\* Calendar drag and drop: writes the status it read, a draft as "scheduled".
Reschedule(u, p, t) ==
  LET target == IF Seen(u, p).status = "draft" THEN "scheduled" ELSE Seen(u, p).status IN
  /\ Seen(u, p).status \in {"draft", "approved", "scheduled"}
  /\ row' = [row EXCEPT ![p].status = target, ![p].scheduledAt = t]
  /\ SyncScheduledAt(PostOf[p])
  /\ Served("reschedule", u, p)
  /\ UNCHANGED <<abandoned, marked>>

\* _transition_or_skip of request_hold and resume_hold.
ChangeHold(u, p, from, to) ==
  /\ Seen(u, p).status = from
  /\ row' = [row EXCEPT ![p].status = to, ![p].publishedAt = Seen(u, p).publishedAt]
  /\ Served("hold", u, p)
  /\ UNCHANGED <<post, abandoned, marked>>

RequestHold(u, p) == ChangeHold(u, p, "approved", "on_hold")
ResumeHold(u, p) == ChangeHold(u, p, "on_hold", "approved")

\* VALID_TRANSITIONS, between the statuses of this module.
Transitions(s) ==
  CASE s = "draft" -> {"scheduled", "publishing"}
    [] s = "approved" -> {"scheduled", "publishing", "draft", "on_hold"}
    [] s = "on_hold" -> {"approved", "draft"}
    [] s = "scheduled" -> {"publishing", "draft"}
    [] s = "publishing" -> {"published", "failed", "scheduled"}
    [] s = "failed" -> {"publishing", "draft", "scheduled"}
    [] s = "published" -> {}

\* The composer's per-account chip endpoint.  It writes no time, and it lets a
\* user write by hand ("mark") the statuses that are the engine's.
ChipTransition(u, p, target) ==
  /\ target \in Transitions(Seen(u, p).status)
  /\ row' = [row EXCEPT
       ![p].status = target,
       ![p].publishedAt = IF target = "published" THEN now ELSE Seen(u, p).publishedAt]
  /\ Served(IF target \in Protected \cup {"failed"} THEN "mark" ELSE "chip", u, p)
  /\ Strands(p)
  /\ marked' = IF target = "published" THEN marked \cup {p} ELSE marked
  /\ UNCHANGED post

-----------------------------------------------------------------------------
(* The composer's save_post, for one account in scope *)

\* The chosen time goes to every unprotected child.
Spread(r, t) == IF r.status \in Protected THEN r ELSE [r EXCEPT !.scheduledAt = t]

\* _transition_post_children to "scheduled", through draft if it must: it
\* writes the status, and published_at as read.
Moved(r, read) ==
  IF read.status \in {"scheduled", "published"}
    THEN r
    ELSE [r EXCEPT !.status = "scheduled", !.publishedAt = read.publishedAt]

\* "Schedule" and "publish now" of a composer that nobody overtakes: the rows it
\* writes back are the ones it read.
ComposeAtOnce(u, p, t) ==
  /\ AtomicRequests
  /\ t >= now
  /\ row' = [row EXCEPT ![p] = Moved(Spread(@, t), @)]
  /\ post' = [post EXCEPT ![PostOf[p]].scheduledAt = t]
  /\ Served("compose", u, p)
  /\ UNCHANGED <<abandoned, marked>>

\* post.save() and the pp.save() of _sync_platform_posts: every column of the
\* Post and of the row as the request read them.
WriteBack(u, p) ==
  /\ "compose" \in Acts
  /\ ~AtomicRequests
  /\ open[u][p] = "read"
  /\ row' = [row EXCEPT ![p] = request[u][p]]
  /\ Counted(u, p)
  /\ Strands(p)
  /\ UNCHANGED marked

\* A save that moves nothing ("save draft").
SaveDraft(u, p) ==
  /\ WriteBack(u, p)
  /\ post' = [post EXCEPT ![PostOf[p]] = loaded[u][p]]
  /\ Close(u, p)

\* "Schedule" and "publish now": the Post takes the chosen time.
ComposeSync(u, p, t) ==
  /\ WriteBack(u, p)
  /\ t >= now
  /\ post' = [post EXCEPT ![PostOf[p]] = [loaded[u][p] EXCEPT !.scheduledAt = t]]
  /\ open' = [open EXCEPT ![u][p] = "written"]
  /\ request' = [request EXCEPT ![u][p] = NewRow("draft", t)]
  /\ loaded' = [loaded EXCEPT ![u][p] = NoPost]
  /\ edits' = edits

\* propagate_qs.update(scheduled_at=...)
ComposeSpread(u, p) ==
  /\ open[u][p] = "written"
  /\ row' = [row EXCEPT ![p] = Spread(@, request[u][p].scheduledAt)]
  /\ open' = [open EXCEPT ![u][p] = "spread"]
  /\ request' = [request EXCEPT ![u][p] = NoRow]
  /\ UNCHANGED <<now, post, engineVars, loaded, edits, historyVars>>

\* The children are read again.
ComposeRead(u, p) ==
  /\ open[u][p] = "spread"
  /\ open' = [open EXCEPT ![u][p] = "reread"]
  /\ request' = [request EXCEPT ![u][p] = row[p]]
  /\ UNCHANGED <<now, dbVars, engineVars, loaded, edits, historyVars>>

ComposeMove(u, p) ==
  /\ open[u][p] = "reread"
  /\ row' = [row EXCEPT ![p] = Moved(@, request[u][p])]
  /\ Close(u, p)
  /\ Counted(u, p)
  /\ UNCHANGED <<post, abandoned, marked>>

UserStep(u, p) ==
  \/ OpenRequest(u, p)
  \/ \E t \in Clock :
       \/ Schedule(u, p, t) \/ Reschedule(u, p, t)
       \/ ComposeAtOnce(u, p, t) \/ ComposeSync(u, p, t)
  \/ Cancel(u, p)
  \/ RequestHold(u, p) \/ ResumeHold(u, p)
  \/ \E target \in Status : ChipTransition(u, p, target)
  \/ SaveDraft(u, p) \/ ComposeSpread(u, p) \/ ComposeRead(u, p) \/ ComposeMove(u, p)

-----------------------------------------------------------------------------
(* Specification *)

Tick ==
  /\ now < MaxTime
  /\ now' = now + 1
  /\ UNCHANGED <<dbVars, engineVars, userVars, historyVars>>

ThreadStep(e, p) ==
  \/ Dispatch(e, p)
  \/ SaveSuccess(e, p)
  \/ LogSuccess(e, p)
  \/ LogSuccessFails(e, p)
  \/ ErrorLogFails(e, p)
  \/ ScheduleRetry(e, p)
  \/ FailPermanently(e, p)
  \/ RetryCheck(e, p)
  \/ RetryClaim(e, p)

CycleStep(e) ==
  \/ Poll(e)
  \/ \E x \in Posts : ClaimGroup(e, x) \/ FinishGroup(e, x)
  \/ StartRetries(e)
  \/ EndCycle(e)

Next ==
  \/ Tick
  \/ \E e \in Engines : CycleStep(e) \/ Crash(e)
  \/ \E e \in Engines, p \in PlatformPosts : ThreadStep(e, p)
  \/ \E u \in Users, p \in PlatformPosts : UserStep(u, p)

Spec == Init /\ [][Next]_vars

\* The worker keeps cycling and every provider call returns; web requests
\* owe nothing.
Fairness ==
  /\ WF_vars(Tick)
  /\ \A e \in Engines : WF_vars(CycleStep(e))
  /\ \A e \in Engines, p \in PlatformPosts : WF_vars(ThreadStep(e, p))

FairSpec == Spec /\ Fairness

-----------------------------------------------------------------------------
(* Properties *)

\* Type invariant; in particular retry_count never passes MAX_RETRIES.
TypeOK ==
  /\ now \in Clock
  /\ row \in [PlatformPosts -> Row]
  /\ post \in [Posts -> PostRow]
  /\ engine \in [Engines -> Cycle]
  /\ task \in [Engines -> [PlatformPosts -> TaskState]]
  /\ copy \in [Engines -> [PlatformPosts -> Row]]
  /\ request \in [Users -> [PlatformPosts -> Row]]
  /\ loaded \in [Users -> [PlatformPosts -> PostRow]]
  /\ open \in [Users -> [PlatformPosts -> RequestStage]]
  /\ edits \in 0..MaxEdits
  /\ live \in [PlatformPosts -> Nat]
  /\ tries \in [PlatformPosts -> Nat]
  /\ orders \in [PlatformPosts -> Nat]
  /\ reopened \in [PlatformPosts -> Nat]
  /\ erased \in [PlatformPosts -> Nat]
  /\ commented \subseteq PlatformPosts
  /\ abandoned \subseteq PlatformPosts
  /\ marked \subseteq PlatformPosts

\* A row that says "published" is on the platform, unless a user said so by
\* hand: no crash, lost reply, stale request or second process can make the
\* engine report a post it never made.
PublishedIsLive ==
  \A p \in PlatformPosts : row[p].status = "published" => live[p] >= 1 \/ p \in marked

\* While no process crashes, a row in "publishing" has a thread at work on it
\* that will write its outcome, or is known to be left there: its error log
\* could not be written, or a request put it there.  Nothing else ends that
\* status.
PublishingIsOwned ==
  \A p \in PlatformPosts :
    row[p].status = "publishing" => Owned(p) \/ p \in abandoned

\* A PlatformPost appears on its platform at most once.
AtMostOnce == \A p \in PlatformPosts : live[p] <= 1

\* A PlatformPost appears on its platform at most once for each time a user
\* put it on the schedule and each time a request put it back there from what
\* it had read before: the engine's own retries, restarts and stale copies
\* never publish it again.
OncePerOrder == \A p \in PlatformPosts : live[p] <= orders[p] + reopened[p]

\* retry_count accounts for every call made to the platform: MAX_RETRIES + 1
\* calls for the first time a post is scheduled, one more for each time it is
\* put on the schedule again, and one for each retry a stale request erased.
RetryBudget ==
  \A p \in PlatformPosts :
    tries[p] <= row[p].retryCount + orders[p] + reopened[p] + erased[p]

\* Between cycles, Post.published_at is the latest published_at of its
\* children, whichever of the two publishing paths wrote it.
ParentReflectsChildren ==
  (\A e \in Engines : engine[e].phase = "idle") =>
    \A x \in Posts : Children(x) # {} =>
      IsLatest(post[x].publishedAt, {row[p].publishedAt : p \in Children(x)})

\* Between cycles, every row published at its first attempt has had its first
\* comment enqueued.  (Only the group path enqueues it: a row published by the
\* retry path never gets one.)
CommentFollowsFirstTry ==
  (\A e \in Engines : engine[e].phase = "idle") =>
    \A p \in PlatformPosts :
      row[p].status = "published" /\ row[p].retryCount = 0 => p \in commented

\* The step at which a process takes p to publish it.
Takes(e, p) == task'[e][p] = "claimed" /\ task[e][p] # "claimed"

\* A process never takes a row while a sibling is on hold.
TakesNothingHeld ==
  [][\A e \in Engines, p \in PlatformPosts : Takes(e, p) => ~Held(PostOf[p])]_vars

\* "published" is a terminal status.
PublishedIsTerminal ==
  [][\A p \in PlatformPosts :
       row[p].status = "published" => row'[p].status = "published"]_vars

\* Two processes that publish the children of a post, die, and meet requests
\* that decided on a stale row do together what one Publication does: a child
\* is taken by one of them, appears once, and ends as what became of it.
StageOf(s) ==
  IF s = "publishing" THEN "taken" ELSE IF s \in {"published", "failed"} THEN s ELSE "waiting"
Promise == INSTANCE Publication WITH
  stage <- [p \in PlatformPosts |-> StageOf(row[p].status)], shown <- live
ImplementsPublication == Promise!Spec

\* Every row the engine may publish is eventually published, failed, taken
\* off the schedule, or parked by a hold: retries end, and a LIMIT smaller
\* than the backlog starves nobody.  A row whose error log could not be
\* written stays behind.
Settles ==
  \A p \in PlatformPosts :
    (row[p].status = "scheduled" /\ EffectiveAt(p) # NoTime)
      ~> \/ row[p].status \in {"published", "failed", "draft"}
         \/ Held(PostOf[p])
         \/ p \in abandoned

\* No row stays in "publishing", one whose error log could not be written
\* excepted.
PublishingEnds ==
  \A p \in PlatformPosts :
    row[p].status = "publishing" ~> row[p].status # "publishing" \/ p \in abandoned

=============================================================================
