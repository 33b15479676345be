------------------------------ MODULE AgentApi ------------------------------
(***************************************************************************)
(* The requests an agent makes with one API key, over REST                  *)
(* (apps/api/routers/posts.py) or MCP (apps/mcp/handlers.py).  A create     *)
(* with an idempotency key claims an IdempotencyRecord, checks the          *)
(* channel's daily quota, commits the post, and stores its answer in the    *)
(* record; a retry of the client is another request with the same key.      *)
(* The steps are separate statements, and a web worker can be killed        *)
(* between any two of them.                                                 *)
(*                                                                         *)
(* A post is named by the request that creates it.  Refusals that leave no  *)
(* trace (rate limits, permissions, the account allowlist) are not steps.   *)
(***************************************************************************)
EXTENDS Naturals, FiniteSets

CONSTANTS
  Requests,  \* the agent's requests, its retries included
  Keys,      \* idempotency keys
  Limit      \* resolve_platform_limit of the channel

NoKey == "nokey"
Bodies == {"draft", "schedule"} \* equal bodies have equal fingerprints

\* A request creates a post, or schedules the draft an earlier one created.
Creates == [key: Keys \cup {NoKey}, body: Bodies]
ScheduleDraft == [key |-> NoKey, body |-> "transition"]
Calls == Creates \cup {ScheduleDraft}

\* QUOTA_CONSUMING_STATUSES
Consuming == {"scheduled", "ended"}     \* ended: published or failed
PostStatus == Consuming \cup {"draft", "none"}

NoRow == [print |-> "none", answer |-> "none", old |-> FALSE]
Answers == {"none", "pending"} \cup Requests
Rows == [print: Bodies \cup {"none"}, answer: Answers, old: BOOLEAN]

VARIABLES
  call,      \* what each request asks for
  place,     \* where its handler is
  reply,     \* the answer: a status, and the post its body shows; until then, the
             \* draft the request has read
  record,    \* the IdempotencyRecord of each key
  status,    \* the status of the PlatformPost each request created
  recent,    \* posts whose updated_at is within 24 hours
  epoch,     \* history: sweeps that removed the key's record
  born,      \* history: the epoch in which a post was created
  granted,   \* history: posts the API scheduled within 24 hours
  peak       \* history: requests that were past one count at the same time

vars == <<call, place, reply, record, status, recent, epoch, born, granted, peak>>
history == <<epoch, born, granted, peak>>

Places == {"idle", "taken", "claimed", "cleared", "committed", "done", "killed"}
Codes == {"none", "created", "replayed", "invalid", "busy", "quota", "error"}
NoReply == [code |-> "none", post |-> "none"]

TypeOK ==
  /\ call \in [Requests -> Calls]
  /\ place \in [Requests -> Places]
  /\ reply \in [Requests -> [code: Codes, post: Requests \cup {"none"}]]
  /\ record \in [Keys -> Rows]
  /\ status \in [Requests -> PostStatus]
  /\ recent \subseteq Requests
  /\ epoch \in [Keys -> 0..1] /\ born \in [Requests -> 0..1]
  /\ granted \subseteq recent /\ peak \in 1..Cardinality(Requests)

Init ==
  /\ call \in [Requests -> Calls]
  /\ place = [r \in Requests |-> "idle"]
  /\ reply = [r \in Requests |-> NoReply]
  /\ record = [k \in Keys |-> NoRow]
  /\ status = [r \in Requests |-> "none"]
  /\ recent = {}
  /\ epoch = [k \in Keys |-> 0] /\ born = [r \in Requests |-> 0]
  /\ granted = {} /\ peak = 1

-----------------------------------------------------------------------------
(* The idempotency record *)

Key(r) == call[r].key
Keyed(r) == Key(r) # NoKey
InFlight(r) == place[r] \in {"taken", "claimed", "cleared", "committed"}

Go(r, to) == place' = [place EXCEPT ![r] = to]
Answer(r, code, post) ==
  /\ Go(r, "done")
  /\ reply' = [reply EXCEPT ![r] = [code |-> code, post |-> post]]

\* release_idempotent_claim deletes the key's record if it has no answer yet.
Released(r) ==
  IF Keyed(r) /\ record[Key(r)].answer = "pending"
  THEN [record EXCEPT ![Key(r)] = NoRow] ELSE record

\* claim_idempotency_slot inserts a placeholder; the unique pair of API key
\* and idempotency key lets one request through.
Claim(r) ==
  /\ place[r] = "idle" /\ call[r] # ScheduleDraft
  /\ IF Keyed(r)
     THEN IF record[Key(r)] = NoRow
          THEN /\ record' = [record EXCEPT ![Key(r)] =
                              [print |-> call[r].body, answer |-> "pending", old |-> FALSE]]
               /\ Go(r, "claimed")
          ELSE Go(r, "taken") /\ UNCHANGED record
     ELSE Go(r, "claimed") /\ UNCHANGED record
  /\ UNCHANGED <<call, reply, status, recent, history>>

\* The record that refused the insert is read; it may be gone by then.
LookUp(r) ==
  /\ place[r] = "taken"
  /\ LET row == record[Key(r)] IN
       CASE row = NoRow -> Answer(r, "error", "none")
         [] row # NoRow /\ row.print # call[r].body -> Answer(r, "invalid", "none")
         [] row.print = call[r].body /\ row.answer = "pending" -> Answer(r, "busy", "none")
         [] OTHER -> Answer(r, "replayed", row.answer)
  /\ UNCHANGED <<call, record, status, recent, history>>

-----------------------------------------------------------------------------
(* The daily quota of the channel *)

\* count_recent_creations
Used == Cardinality({r \in recent : status[r] \in Consuming})

Counted == {r \in Requests : place[r] = "cleared" /\ call[r].body # "draft"}
Overlap(r) == peak' = IF Cardinality(Counted \cup {r}) > peak
                      THEN Cardinality(Counted \cup {r}) ELSE peak

\* check_platform_quota of a create that schedules; a draft is not counted.
ClearCreate(r) ==
  /\ place[r] = "claimed" /\ call[r] # ScheduleDraft
  /\ IF call[r].body # "draft" /\ Used >= Limit
     THEN record' = Released(r) /\ Answer(r, "quota", "none") /\ UNCHANGED peak
     ELSE /\ Go(r, "cleared") /\ UNCHANGED <<record, reply>>
          /\ IF call[r].body = "draft" THEN UNCHANGED peak ELSE Overlap(r)
  /\ UNCHANGED <<call, status, recent, epoch, born, granted>>

\* The same check of a request that schedules a draft it has read.
ClearDraft(r) ==
  /\ place[r] = "idle" /\ call[r] = ScheduleDraft
  /\ \E p \in Requests :
       /\ status[p] = "draft"
       /\ IF Used >= Limit
          THEN Answer(r, "quota", "none") /\ UNCHANGED peak
          ELSE /\ Go(r, "cleared") /\ Overlap(r)
               /\ reply' = [reply EXCEPT ![r].post = p]
  /\ UNCHANGED <<call, record, status, recent, epoch, born, granted>>

-----------------------------------------------------------------------------
(* The post *)

\* create_post commits the post and its PlatformPost together.
Create(r) ==
  /\ place[r] = "cleared" /\ call[r] # ScheduleDraft
  /\ Go(r, "committed")
  /\ status' = [status EXCEPT ![r] = IF call[r].body = "draft" THEN "draft" ELSE "scheduled"]
  /\ recent' = recent \cup {r}
  /\ granted' = IF call[r].body = "draft" THEN granted ELSE granted \cup {r}
  /\ born' = [born EXCEPT ![r] = IF Keyed(r) THEN epoch[Key(r)] ELSE 0]
  /\ UNCHANGED <<call, reply, record, epoch, peak>>

\* create_post refuses (media of another workspace): a 422, nothing written.
CreateRefused(r) ==
  /\ place[r] = "cleared" /\ call[r] # ScheduleDraft
  /\ record' = Released(r) /\ Answer(r, "invalid", "none")
  /\ UNCHANGED <<call, status, recent, history>>

\* Mutant: the claim is released instead of answered.
Finalize_Releases(r) ==
  /\ place[r] = "committed"
  /\ Answer(r, "created", r)
  /\ record' = Released(r)
  /\ UNCHANGED <<call, status, recent, history>>

\* finalize_idempotent_response updates the key's record, then the 201.
Finalize(r) ==
  /\ place[r] = "committed"
  /\ Answer(r, "created", r)
  /\ record' = IF Keyed(r) /\ record[Key(r)] # NoRow
               THEN [record EXCEPT ![Key(r)].answer = r] ELSE record
  /\ UNCHANGED <<call, status, recent, history>>

\* Building or storing the answer raises after the commit: the claim is
\* released and the client sees a 500.
FailLate(r) ==
  /\ place[r] = "committed"
  /\ record' = Released(r) /\ Answer(r, "error", "none")
  /\ UNCHANGED <<call, status, recent, history>>

\* Mutant: the transition leaves updated_at alone.
Schedule_NotTouched(r) ==
  /\ place[r] = "cleared" /\ call[r] = ScheduleDraft
  /\ LET p == reply[r].post IN
       /\ status' = [status EXCEPT ![p] = "scheduled"]
       /\ granted' = granted \cup {p}
       /\ Answer(r, "created", p)
  /\ UNCHANGED <<call, record, recent, epoch, born, peak>>

\* The transition is checked on the row as it was read, and saved whatever
\* became of the row since; updated_at is bumped.
Schedule(r) ==
  /\ place[r] = "cleared" /\ call[r] = ScheduleDraft
  /\ LET p == reply[r].post IN
       /\ status' = [status EXCEPT ![p] = "scheduled"]
       /\ recent' = recent \cup {p}
       /\ granted' = granted \cup {p}
       /\ Answer(r, "created", p)
  /\ UNCHANGED <<call, record, epoch, born, peak>>

\* The post has no draft when it is read: 409; or the workspace's approval
\* gate refuses: 422.
ScheduleRefused(r) ==
  /\ call[r] = ScheduleDraft
  /\ \/ place[r] = "idle" /\ \E p \in Requests : status[p] \in Consuming
     \/ place[r] = "cleared"
  /\ Answer(r, "invalid", "none")
  /\ UNCHANGED <<call, record, status, recent, history>>

\* cancel: back to draft.
Cancel(p) ==
  /\ status[p] = "scheduled"
  /\ status' = [status EXCEPT ![p] = "draft"]
  /\ recent' = recent \cup {p}
  /\ UNCHANGED <<call, place, reply, record, history>>

\* update with a new time writes the scheduled child, updated_at included.
Update(p) ==
  /\ status[p] = "scheduled"
  /\ recent' = recent \cup {p}
  /\ UNCHANGED <<call, place, reply, record, status, history>>

\* The publisher publishes the post or gives it up.
Publish(p) ==
  /\ status[p] = "scheduled"
  /\ status' = [status EXCEPT ![p] = "ended"]
  /\ recent' = recent \cup {p}
  /\ UNCHANGED <<call, place, reply, record, history>>

-----------------------------------------------------------------------------
(* Failures and time *)

\* The web worker is killed, or the client never sees the answer.
Kill(r) ==
  /\ InFlight(r)
  /\ Go(r, "killed")
  /\ UNCHANGED <<call, reply, record, status, recent, history>>

\* A day passes.  No request lasts that long.
DayPasses ==
  /\ \A r \in Requests : ~InFlight(r)
  /\ recent' = {} /\ granted' = {}
  /\ record' = [k \in Keys |-> IF record[k] = NoRow THEN NoRow
                                ELSE [record[k] EXCEPT !.old = TRUE]]
  /\ record' # record \/ recent # {}
  /\ UNCHANGED <<call, place, reply, status, epoch, born, peak>>

\* sweep_stale_idempotency_records, hourly.  Bound: one sweep of each key.
Sweep ==
  /\ \E k \in Keys : record[k].old
  /\ \A k \in Keys : record[k].old => epoch[k] = 0
  /\ record' = [k \in Keys |-> IF record[k].old THEN NoRow ELSE record[k]]
  /\ epoch' = [k \in Keys |-> IF record[k].old THEN 1 ELSE epoch[k]]
  /\ UNCHANGED <<call, place, reply, status, recent, born, granted, peak>>

Next ==
  \/ \E r \in Requests :
       \/ Claim(r) \/ LookUp(r) \/ ClearCreate(r) \/ ClearDraft(r)
       \/ Create(r) \/ CreateRefused(r) \/ Finalize(r) \/ FailLate(r)
       \/ Schedule(r) \/ ScheduleRefused(r)
       \/ Cancel(r) \/ Update(r) \/ Publish(r) \/ Kill(r)
  \/ DayPasses \/ Sweep

Spec == Init /\ [][Next]_vars

-----------------------------------------------------------------------------
(* Properties *)

Same(r, s) == r # s /\ Keyed(r) /\ Key(r) = Key(s)

\* api/models.py: retries under one key do not create a second post.  Until
\* the sweep forgets the key, two posts carry it only if all but one of their
\* creators failed after the commit, which the client sees as a 500.
OncePerKey ==
  \A r, s \in Requests :
    (Same(r, s) /\ status[r] # "none" /\ status[s] # "none" /\ born[r] = born[s]) =>
      "error" \in {reply[r].code, reply[s].code}

\* A replayed answer shows a post that a request with the same key and the
\* same body created: a reused key never hides a different request.
ReplayIsTheOriginal ==
  \A r \in Requests : reply[r].code = "replayed" =>
    LET p == reply[r].post IN call[p] = call[r] /\ reply[p].code = "created"

\* limits.py counts and creates in two steps: requests past the same count
\* can exceed the limit, each by one, and requests that never overlap stay
\* within it.  Of the posts the API scheduled in a day, whatever became of
\* them but a cancel, no more than that many are on the channel.
QuotaOvershootIsBounded ==
  Cardinality({p \in granted : status[p] \in Consuming}) <= Limit + peak - 1
=============================================================================
