----------------------------- MODULE QueueSlots -----------------------------
(***************************************************************************)
(* The posting queues of one channel (apps/calendar/services.py).  A post   *)
(* is queued by giving its PlatformPost the instant of one of the channel's *)
(* PostingSlots; nothing else reserves a slot, so every operation works out *)
(* from the PlatformPost rows which slots are taken.                        *)
(*                                                                          *)
(* A slot operation locks the channel's SocialAccount row, reads (Begin),   *)
(* and writes when it commits (Commit).  The calendar's drag and drop, the  *)
(* composer's forms, the chip, a cancel and the publisher touch the same    *)
(* rows without that lock, so they may come in between.                     *)
(*                                                                          *)
(* "draft" stands for "approved" as well, from which the same edges leave,  *)
(* and "pending_review" for the other stages of an approval.                *)
(***************************************************************************)
EXTENDS Integers, FiniteSets, Functions

CONSTANTS
  Posts,      \* posts with a PlatformPost on the channel
  Queues,     \* the channel's queues
  Requests,   \* slot operations that can be in flight
  Forms,      \* composer saves that can be in flight
  Slots,      \* the channel's PostingSlot instants within the 60-day horizon
  HandTimes,  \* instants a user picks on the calendar or in the composer
  MaxTime,    \* bound: the last value of the clock
  MaxEdits    \* bound: hand moves, composer saves and chip moves

ASSUME SlotAssumption == Slots \subseteq Nat \ {0} /\ IsFiniteSet(Slots)
ASSUME HandAssumption == HandTimes \subseteq Nat \ {0}
ASSUME TimeAssumption == MaxTime \in Nat
ASSUME EditAssumption == MaxEdits \in Nat
ASSUME PostAssumption == IsFiniteSet(Posts)

Unset == 0                                  \* scheduled_at IS NULL
Instants == Slots \cup HandTimes \cup {Unset}
Status == {"draft", "pending_review", "scheduled", "publishing", "published", "failed"}
Protected == {"publishing", "published"}
Kinds == {"next", "prioritize", "reorder"}

VARIABLES
  now,      \* timezone.now()
  at,       \* PlatformPost.scheduled_at
  status,   \* PlatformPost.status
  entries,  \* the posts of each queue's QueueEntry rows
  op,       \* slot operations between their read and their commit
  edits,    \* requests so far that do not take the channel's lock
  form,     \* composer saves between reading the row and writing it back
  picked,   \* history: instants a post was put on without the channel's lock
  untimed   \* history: scheduled without a time, and not given one since

vars == <<now, at, status, entries, op, edits, form, picked, untimed>>

\* plan: the instants the operation is about to write, one per post it moves;
\* held: the entries it read; promote: the post the composer then schedules.
Op == [kind: Kinds, queue: Queues, promote: SUBSET Posts, held: SUBSET Posts,
       plan: UNION {[S -> Instants \ {Unset}] : S \in SUBSET Posts}]
Row == [post: Posts, at: Instants, status: Status]
Idle == [kind |-> "idle"]

\* The posts of S were scheduled by a request that names no time.
Untimed(S) ==
  untimed' = {p \in untimed \cup S : status'[p] = "scheduled" /\ at'[p] = Unset}

-----------------------------------------------------------------------------
(* Slots and occupancy *)

\* The first instant of a set, as a set: empty if there is none.
FirstOf(S) == {t \in S : \A u \in S : t <= u}

\* _next_slot_datetimes: the first n slots after now.
Candidates(n) ==
  {t \in Slots : t > now /\ Cardinality({u \in Slots : now < u /\ u < t}) < n}

\* _occupied_datetimes: the future instants held by the other posts.
Occupied(post) ==
  {at[p] : p \in {q \in Posts \ {post} : at[q] > now /\ status[q] \notin Protected}}

\* Mutant: one candidate too few.
NextAvailable_ShortList(post) ==
  FirstOf(Candidates(Cardinality(Occupied(post))) \ Occupied(post))

\* _next_available_slot; empty when the queue is full.  Among one candidate
\* more than there are occupied instants, one is free if any is.
NextAvailable(post) ==
  FirstOf(Candidates(Cardinality(Occupied(post)) + 1) \ Occupied(post))

-----------------------------------------------------------------------------
(* The three slot operations, as the plans they may write: none where the    *)
(* code raises QueueFullError                                                *)

\* The post alone moves, to a slot of S.
Placed(post, S) == [{post} -> S]

\* The queue's entries that can move, and those of them on a candidate slot.
Movable(queue, post) ==
  {p \in entries[queue] \ {post} : at[p] > now /\ status[p] \notin Protected}
Ahead(queue, post) == Candidates(Cardinality(Movable(queue, post)) + 2)
Movers(queue, post) == {p \in Movable(queue, post) : at[p] \in Ahead(queue, post)}

\* The instants no mover may take: all but those the movers vacate.
Fixed(queue, post) == Occupied(post) \ {at[p] : p \in Movers(queue, post)}

\* Mutant: the search starts at the slot the mover already has.
Open_FromItsOwn(queue, post, plan, p) ==
  LET after == {q \in Movers(queue, post) \ {p} : at[q] >= at[p]} IN
  {t \in Slots : t >= at[p]} \ (Fixed(queue, post) \cup {plan[q] : q \in after})

\* Where p may go: the movers after it are placed first, and two movers on the
\* same instant one after the other, so that neither takes the other's slot.
Open(queue, post, plan, p) ==
  LET after == {q \in Movers(queue, post) \ {p} : at[q] >= at[p]} IN
  {t \in Slots : t > at[p]} \ (Fixed(queue, post) \cup {plan[q] : q \in after})

\* The ladder: the post on the first slot, every mover on its next open one.
Ladder(queue, post) ==
  {plan \in [Movers(queue, post) \cup {post} -> Slots] :
     /\ plan[post] \in FirstOf(Ahead(queue, post))
     /\ \A p \in Movers(queue, post) : plan[p] \in FirstOf(Open(queue, post, plan, p))}

Prioritized(queue, post) ==
  LET first == FirstOf(Ahead(queue, post)) IN
  IF first \cap {at[p] : p \in Movable(queue, post)} # {} THEN Ladder(queue, post)
  ELSE Placed(post, IF first \cap Occupied(post) # {} THEN NextAvailable(post) ELSE first)

\* reorder_queue: the listed entries exchange the instants they hold.
Reordered(listed) ==
  {[p \in listed |-> at[order[p]]] : order \in Bijection(listed, listed)}

Slotted(queue) == {p \in entries[queue] : at[p] # Unset /\ status[p] \notin Protected}

-----------------------------------------------------------------------------
Init ==
  /\ now = 0
  /\ status \in [Posts -> {"draft", "scheduled"}]
  /\ at \in [Posts -> Instants]
  /\ \A p \in Posts : (status[p] = "scheduled") = (at[p] # Unset)
  /\ \A p, q \in Posts : at[p] = at[q] => p = q \/ at[p] = Unset
  /\ entries = [queue \in Queues |-> {}]
  /\ op = [r \in Requests |-> Idle]
  /\ edits = 0
  /\ form = [f \in Forms |-> Idle]
  /\ picked = {}
  /\ untimed = {}

\* Mutant: each queue has a lock of its own.
LockFree_PerQueue(queue) ==
  \A r \in Requests : op[r] # Idle => op[r].queue # queue

\* _lock_channel: the lock is the channel's, whatever the queue.
LockFree(queue) == \A r \in Requests : op[r] = Idle

\* The operation takes the lock and reads.
Begin(r, kind, queue, promote, plans) ==
  /\ LockFree(queue)
  /\ op[r] = Idle
  /\ \E plan \in plans :
       op' = [op EXCEPT ![r] =
         [kind |-> kind, queue |-> queue, promote |-> promote,
          held |-> DOMAIN plan \cap entries[queue], plan |-> plan]]
  /\ UNCHANGED <<now, at, status, entries, edits, form, picked, untimed>>

\* add_post_next_available: any post from the composer, an entry when it is
\* re-slotted.
AddNext(r, queue, post, promote) ==
  /\ status[post] \notin Protected
  /\ promote \/ post \in entries[queue]
  /\ Begin(r, "next", queue, IF promote THEN {post} ELSE {},
           Placed(post, NextAvailable(post)))

\* prioritize, from the composer: it does not look at the post's own status.
Prioritize(r, queue, post) ==
  Begin(r, "prioritize", queue, {post}, Prioritized(queue, post))

Reorder(r, queue) ==
  \E listed \in (SUBSET Slotted(queue)) \ {{}} :
    Begin(r, "reorder", queue, {}, Reordered(listed))

\* _transition_post_children: what has an edge to "scheduled".
Schedulable == {"draft", "failed", "publishing"}

\* The commit.  A save to an entry deleted meanwhile raises, and everything is
\* rolled back.  The composer then moves the post on to "scheduled" if it can.
Commit(r) ==
  LET o == op[r] IN
  /\ o # Idle
  /\ op' = [op EXCEPT ![r] = Idle]
  /\ IF o.held \subseteq entries[o.queue]
       THEN /\ at' = [p \in Posts |-> IF p \in DOMAIN o.plan THEN o.plan[p] ELSE at[p]]
            /\ entries' = [entries EXCEPT ![o.queue] = @ \cup DOMAIN o.plan]
            /\ status' = [p \in Posts |->
                 IF p \in o.promote /\ status[p] \in Schedulable THEN "scheduled"
                 ELSE status[p]]
       ELSE UNCHANGED <<at, entries, status>>
  /\ Untimed({})
  /\ UNCHANGED <<now, edits, form, picked>>

\* Mutant: the time is cleared and the status left alone.
Remove_TimeOnly(queue, post) ==
  /\ LockFree(queue)
  /\ post \in entries[queue]
  /\ entries' = [entries EXCEPT ![queue] = @ \ {post}]
  /\ at' = [at EXCEPT ![post] = Unset]
  /\ UNCHANGED <<now, status, op, edits, form, picked, untimed>>

\* remove_from_queue: back to draft, the time cleared, where the state machine
\* has that edge; only then do its other entries go as well.
Remove(queue, post) ==
  LET drafted == status[post] \in {"scheduled", "failed"} IN
  /\ LockFree(queue)
  /\ post \in entries[queue]
  /\ entries' = [k \in Queues |->
       IF drafted \/ k = queue THEN entries[k] \ {post} ELSE entries[k]]
  /\ status' = [status EXCEPT ![post] = IF drafted THEN "draft" ELSE @]
  /\ at' = [at EXCEPT ![post] = IF drafted THEN Unset ELSE @]
  /\ Untimed({})
  /\ UNCHANGED <<now, op, edits, form, picked>>

\* The entries go with the queue, the times stay, and an operation in flight on
\* it fails: its entries are gone, or have no queue to belong to.
DeleteQueue(queue) ==
  /\ entries' = [entries EXCEPT ![queue] = {}]
  /\ op' = [r \in Requests |->
       IF op[r] # Idle /\ op[r].queue = queue THEN Idle ELSE op[r]]
  /\ UNCHANGED <<now, at, status, edits, form, picked, untimed>>

-----------------------------------------------------------------------------
(* What touches the rows without the lock *)

\* Drag and drop on the calendar, onto a slot or not.
MoveByHand(post, t) ==
  /\ edits < MaxEdits /\ edits' = edits + 1
  /\ status[post] \in {"draft", "scheduled"}
  /\ at' = [at EXCEPT ![post] = t]
  /\ status' = [status EXCEPT ![post] = "scheduled"]
  /\ picked' = picked \cup {t}
  /\ Untimed({})
  /\ UNCHANGED <<now, entries, op, form>>

\* A composer save reads the row, which it will save whole.
OpenForm(f, post) ==
  /\ edits < MaxEdits /\ edits' = edits + 1
  /\ form[f] = Idle
  /\ form' = [form EXCEPT ![f] = [post |-> post, at |-> at[post], status |-> status[post]]]
  /\ UNCHANGED <<now, at, status, entries, op, picked, untimed>>

\* It writes back what it read, over whatever came in between.
SaveForm(f) ==
  LET row == form[f] IN
  /\ row # Idle
  /\ form' = [form EXCEPT ![f] = Idle]
  /\ at' = [at EXCEPT ![row.post] = row.at]
  /\ status' = [status EXCEPT ![row.post] = row.status]
  /\ picked' = IF at' = at /\ status' = status THEN picked ELSE picked \cup {row.at}
  /\ Untimed({row.post})
  /\ UNCHANGED <<now, entries, op, edits>>

\* The same for "schedule": the chosen time, unless the row is protected, and
\* the status, if it can be scheduled.
ScheduleForm(f, t) ==
  LET row == form[f]
      time == IF row.status \in Protected THEN row.at ELSE t IN
  /\ row # Idle
  /\ form' = [form EXCEPT ![f] = Idle]
  /\ at' = [at EXCEPT ![row.post] = time]
  /\ status' = [status EXCEPT ![row.post] =
       IF row.status \in Schedulable THEN "scheduled" ELSE row.status]
  /\ picked' = picked \cup {time}
  /\ Untimed({row.post})
  /\ UNCHANGED <<now, entries, op, edits>>

\* Where the composer's chip can move a post.
Edges(state) ==
  CASE state = "draft" -> {"pending_review", "scheduled", "publishing"}
    [] state = "pending_review" -> {"draft"}
    [] state = "scheduled" -> {"publishing", "draft"}
    [] state = "publishing" -> {"published", "failed", "scheduled"}
    [] state = "failed" -> {"publishing", "draft", "scheduled"}
    [] OTHER -> {}

\* The chip saves the status and leaves the time and the entries alone: a draft
\* keeps its time and a scheduled post may have none.
Chip(post, target) ==
  /\ edits < MaxEdits /\ edits' = edits + 1
  /\ target \in Edges(status[post])
  /\ status' = [status EXCEPT ![post] = target]
  /\ at' = at
  /\ picked' = IF status[post] \in Protected THEN picked \cup {at[post]} ELSE picked
  /\ Untimed({post})
  /\ UNCHANGED <<now, entries, op, form>>

\* Cancelling a scheduled post drops its entries.
Cancel(post) ==
  /\ status[post] = "scheduled"
  /\ status' = [status EXCEPT ![post] = "draft"]
  /\ at' = [at EXCEPT ![post] = Unset]
  /\ entries' = [k \in Queues |-> entries[k] \ {post}]
  /\ Untimed({})
  /\ UNCHANGED <<now, op, edits, form, picked>>

\* The publisher; a post without a time falls back on its parent's, which may
\* be past.  A success drops the entries.
Publish(post) ==
  /\ status[post] = "scheduled"
  /\ at[post] <= now
  /\ \/ /\ status' = [status EXCEPT ![post] = "published"]
        /\ entries' = [k \in Queues |-> entries[k] \ {post}]
     \/ /\ status' = [status EXCEPT ![post] = "failed"]
        /\ entries' = entries
  /\ at' = at
  /\ Untimed({})
  /\ UNCHANGED <<now, op, edits, form, picked>>

Tick ==
  /\ now < MaxTime
  /\ now' = now + 1
  /\ UNCHANGED <<at, status, entries, op, edits, form, picked, untimed>>

RequestStep(r) ==
  \/ \E queue \in Queues, post \in Posts :
       \/ \E promote \in BOOLEAN : AddNext(r, queue, post, promote)
       \/ Prioritize(r, queue, post)
  \/ \E queue \in Queues : Reorder(r, queue)
  \/ Commit(r)

PostStep(post) ==
  \/ \E queue \in Queues : Remove(queue, post)
  \/ \E t \in HandTimes : MoveByHand(post, t)
  \/ \E target \in Status : Chip(post, target)
  \/ Cancel(post)
  \/ Publish(post)

FormStep(f) ==
  \/ \E post \in Posts : OpenForm(f, post)
  \/ SaveForm(f)
  \/ \E t \in HandTimes : ScheduleForm(f, t)

Next ==
  \/ \E r \in Requests : RequestStep(r)
  \/ \E post \in Posts : PostStep(post)
  \/ \E f \in Forms : FormStep(f)
  \/ \E queue \in Queues : DeleteQueue(queue)
  \/ Tick

Spec == Init /\ [][Next]_vars

-----------------------------------------------------------------------------
(* Properties *)

\* Type invariant.
TypeOK ==
  /\ now \in 0..MaxTime
  /\ at \in [Posts -> Instants]
  /\ status \in [Posts -> Status]
  /\ entries \in [Queues -> SUBSET Posts]
  /\ op \in [Requests -> Op \cup {Idle}]
  /\ edits \in 0..MaxEdits
  /\ form \in [Forms -> Row \cup {Idle}]
  /\ picked \subseteq Instants
  /\ untimed \subseteq Posts

\* No two posts of the channel are booked on the same upcoming slot, whichever
\* queues they are in, unless a request that takes no lock put one there: a
\* hand move, the composer's own schedule, an older row written back, or the
\* chip taking a publishing post back.  What the slot operations do later never
\* spreads such a double booking to another slot.
NoDoubleBooking ==
  \A p, q \in Posts :
    /\ p # q
    /\ at[p] \in Slots \ picked /\ at[p] > now
    /\ {status[p], status[q]} \cap Protected = {}
    => at[p] # at[q]

\* A scheduled post has a time of its own, so that it never falls back on the
\* time of its parent, which may be past: only the chip, which asks for none,
\* and a save that writes such a row back leave it without.
ScheduledHasTime ==
  \A p \in Posts : status[p] = "scheduled" /\ at[p] = Unset => p \in untimed

\* "Queue full" is said only when every upcoming slot is taken: the short list
\* of candidates is long enough.
FullMeansFull ==
  \A p \in Posts : NextAvailable(p) = {} =>
    {t \in Slots : t > now} \subseteq Occupied(p)

\* The posts o pushes away go later and after the one promoted, and those that
\* had their slot for themselves go in their order.
InOrder(o) ==
  LET pushed == DOMAIN o.plan \ o.promote
      Alone(p) == \A q \in pushed \ {p} : at[q] # at[p] IN
  \A p \in pushed :
    /\ at[p] < o.plan[p]
    /\ \A post \in o.promote : o.plan[post] < o.plan[p]
    /\ \A q \in pushed : Alone(p) /\ at[p] < at[q] => o.plan[p] < o.plan[q]

\* Prioritizing a post moves the other entries later and keeps their order, and
\* the post comes before every entry that moved.
LadderKeepsOrder ==
  [][\A r \in Requests :
       op[r] = Idle /\ op'[r] # Idle /\ op'[r].kind = "prioritize" => InOrder(op'[r])]_vars

=============================================================================
