---------------------------- MODULE QueueProofs ----------------------------
(***************************************************************************)
(* What the slot operations promise, for any number of posts, queues,       *)
(* requests, forms and slots, wherever the users drag their posts: type     *)
(* correctness, that the channel's lock keeps every upcoming slot for one   *)
(* post unless a request without the lock put a post on it, that only the   *)
(* chip leaves a scheduled post without a time, and that prioritizing keeps *)
(* the others in their order.                                               *)
(***************************************************************************)
EXTENDS QueueSlots, FiniteSetTheorems, WellFoundedInduction, TLAPS

-----------------------------------------------------------------------------
(* What an operation in flight has promised *)

\* The upcoming slots it hands out are distinct, unless picked by hand ...
Apart(plan) ==
  \A p, q \in DOMAIN plan :
    p # q /\ plan[p] \in Slots \ picked /\ plan[p] > now => plan[p] # plan[q]

\* ... and no other post has one of them.
Clear(plan) ==
  \A p \in DOMAIN plan, q \in Posts \ DOMAIN plan :
    plan[p] \in Slots \ picked /\ plan[p] > now /\ status[q] \notin Protected
    => plan[p] # at[q]

Plan == UNION {[S -> Instants \ {Unset}] : S \in SUBSET Posts}
Sound(plan) == plan \in Plan /\ Apart(plan) /\ Clear(plan)

OneAtATime == \A r, s \in Requests : op[r] # Idle /\ op[s] # Idle => r = s
Promises ==
  \A r \in Requests : op[r] # Idle =>
    Apart(op[r].plan) /\ Clear(op[r].plan) /\ op[r].promote \subseteq DOMAIN op[r].plan

QueueInv == TypeOK /\ NoDoubleBooking /\ ScheduledHasTime /\ OneAtATime /\ Promises

-----------------------------------------------------------------------------
(* Types *)

LEMMA Instant == Instants \subseteq Nat /\ Slots \subseteq Instants \ {Unset}
                 /\ HandTimes \subseteq Instants \ {Unset} /\ Unset \in Instants
BY SlotAssumption, HandAssumption DEF Instants, Unset

LEMMA IdleIsNoOp == Idle \notin Op
<1>1. SUFFICES ASSUME Idle \in Op PROVE FALSE
  OBVIOUS
<1>2. Idle.kind \in Kinds
  BY <1>1 DEF Op
<1> QED
  BY <1>2 DEF Idle, Kinds

\* An operation in flight is a well-typed record.
LEMMA InFlight ==
  ASSUME TypeOK, NEW r \in Requests, op[r] # Idle
  PROVE  /\ op[r] \in Op
         /\ op[r].plan \in Plan
         /\ op[r].queue \in Queues
         /\ op[r].promote \subseteq Posts
         /\ DOMAIN op[r].plan \subseteq Posts
         /\ \A p \in DOMAIN op[r].plan : op[r].plan[p] \in Instants \ {Unset}
<1>1. op[r] \in Op
  BY DEF TypeOK
<1>2. op[r].plan \in Plan /\ op[r].queue \in Queues /\ op[r].promote \subseteq Posts
  BY <1>1 DEF Op, Plan
<1>3. PICK S \in SUBSET Posts : op[r].plan \in [S -> Instants \ {Unset}]
  BY <1>2 DEF Plan
<1>4. DOMAIN op[r].plan = S
  BY <1>3
<1>5. \A p \in S : op[r].plan[p] \in Instants \ {Unset}
  BY <1>3
<1> QED
  BY <1>1, <1>2, <1>4, <1>5

LEMMA SlotPlan ==
  ASSUME NEW D \in SUBSET Posts, NEW plan \in [D -> Slots]
  PROVE  plan \in Plan
<1>1. plan \in [D -> Instants \ {Unset}]
  BY Instant
<1> QED
  BY <1>1 DEF Plan

-----------------------------------------------------------------------------
(* The plans are sound *)

\* A post alone on free upcoming slots.
LEMMA PlacedSound ==
  ASSUME TypeOK, NEW post \in Posts, NEW S \in SUBSET Slots,
         \A t \in S : t \notin Occupied(post), NEW plan \in Placed(post, S)
  PROVE  Sound(plan) /\ post \in DOMAIN plan
<1>1. DOMAIN plan = {post} /\ plan \in [{post} -> S] /\ plan[post] \in S
  BY DEF Placed
<1>2. plan \in Plan
  <2>1. plan \in [{post} -> Slots]
    BY <1>1
  <2> QED
    BY <2>1, SlotPlan
<1>3. Apart(plan)
  BY <1>1 DEF Apart
<1>4. ASSUME NEW q \in Posts \ {post}, plan[post] > now, status[q] \notin Protected
      PROVE  plan[post] # at[q]
  BY <1>1, <1>4 DEF Occupied
<1> QED
  BY <1>1, <1>2, <1>3, <1>4 DEF Sound, Clear

LEMMA NextSound ==
  ASSUME TypeOK, NEW post \in Posts, NEW plan \in Placed(post, NextAvailable(post))
  PROVE  Sound(plan) /\ post \in DOMAIN plan
<1>1. /\ NextAvailable(post) \subseteq Slots
      /\ \A t \in NextAvailable(post) : t \notin Occupied(post)
  BY DEF NextAvailable, FirstOf, Candidates
<1> QED
  BY <1>1, PlacedSound

\* What a mover is: an unprotected post on an upcoming slot.
LEMMA MoverFacts ==
  ASSUME TypeOK, NEW queue \in Queues, NEW post \in Posts, NEW p \in Movers(queue, post)
  PROVE  /\ p \in Posts \ {post}
         /\ at[p] \in Slots /\ at[p] \in Nat /\ at[p] > now
         /\ status[p] \notin Protected
<1>1. p \in entries[queue] \ {post} /\ entries[queue] \subseteq Posts
  BY DEF Movers, Movable, TypeOK
<1>2. at[p] > now /\ status[p] \notin Protected
  BY DEF Movers, Movable
<1>3. at[p] \in Slots
  BY DEF Movers, Ahead, Candidates
<1> QED
  BY <1>1, <1>2, <1>3, SlotAssumption

\* Two posts on the same upcoming slot that nobody picked are one.
LEMMA SameSlot ==
  ASSUME NoDoubleBooking, NEW p \in Posts, NEW q \in Posts,
         at[p] \in Slots \ picked, at[p] > now, at[p] = at[q],
         status[p] \notin Protected, status[q] \notin Protected
  PROVE  p = q
BY DEF NoDoubleBooking

LEMMA LadderSound ==
  ASSUME TypeOK, NoDoubleBooking, NEW queue \in Queues, NEW post \in Posts,
         NEW plan \in Ladder(queue, post),
         FirstOf(Ahead(queue, post)) \cap {at[p] : p \in Movable(queue, post)} # {}
  PROVE  Sound(plan) /\ post \in DOMAIN plan
<1> DEFINE movers == Movers(queue, post)
<1>1. /\ plan \in [movers \cup {post} -> Slots]
      /\ plan[post] \in FirstOf(Ahead(queue, post))
      /\ \A p \in movers : plan[p] \in Open(queue, post, plan, p)
  BY DEF Ladder, FirstOf
<1>2. movers \subseteq Posts \ {post} /\ DOMAIN plan = movers \cup {post}
  BY <1>1, MoverFacts
<1>3. plan \in Plan
  BY <1>1, <1>2, SlotPlan
\* The mover that holds the first slot.
<1>4. PICK top \in movers : at[top] = plan[post]
  <2>1. PICK top \in Movable(queue, post) : at[top] \in FirstOf(Ahead(queue, post))
    OBVIOUS
  <2>2. at[top] \in Ahead(queue, post) /\ plan[post] \in Ahead(queue, post)
    BY <1>1, <2>1 DEF FirstOf
  <2>3. at[top] \in Nat /\ plan[post] \in Nat
    BY <2>2, SlotAssumption DEF Ahead, Candidates
  <2>4. at[top] = plan[post]
    BY <1>1, <2>1, <2>2, <2>3 DEF FirstOf
  <2> QED
    BY <2>1, <2>2, <2>4 DEF Movers
<1>5. \A p \in movers : /\ plan[p] \in Slots /\ plan[p] \in Nat /\ plan[p] > at[p]
                        /\ plan[p] \notin Fixed(queue, post)
                        /\ \A q \in movers \ {p} : at[q] >= at[p] => plan[p] # plan[q]
  BY <1>1, SlotAssumption DEF Open
<1>6. \A p \in movers : plan[p] # plan[post]
  <2>1. SUFFICES ASSUME NEW p \in movers PROVE plan[p] > plan[post]
    BY <1>1, <1>5, <1>4, MoverFacts
  <2>2. plan[post] <= at[p]
    BY <1>1 DEF FirstOf, Movers
  <2>3. plan[post] \in Nat /\ at[p] \in Nat
    BY <1>1, <1>2, SlotAssumption, MoverFacts
  <2> QED
    BY <1>5, <2>2, <2>3
<1>7. \A p, q \in movers : p # q => plan[p] # plan[q]
  <2>1. SUFFICES ASSUME NEW p \in movers, NEW q \in movers, p # q
                 PROVE  plan[p] # plan[q]
    OBVIOUS
  <2>2. at[p] \in Nat /\ at[q] \in Nat
    BY MoverFacts
  <2>3. at[p] >= at[q] \/ at[q] >= at[p]
    BY <2>2
  <2> QED
    BY <1>5, <2>1, <2>3
<1>8. Apart(plan)
  BY <1>2, <1>6, <1>7 DEF Apart
<1>9. ASSUME NEW p \in DOMAIN plan, NEW q \in Posts \ DOMAIN plan,
             plan[p] \in Slots \ picked, plan[p] > now, status[q] \notin Protected
      PROVE  plan[p] # at[q]
  <2>1. SUFFICES ASSUME plan[p] = at[q] PROVE FALSE
    OBVIOUS
  <2>2. q # post /\ q \notin movers /\ at[q] \in Occupied(post)
    BY <1>2, <1>9, <2>1 DEF Occupied
  <2>3. CASE p = post
    BY <1>4, <1>9, <2>1, <2>2, <2>3, MoverFacts, SameSlot
  <2>4. CASE p \in movers
    <3>1. PICK m \in movers : at[m] = at[q]
      BY <1>5, <2>1, <2>2, <2>4 DEF Fixed
    <3>2. /\ m \in Posts /\ m \in movers /\ at[m] \in Slots \ picked /\ at[m] > now
          /\ status[m] \notin Protected
      BY <1>2, <1>9, <2>1, <3>1, MoverFacts
    <3>3. m = q
      BY <1>9, <3>1, <3>2, SameSlot
    <3> QED
      BY <2>2, <3>2, <3>3
  <2> QED
    BY <1>2, <1>9, <2>3, <2>4
<1> QED
  BY <1>2, <1>3, <1>8, <1>9 DEF Sound, Clear

LEMMA PrioritizedSound ==
  ASSUME TypeOK, NoDoubleBooking, NEW queue \in Queues, NEW post \in Posts,
         NEW plan \in Prioritized(queue, post)
  PROVE  Sound(plan) /\ post \in DOMAIN plan
<1> DEFINE first == FirstOf(Ahead(queue, post))
<1>1. CASE first \cap {at[p] : p \in Movable(queue, post)} # {}
  BY <1>1, LadderSound DEF Prioritized
<1>2. CASE first \cap {at[p] : p \in Movable(queue, post)} = {} /\ first \cap Occupied(post) # {}
  BY <1>2, NextSound DEF Prioritized
<1>3. CASE first \cap {at[p] : p \in Movable(queue, post)} = {} /\ first \cap Occupied(post) = {}
  <2>1. first \subseteq Slots /\ \A t \in first : t \notin Occupied(post)
    BY <1>3 DEF FirstOf, Ahead, Candidates
  <2>2. plan \in Placed(post, first)
    BY <1>3 DEF Prioritized
  <2> QED
    BY <2>1, <2>2, PlacedSound
<1> QED
  BY <1>1, <1>2, <1>3

\* The listed entries keep to the slots they hold between them.
LEMMA ReorderedSound ==
  ASSUME TypeOK, NoDoubleBooking, NEW queue \in Queues,
         NEW listed \in SUBSET Slotted(queue), NEW plan \in Reordered(listed)
  PROVE  Sound(plan)
<1>1. PICK order \in Bijection(listed, listed) : plan = [p \in listed |-> at[order[p]]]
  BY DEF Reordered
<1>2. order \in [listed -> listed] /\ \A p, q \in listed : order[p] = order[q] => p = q
  BY <1>1 DEF Bijection, Injection, IsInjective
<1>3. DOMAIN plan = listed /\ \A p \in listed : order[p] \in listed /\ plan[p] = at[order[p]]
  BY <1>1, <1>2
<1>4. listed \subseteq Posts
  BY DEF Slotted, TypeOK
<1>5. \A p \in listed : at[p] \in Instants \ {Unset} /\ status[p] \notin Protected
  BY <1>4 DEF Slotted, TypeOK
<1>6. plan \in Plan
  BY <1>1, <1>3, <1>4, <1>5 DEF Plan
<1>7. Apart(plan)
  <2>1. SUFFICES ASSUME NEW p \in listed, NEW q \in listed, p # q,
                        plan[p] \in Slots \ picked, plan[p] > now, plan[p] = plan[q]
                 PROVE  FALSE
    BY <1>3 DEF Apart
  <2> QED
    BY <1>2, <1>3, <1>4, <1>5, <2>1, SameSlot
<1>8. Clear(plan)
  <2>1. SUFFICES ASSUME NEW p \in listed, NEW q \in Posts \ listed,
                        plan[p] \in Slots \ picked, plan[p] > now,
                        status[q] \notin Protected, plan[p] = at[q]
                 PROVE  FALSE
    BY <1>3 DEF Clear
  <2>2. at[order[p]] = at[q] /\ order[p] \in listed
    BY <1>3, <2>1
  <2> QED
    BY <1>4, <1>5, <2>1, <2>2, <1>3, SameSlot
<1> QED
  BY <1>6, <1>7, <1>8 DEF Sound

-----------------------------------------------------------------------------
(* The steps *)

\* A scheduled post that loses its time, or never had one, was left so by a
\* request that names none.
LEMMA StillTimed ==
  ASSUME QueueInv, NEW S \in SUBSET Posts, Untimed(S),
         \A p \in Posts : status'[p] = "scheduled" /\ at'[p] = Unset =>
           p \in S \/ (status[p] = "scheduled" /\ at[p] = Unset)
  PROVE  ScheduledHasTime' /\ untimed' \subseteq Posts
<1>1. untimed' = {p \in untimed \cup S : status'[p] = "scheduled" /\ at'[p] = Unset}
  BY DEF Untimed
<1>2. untimed' \subseteq Posts
  BY <1>1 DEF QueueInv, TypeOK
<1>3. ScheduledHasTime'
  BY <1>1 DEF QueueInv, ScheduledHasTime
<1> QED
  BY <1>2, <1>3

\* A step that books no slot under the lock: every post stays where it is,
\* leaves the slots or is put on an instant that counts as picked from now on,
\* and so is a protected post that is reopened; operations only go away.
LEMMA NothingBooked ==
  ASSUME QueueInv, TypeOK', now' >= now, picked \subseteq picked',
         \A r \in Requests : op'[r] \in {op[r], Idle},
         \A p \in Posts : at'[p] = at[p] \/ at'[p] \notin Slots \ picked',
         \A p \in Posts : status[p] \in Protected =>
           status'[p] \in Protected \/ at'[p] \in picked'
  PROVE  NoDoubleBooking' /\ OneAtATime' /\ Promises'
<1>0. now \in Nat /\ now' \in Nat /\ Slots \subseteq Nat
  BY TimeAssumption, SlotAssumption DEF QueueInv, TypeOK
<1>1. NoDoubleBooking'
  <2>1. SUFFICES ASSUME NEW p \in Posts, NEW q \in Posts, p # q,
                        at'[p] \in Slots \ picked', at'[p] > now', at'[p] = at'[q],
                        {status'[p], status'[q]} \cap Protected = {}
                 PROVE  FALSE
    BY DEF NoDoubleBooking
  <2>2. at'[p] = at[p] /\ at'[q] = at[q]
    BY <2>1
  <2>4. at[p] \in Nat /\ at[p] > now'
    BY <1>0, <2>1, <2>2
  <2>5. at[p] > now
    BY <1>0, <2>4
  <2>3. status[p] \notin Protected /\ status[q] \notin Protected
    BY <2>1
  <2> QED
    BY <2>1, <2>2, <2>3, <2>5, SameSlot DEF QueueInv
<1>2. OneAtATime'
  BY DEF QueueInv, OneAtATime
<1>3. Promises'
  <2>1. SUFFICES ASSUME NEW r \in Requests, op'[r] # Idle
                 PROVE  (/\ Apart(op[r].plan) /\ Clear(op[r].plan)
                         /\ op[r].promote \subseteq DOMAIN op[r].plan)'
    BY DEF Promises
  <2>2. /\ op'[r] = op[r] /\ op[r] # Idle
        /\ Apart(op[r].plan) /\ Clear(op[r].plan) /\ op[r].promote \subseteq DOMAIN op[r].plan
    BY <2>1 DEF QueueInv, Promises
  <2>3. DOMAIN op[r].plan \subseteq Posts
    BY <2>2, InFlight DEF QueueInv
  <2>4. Apart(op[r].plan)'
    <3>1. SUFFICES ASSUME NEW p \in DOMAIN op[r].plan, NEW q \in DOMAIN op[r].plan, p # q,
                          op[r].plan[p] \in Slots \ picked', op[r].plan[p] > now'
                   PROVE  op[r].plan[p] # op[r].plan[q]
      BY <2>2 DEF Apart
    <3>2. op[r].plan[p] \in Nat
      BY <1>0, <3>1
    <3>3. op[r].plan[p] > now
      BY <1>0, <3>1, <3>2
    <3> QED
      BY <2>2, <3>1, <3>3 DEF Apart
  <2>5. Clear(op[r].plan)'
    <3>1. SUFFICES ASSUME NEW p \in DOMAIN op[r].plan, NEW q \in Posts \ DOMAIN op[r].plan,
                          op[r].plan[p] \in Slots \ picked', op[r].plan[p] > now',
                          status'[q] \notin Protected, op[r].plan[p] = at'[q]
                   PROVE  FALSE
      BY <2>2 DEF Clear
    <3>2. at'[q] = at[q] /\ status[q] \notin Protected
      BY <3>1
    <3>3. op[r].plan[p] \in Nat
      BY <1>0, <3>1
    <3>4. op[r].plan[p] > now
      BY <1>0, <3>1, <3>3
    <3> QED
      BY <2>2, <3>1, <3>2, <3>4 DEF Clear
  <2> QED
    BY <2>2, <2>4, <2>5
<1> QED
  BY <1>1, <1>2, <1>3

\* What makes a well-typed record of an operation.
LEMMA NewOp ==
  ASSUME TypeOK, NEW kind \in Kinds, NEW queue \in Queues, NEW promote \in SUBSET Posts,
         NEW plan \in Plan
  PROVE  [kind |-> kind, queue |-> queue, promote |-> promote,
          held |-> DOMAIN plan \cap entries[queue], plan |-> plan] \in Op
<1>1. DOMAIN plan \cap entries[queue] \subseteq Posts
  BY DEF TypeOK
<1> QED
  BY <1>1 DEF Op, Plan

LEMMA BeginStep ==
  ASSUME QueueInv, NEW r \in Requests, NEW kind \in Kinds, NEW queue \in Queues,
         NEW promote \in SUBSET Posts, NEW plans,
         \A plan \in plans : Sound(plan) /\ promote \subseteq DOMAIN plan,
         Begin(r, kind, queue, promote, plans)
  PROVE  QueueInv'
<1>1. PICK plan \in plans :
        op' = [op EXCEPT ![r] =
          [kind |-> kind, queue |-> queue, promote |-> promote,
           held |-> DOMAIN plan \cap entries[queue], plan |-> plan]]
  BY DEF Begin
<1> DEFINE new == [kind |-> kind, queue |-> queue, promote |-> promote,
                   held |-> DOMAIN plan \cap entries[queue], plan |-> plan]
<1>2. /\ UNCHANGED <<now, at, status, entries, edits, form, picked, untimed>>
      /\ \A s \in Requests : op[s] = Idle
  BY DEF Begin, LockFree
<1>3. plan \in Plan /\ Apart(plan) /\ Clear(plan) /\ promote \subseteq DOMAIN plan
  BY <1>1 DEF Sound
<1>4. new \in Op
  BY <1>3, NewOp DEF QueueInv
<1>5. op' \in [Requests -> Op \cup {Idle}]
  BY <1>1, <1>4 DEF QueueInv, TypeOK
<1>6. op'[r] = new /\ \A s \in Requests \ {r} : op'[s] = Idle
  BY <1>1, <1>2 DEF QueueInv, TypeOK
<1>7. new.plan = plan /\ new.promote = promote
  OBVIOUS
<1> HIDE DEF new
<1>8. TypeOK'
  BY <1>2, <1>5 DEF QueueInv, TypeOK
<1>9. NoDoubleBooking' /\ ScheduledHasTime'
  BY <1>2 DEF QueueInv, NoDoubleBooking, ScheduledHasTime
<1>10. OneAtATime'
  BY <1>6 DEF OneAtATime
<1>11. Apart(plan)' /\ Clear(plan)'
  BY <1>2, <1>3 DEF Apart, Clear
<1>12. Promises'
  BY <1>3, <1>6, <1>7, <1>11 DEF Promises
<1> QED
  BY <1>8, <1>9, <1>10, <1>12 DEF QueueInv

LEMMA CommitStep ==
  ASSUME QueueInv, NEW r \in Requests, Commit(r)
  PROVE  QueueInv'
<1> DEFINE o == op[r]
<1>1. /\ o # Idle /\ op' = [op EXCEPT ![r] = Idle]
      /\ UNCHANGED <<now, edits, form, picked>> /\ Untimed({})
      /\ o.promote \subseteq Posts /\ o.queue \in Queues /\ DOMAIN o.plan \subseteq Posts
      /\ \A p \in DOMAIN o.plan : o.plan[p] \in Instants \ {Unset}
  BY InFlight DEF Commit, QueueInv
<1>2. Apart(o.plan) /\ Clear(o.plan) /\ o.promote \subseteq DOMAIN o.plan
  BY <1>1 DEF QueueInv, Promises
<1>3. op' \in [Requests -> Op \cup {Idle}] /\ \A s \in Requests : op'[s] = Idle
  BY <1>1 DEF QueueInv, TypeOK, OneAtATime
<1>4. OneAtATime' /\ Promises'
  BY <1>3 DEF OneAtATime, Promises
<1>5. CASE o.held \subseteq entries[o.queue]
  <2>1. /\ at' = [p \in Posts |-> IF p \in DOMAIN o.plan THEN o.plan[p] ELSE at[p]]
        /\ entries' = [entries EXCEPT ![o.queue] = @ \cup DOMAIN o.plan]
        /\ status' = [p \in Posts |->
             IF p \in o.promote /\ status[p] \in Schedulable THEN "scheduled" ELSE status[p]]
    BY <1>5 DEF Commit
  <2>5. ScheduledHasTime' /\ untimed' \subseteq Posts
    <3>1. ASSUME NEW p \in Posts, status'[p] = "scheduled", at'[p] = Unset
          PROVE  status[p] = "scheduled" /\ at[p] = Unset
      BY <1>1, <1>2, <2>1, <3>1
    <3> QED
      BY <1>1, <3>1, StillTimed
  <2>2. TypeOK'
    <3>1. at' \in [Posts -> Instants]
      BY <1>1, <2>1 DEF QueueInv, TypeOK
    <3>2. status' \in [Posts -> Status]
      BY <2>1 DEF QueueInv, TypeOK, Status
    <3>3. entries' \in [Queues -> SUBSET Posts]
      BY <1>1, <2>1 DEF QueueInv, TypeOK
    <3> QED
      BY <1>1, <1>3, <2>5, <3>1, <3>2, <3>3 DEF QueueInv, TypeOK
  <2>3. \A p \in Posts \ DOMAIN o.plan : status'[p] = status[p] /\ at'[p] = at[p]
    BY <1>2, <2>1
  <2>4. NoDoubleBooking'
    <3>1. SUFFICES ASSUME NEW p \in Posts, NEW q \in Posts, p # q,
                          at'[p] \in Slots \ picked, at'[p] > now, at'[p] = at'[q],
                          {status'[p], status'[q]} \cap Protected = {}
                   PROVE  FALSE
      BY <1>1 DEF NoDoubleBooking
    <3>2. \A s \in {p, q} \ DOMAIN o.plan : status[s] \notin Protected
      BY <2>3, <3>1
    <3>3. CASE p \in DOMAIN o.plan /\ q \in DOMAIN o.plan
      BY <1>2, <2>1, <3>1, <3>3 DEF Apart
    <3>4. CASE p \in DOMAIN o.plan /\ q \notin DOMAIN o.plan
      BY <1>2, <2>1, <3>1, <3>2, <3>4 DEF Clear
    <3>5. CASE p \notin DOMAIN o.plan /\ q \in DOMAIN o.plan
      BY <1>2, <2>1, <3>1, <3>2, <3>5 DEF Clear
    <3>6. CASE p \notin DOMAIN o.plan /\ q \notin DOMAIN o.plan
      BY <2>1, <3>1, <3>2, <3>6, SameSlot DEF QueueInv
    <3> QED
      BY <3>3, <3>4, <3>5, <3>6
  <2> QED
    BY <1>4, <2>2, <2>4, <2>5 DEF QueueInv
<1>6. CASE ~(o.held \subseteq entries[o.queue])
  <2>1. UNCHANGED <<at, entries, status>>
    BY <1>6 DEF Commit
  <2>2. ScheduledHasTime' /\ untimed' \subseteq Posts
    BY <1>1, <2>1, StillTimed
  <2>3. TypeOK' /\ NoDoubleBooking'
    BY <1>1, <1>3, <2>1, <2>2 DEF QueueInv, TypeOK, NoDoubleBooking
  <2> QED
    BY <1>4, <2>2, <2>3 DEF QueueInv
<1> QED
  BY <1>5, <1>6

\* The three slot operations read a sound plan.
LEMMA RequestSteps ==
  ASSUME QueueInv, NEW r \in Requests, RequestStep(r)
  PROVE  QueueInv'
<1>1. ASSUME NEW queue \in Queues, NEW post \in Posts, NEW promote \in BOOLEAN,
             AddNext(r, queue, post, promote)
      PROVE  QueueInv'
  <2> DEFINE promoted == IF promote THEN {post} ELSE {}
  <2>1. promoted \in SUBSET Posts
    OBVIOUS
  <2>2. \A plan \in Placed(post, NextAvailable(post)) :
          Sound(plan) /\ promoted \subseteq DOMAIN plan
    BY NextSound DEF QueueInv
  <2>3. Begin(r, "next", queue, promoted, Placed(post, NextAvailable(post))) /\ "next" \in Kinds
    BY <1>1 DEF AddNext, Kinds
  <2> QED
    BY <2>1, <2>2, <2>3, BeginStep
<1>2. ASSUME NEW queue \in Queues, NEW post \in Posts, Prioritize(r, queue, post)
      PROVE  QueueInv'
  <2>1. \A plan \in Prioritized(queue, post) : Sound(plan) /\ {post} \subseteq DOMAIN plan
    BY PrioritizedSound DEF QueueInv
  <2>2. Begin(r, "prioritize", queue, {post}, Prioritized(queue, post)) /\ "prioritize" \in Kinds
    BY <1>2 DEF Prioritize, Kinds
  <2> QED
    BY <2>1, <2>2, BeginStep
<1>3. ASSUME NEW queue \in Queues, Reorder(r, queue)
      PROVE  QueueInv'
  <2>1. PICK listed \in SUBSET Slotted(queue) :
          Begin(r, "reorder", queue, {}, Reordered(listed))
    BY <1>3 DEF Reorder
  <2>2. \A plan \in Reordered(listed) : Sound(plan) /\ {} \subseteq DOMAIN plan
    BY ReorderedSound DEF QueueInv
  <2> QED
    BY <2>1, <2>2, BeginStep DEF Kinds
<1> QED
  BY <1>1, <1>2, <1>3, CommitStep DEF RequestStep

LEMMA RemoveStep ==
  ASSUME QueueInv, NEW queue \in Queues, NEW post \in Posts, Remove(queue, post)
  PROVE  QueueInv'
<1>1. /\ UNCHANGED <<now, op, edits, form, picked>> /\ Untimed({})
      /\ \A p \in Posts : at'[p] = at[p] \/ at'[p] \notin Slots
      /\ \A p \in Posts : status[p] \in Protected => status'[p] \in Protected
      /\ \A p \in Posts : status'[p] = "scheduled" => status[p] = "scheduled" /\ at'[p] = at[p]
  BY Instant DEF Remove, QueueInv, TypeOK, Protected
<1>2. ScheduledHasTime' /\ untimed' \subseteq Posts
  BY <1>1, StillTimed
<1>3. TypeOK'
  BY <1>2, Instant DEF Remove, QueueInv, TypeOK, Status
<1> QED
  BY <1>1, <1>2, <1>3, NothingBooked, TimeAssumption DEF QueueInv, TypeOK

LEMMA DeleteQueueStep ==
  ASSUME QueueInv, NEW queue \in Queues, DeleteQueue(queue)
  PROVE  QueueInv'
<1>1. /\ UNCHANGED <<now, at, status, edits, form, picked, untimed>>
      /\ \A r \in Requests : op'[r] \in {op[r], Idle}
  BY DEF DeleteQueue
<1>2. TypeOK'
  BY DEF DeleteQueue, QueueInv, TypeOK
<1>3. ScheduledHasTime'
  BY <1>1 DEF QueueInv, ScheduledHasTime
<1> QED
  BY <1>1, <1>2, <1>3, NothingBooked, TimeAssumption DEF QueueInv, TypeOK

\* A hand move, a form or the chip writes one row, without the lock: where it
\* leaves the slots' bookings to be answered for by picked.
LEMMA Unlocked ==
  ASSUME QueueInv, NEW post \in Posts, NEW t \in Instants, NEW state \in Status,
         at' = [at EXCEPT ![post] = t], status' = [status EXCEPT ![post] = state],
         \/ t \in picked'
         \/ t = at[post] /\ (status[post] \in Protected => state \in Protected),
         picked \subseteq picked', picked' \subseteq Instants,
         NEW S \in SUBSET {post}, Untimed(S),
         post \in S \/ t # Unset,
         form' \in [Forms -> Row \cup {Idle}], edits' \in 0..MaxEdits,
         UNCHANGED <<now, op, entries>>
  PROVE  QueueInv'
<1>1. /\ at'[post] = t /\ status'[post] = state
      /\ \A p \in Posts \ {post} : at'[p] = at[p] /\ status'[p] = status[p]
  BY DEF QueueInv, TypeOK
<1>2. ScheduledHasTime' /\ untimed' \subseteq Posts
  <2>1. ASSUME NEW p \in Posts, status'[p] = "scheduled", at'[p] = Unset
        PROVE  p \in S \/ (status[p] = "scheduled" /\ at[p] = Unset)
    BY <1>1, <2>1
  <2> QED
    BY <2>1, StillTimed
<1>3. TypeOK'
  BY <1>2 DEF QueueInv, TypeOK
<1>4. \A p \in Posts : /\ at'[p] = at[p] \/ at'[p] \notin Slots \ picked'
                       /\ status[p] \in Protected => status'[p] \in Protected \/ at'[p] \in picked'
  BY <1>1
<1>5. now' >= now
  BY TimeAssumption DEF QueueInv, TypeOK
<1> QED
  BY <1>2, <1>3, <1>4, <1>5, NothingBooked DEF QueueInv

LEMMA MoveByHandStep ==
  ASSUME QueueInv, NEW post \in Posts, NEW t \in HandTimes, MoveByHand(post, t)
  PROVE  QueueInv'
<1>1. edits' \in 0..MaxEdits
  BY EditAssumption DEF MoveByHand, QueueInv, TypeOK
<1>2. form' \in [Forms -> Row \cup {Idle}] /\ picked' \subseteq Instants
  BY Instant DEF MoveByHand, QueueInv, TypeOK
<1> QED
  BY <1>1, <1>2, Instant, Unlocked DEF MoveByHand, Status

LEMMA ChipStep ==
  ASSUME QueueInv, NEW post \in Posts, NEW target \in Status, Chip(post, target)
  PROVE  QueueInv'
<1>1. edits' \in 0..MaxEdits
  BY EditAssumption DEF Chip, QueueInv, TypeOK
<1>2. /\ form' \in [Forms -> Row \cup {Idle}] /\ picked' \subseteq Instants
      /\ at[post] \in Instants /\ at' = [at EXCEPT ![post] = at[post]]
  BY DEF Chip, QueueInv, TypeOK
<1> QED
  BY <1>1, <1>2, Unlocked DEF Chip

LEMMA OpenFormStep ==
  ASSUME QueueInv, NEW f \in Forms, NEW post \in Posts, OpenForm(f, post)
  PROVE  QueueInv'
<1>1. UNCHANGED <<now, at, status, entries, op, picked, untimed>>
  BY DEF OpenForm
<1>2. [post |-> post, at |-> at[post], status |-> status[post]] \in Row
  BY DEF QueueInv, TypeOK, Row
<1>3. form' \in [Forms -> Row \cup {Idle}] /\ edits' \in 0..MaxEdits
  BY <1>2, EditAssumption DEF OpenForm, QueueInv, TypeOK
<1>4. TypeOK' /\ ScheduledHasTime'
  BY <1>1, <1>3 DEF QueueInv, TypeOK, ScheduledHasTime
<1> QED
  BY <1>1, <1>4, NothingBooked, TimeAssumption DEF QueueInv, TypeOK

\* A form in flight holds a well-typed row.
LEMMA FormRow ==
  ASSUME QueueInv, NEW f \in Forms, form[f] # Idle
  PROVE  /\ form[f].post \in Posts /\ form[f].at \in Instants /\ form[f].status \in Status
         /\ [form EXCEPT ![f] = Idle] \in [Forms -> Row \cup {Idle}]
<1>1. form \in [Forms -> Row \cup {Idle}]
  BY DEF QueueInv, TypeOK
<1>2. form[f] \in Row
  BY <1>1
<1> QED
  BY <1>1, <1>2 DEF Row

LEMMA SaveFormStep ==
  ASSUME QueueInv, NEW f \in Forms, SaveForm(f)
  PROVE  QueueInv'
<1> DEFINE row == form[f]
<1>1. /\ row # Idle /\ form' = [form EXCEPT ![f] = Idle]
      /\ at' = [at EXCEPT ![row.post] = row.at]
      /\ status' = [status EXCEPT ![row.post] = row.status]
      /\ picked' = (IF at' = at /\ status' = status THEN picked ELSE picked \cup {row.at})
      /\ Untimed({row.post}) /\ UNCHANGED <<now, entries, op, edits>>
  BY DEF SaveForm
<1>2. /\ row.post \in Posts /\ row.at \in Instants /\ row.status \in Status
      /\ form' \in [Forms -> Row \cup {Idle}]
  BY <1>1, FormRow
<1>3. /\ at \in [Posts -> Instants] /\ status \in [Posts -> Status]
      /\ picked \subseteq Instants /\ edits' \in 0..MaxEdits
  BY <1>1 DEF QueueInv, TypeOK
<1> HIDE DEF row
<1>4. row.at \in picked' \/ (row.at = at[row.post] /\ row.status = status[row.post])
  BY <1>1, <1>2, <1>3
<1>5. picked \subseteq picked' /\ picked' \subseteq Instants
  BY <1>1, <1>2, <1>3
<1> QED
  BY <1>1, <1>2, <1>3, <1>4, <1>5, Unlocked

LEMMA ScheduleFormStep ==
  ASSUME QueueInv, NEW f \in Forms, NEW t \in HandTimes, ScheduleForm(f, t)
  PROVE  QueueInv'
<1> DEFINE row == form[f]
           time == IF row.status \in Protected THEN row.at ELSE t
           state == IF row.status \in Schedulable THEN "scheduled" ELSE row.status
<1>1. /\ row # Idle /\ form' = [form EXCEPT ![f] = Idle]
      /\ at' = [at EXCEPT ![row.post] = time]
      /\ status' = [status EXCEPT ![row.post] = state]
      /\ picked' = picked \cup {time}
      /\ Untimed({row.post}) /\ UNCHANGED <<now, entries, op, edits>>
  BY DEF ScheduleForm
<1>2. /\ row.post \in Posts /\ row.at \in Instants /\ row.status \in Status
      /\ form' \in [Forms -> Row \cup {Idle}]
  BY <1>1, FormRow
<1>3. time \in Instants /\ state \in Status
  BY <1>2, Instant DEF Status
<1>4. picked \subseteq Instants /\ edits' \in 0..MaxEdits
  BY <1>1 DEF QueueInv, TypeOK
<1> HIDE DEF row, time, state
<1>5. time \in picked' /\ picked \subseteq picked' /\ picked' \subseteq Instants
  BY <1>1, <1>3, <1>4
<1> QED
  BY <1>1, <1>2, <1>3, <1>4, <1>5, Unlocked

LEMMA CancelStep ==
  ASSUME QueueInv, NEW post \in Posts, Cancel(post)
  PROVE  QueueInv'
<1>1. /\ UNCHANGED <<now, op, edits, form, picked>> /\ Untimed({})
      /\ \A p \in Posts : at'[p] = at[p] \/ at'[p] \notin Slots
      /\ \A p \in Posts : status[p] \in Protected => status'[p] \in Protected
      /\ \A p \in Posts : status'[p] = "scheduled" => status[p] = "scheduled" /\ at'[p] = at[p]
  BY Instant DEF Cancel, QueueInv, TypeOK, Protected
<1>2. ScheduledHasTime' /\ untimed' \subseteq Posts
  BY <1>1, StillTimed
<1>3. TypeOK'
  BY <1>2, Instant DEF Cancel, QueueInv, TypeOK, Status
<1> QED
  BY <1>1, <1>2, <1>3, NothingBooked, TimeAssumption DEF QueueInv, TypeOK

LEMMA PublishStep ==
  ASSUME QueueInv, NEW post \in Posts, Publish(post)
  PROVE  QueueInv'
<1>1. /\ UNCHANGED <<now, at, op, edits, form, picked>> /\ Untimed({})
      /\ \A p \in Posts : status[p] \in Protected => status'[p] \in Protected
      /\ \A p \in Posts : status'[p] = "scheduled" => status[p] = "scheduled"
  BY DEF Publish, QueueInv, TypeOK, Protected
<1>2. ScheduledHasTime' /\ untimed' \subseteq Posts
  BY <1>1, StillTimed
<1>3. TypeOK'
  BY <1>2 DEF Publish, QueueInv, TypeOK, Status
<1> QED
  BY <1>1, <1>2, <1>3, NothingBooked, TimeAssumption DEF QueueInv, TypeOK

LEMMA TickStep ==
  ASSUME QueueInv, Tick
  PROVE  QueueInv'
<1>1. /\ UNCHANGED <<at, status, entries, op, edits, form, picked, untimed>>
      /\ now' = now + 1 /\ now < MaxTime
  BY DEF Tick
<1>2. now \in 0..MaxTime /\ now' \in 0..MaxTime /\ now' >= now
  BY <1>1, TimeAssumption DEF QueueInv, TypeOK
<1>3. TypeOK'
  BY <1>1, <1>2 DEF QueueInv, TypeOK
<1>4. ScheduledHasTime'
  BY <1>1 DEF QueueInv, ScheduledHasTime
<1> QED
  BY <1>1, <1>2, <1>3, <1>4, NothingBooked DEF QueueInv

LEMMA InitQueue == Init => QueueInv
<1> SUFFICES ASSUME Init PROVE QueueInv
  OBVIOUS
<1>1. TypeOK
  BY TimeAssumption, EditAssumption DEF Init, TypeOK, Status
<1>2. NoDoubleBooking
  BY SlotAssumption DEF Init, NoDoubleBooking, Unset
<1>3. ScheduledHasTime /\ OneAtATime /\ Promises
  BY DEF Init, ScheduledHasTime, OneAtATime, Promises
<1> QED
  BY <1>1, <1>2, <1>3 DEF QueueInv

LEMMA NextQueue ==
  ASSUME QueueInv, [Next]_vars PROVE QueueInv'
<1>1. CASE UNCHANGED vars
  BY <1>1 DEF vars, QueueInv, TypeOK, NoDoubleBooking, ScheduledHasTime, OneAtATime,
              Promises, Apart, Clear
<1>2. ASSUME NEW post \in Posts, PostStep(post) PROVE QueueInv'
  BY <1>2, RemoveStep, MoveByHandStep, ChipStep, CancelStep, PublishStep DEF PostStep
<1>3. ASSUME NEW f \in Forms, FormStep(f) PROVE QueueInv'
  BY <1>3, OpenFormStep, SaveFormStep, ScheduleFormStep DEF FormStep
<1> QED
  BY <1>1, <1>2, <1>3, RequestSteps, DeleteQueueStep, TickStep DEF Next

LEMMA QueueInvariant == Spec => []QueueInv
<1>1. QueueInv /\ [Next]_vars => QueueInv'
  BY NextQueue
<1> QED
  BY <1>1, InitQueue, PTL DEF Spec

\* Every state of the queues is well typed: in particular every operation in
\* flight is about to write slots and instants its channel has.
THEOREM TypeCorrect == Spec => []TypeOK
<1>1. QueueInv => TypeOK
  BY DEF QueueInv
<1> QED
  BY <1>1, QueueInvariant, PTL

\* No two posts of a channel are booked on the same upcoming slot, whatever
\* slot operations, cancels, removals and publications interleave and wherever
\* users drag posts: but for the slots a request without the lock has touched.
THEOREM NoSlotIsBookedTwice == Spec => []NoDoubleBooking
<1>1. QueueInv => NoDoubleBooking
  BY DEF QueueInv
<1> QED
  BY <1>1, QueueInvariant, PTL

\* Only the chip, and a save that writes back what it left, leave a scheduled
\* post without a time of its own: no slot operation, drag, cancel or removal
\* ever does, however they interleave.
THEOREM OnlyTheChipLeavesNoTime == Spec => []ScheduledHasTime
<1>1. QueueInv => ScheduledHasTime
  BY DEF QueueInv
<1> QED
  BY <1>1, QueueInvariant, PTL

-----------------------------------------------------------------------------
(* The order of the ladder *)

LEMMA LeastNatural ==
  ASSUME NEW S \in SUBSET Nat, S # {} PROVE \E m \in S : \A k \in S : m <= k
<1>1. PICK m \in S : \A k \in S : <<k, m>> \notin OpToRel(<, Nat)
  BY NatLessThanWellFounded, WFMin
<1>2. \A k \in S : ~(k < m)
  BY <1>1 DEF OpToRel
<1> QED
  BY <1>2

\* Every mover goes later and after the prioritized post, and one that is alone
\* on its slot keeps its order: the slot of the next mover is open to it, so it
\* never has to pass that one.
LEMMA LadderOrder ==
  ASSUME TypeOK, NEW queue \in Queues, NEW post \in Posts,
         NEW plan \in Ladder(queue, post)
  PROVE  \A p \in Movers(queue, post) :
           /\ at[p] < plan[p] /\ plan[post] < plan[p]
           /\ \A q \in Movers(queue, post) :
                (\A m \in Movers(queue, post) \ {p} : at[m] # at[p]) /\ at[p] < at[q]
                => plan[p] < plan[q]
<1> DEFINE movers == Movers(queue, post)
<1>1. /\ plan[post] \in FirstOf(Ahead(queue, post))
      /\ \A p \in movers : plan[p] \in FirstOf(Open(queue, post, plan, p))
  BY DEF Ladder
<1>2. \A p \in movers : plan[p] \in Nat /\ at[p] \in Nat /\ plan[p] > at[p]
  BY <1>1, SlotAssumption, MoverFacts DEF FirstOf, Open
<1>3. \A p \in movers : plan[post] \in Nat /\ plan[post] <= at[p]
  BY <1>1, SlotAssumption DEF FirstOf, Movers, Ahead, Candidates
<1>4. ASSUME NEW p \in movers, NEW q \in movers, at[p] < at[q],
             \A m \in movers \ {p} : at[m] # at[p]
      PROVE  plan[p] < plan[q]
  <2> DEFINE later == {at[s] : s \in {m \in movers : at[m] > at[p]}}
  <2>1. later \in SUBSET Nat /\ at[q] \in later
    BY <1>2, <1>4
  <2>2. PICK t \in later : \A u \in later : t <= u
    BY <2>1, LeastNatural
  <2>3. PICK s \in movers : at[s] > at[p] /\ at[s] = t
    BY <2>2
  <2>4. at[s] \in Slots /\ at[s] \notin Fixed(queue, post)
    BY <2>3, MoverFacts DEF Fixed
  <2>5. ASSUME NEW m \in movers \ {p}, at[m] >= at[p] PROVE plan[m] # at[s]
    <3>1. at[m] > at[p]
      BY <1>2, <1>4, <2>5
    <3> QED
      BY <1>2, <2>2, <2>3, <3>1
  <2>6. at[s] \in Open(queue, post, plan, p)
    BY <2>3, <2>4, <2>5 DEF Open
  <2>7. plan[p] <= at[s]
    BY <1>1, <2>6 DEF FirstOf
  <2>8. at[s] <= at[q]
    BY <2>1, <2>2, <2>3
  <2> QED
    BY <1>2, <2>7, <2>8
<1>5. \A p \in movers : at[p] < plan[p] /\ plan[post] < plan[p]
  BY <1>2, <1>3
<1> QED
  BY <1>4, <1>5

\* What Prioritize puts in flight is in order.
LEMMA PrioritizeInOrder ==
  ASSUME QueueInv, NEW r \in Requests, NEW queue \in Queues, NEW post \in Posts,
         Prioritize(r, queue, post)
  PROVE  InOrder(op'[r])
<1>1. PICK plan \in Prioritized(queue, post) :
        op' = [op EXCEPT ![r] =
          [kind |-> "prioritize", queue |-> queue, promote |-> {post},
           held |-> DOMAIN plan \cap entries[queue], plan |-> plan]]
  BY DEF Prioritize, Begin
<1>2. op'[r].plan = plan /\ op'[r].promote = {post}
  BY <1>1 DEF QueueInv, TypeOK
<1>3. CASE plan \in Ladder(queue, post)
  <2>1. DOMAIN plan \ {post} = Movers(queue, post)
    BY <1>3 DEF Ladder, Movers, Movable
  <2>2. \A p \in Movers(queue, post) :
          /\ at[p] < plan[p] /\ plan[post] < plan[p]
          /\ \A q \in Movers(queue, post) :
               (\A m \in Movers(queue, post) \ {p} : at[m] # at[p]) /\ at[p] < at[q]
               => plan[p] < plan[q]
    BY <1>3, LadderOrder DEF QueueInv
  <2> QED
    BY <1>2, <2>1, <2>2 DEF InOrder
<1>4. CASE \E S : plan \in Placed(post, S)
  <2>1. DOMAIN plan \ {post} = {}
    BY <1>4 DEF Placed
  <2> QED
    BY <1>2, <2>1 DEF InOrder
<1> QED
  BY <1>1, <1>3, <1>4 DEF Prioritized

LEMMA OnlyPrioritizeLadders ==
  ASSUME QueueInv, Next, NEW r \in Requests,
         op[r] = Idle, op'[r] # Idle, op'[r].kind = "prioritize"
  PROVE  \E queue \in Queues, post \in Posts : Prioritize(r, queue, post)
<1>1. op'[r] # op[r]
  OBVIOUS
<1>2. ~ \E post \in Posts : PostStep(post)
  BY <1>1 DEF PostStep, Remove, MoveByHand, Chip, Cancel, Publish
<1>3. ~ \E queue \in Queues : DeleteQueue(queue)
  BY DEF DeleteQueue
<1>4. ~ Tick /\ ~ \E f \in Forms : FormStep(f)
  BY <1>1 DEF Tick, FormStep, OpenForm, SaveForm, ScheduleForm
<1>5. PICK s \in Requests : RequestStep(s)
  BY <1>2, <1>3, <1>4 DEF Next
<1>6. ~ Commit(s)
  BY <1>1 DEF Commit, QueueInv, TypeOK
<1>7. ASSUME NEW kind, NEW queue, NEW promote, NEW plans, Begin(s, kind, queue, promote, plans)
      PROVE  s = r /\ kind = "prioritize"
  <2>1. PICK plan \in plans :
          op' = [op EXCEPT ![s] =
            [kind |-> kind, queue |-> queue, promote |-> promote,
             held |-> DOMAIN plan \cap entries[queue], plan |-> plan]]
    BY <1>7 DEF Begin
  <2>2. s = r
    BY <1>1, <2>1 DEF QueueInv, TypeOK
  <2>3. op'[r].kind = kind
    BY <2>1, <2>2 DEF QueueInv, TypeOK
  <2> QED
    BY <2>2, <2>3
<1>8. ASSUME NEW queue \in Queues, NEW post \in Posts, NEW promote \in BOOLEAN,
             AddNext(s, queue, post, promote)
      PROVE  FALSE
  <2>1. Begin(s, "next", queue, IF promote THEN {post} ELSE {},
              Placed(post, NextAvailable(post)))
    BY <1>8 DEF AddNext
  <2> QED
    BY <2>1, <1>7
<1>9. ASSUME NEW queue \in Queues, Reorder(s, queue) PROVE FALSE
  <2>1. PICK listed : Begin(s, "reorder", queue, {}, Reordered(listed))
    BY <1>9 DEF Reorder
  <2> QED
    BY <2>1, <1>7
<1>10. PICK queue \in Queues, post \in Posts : Prioritize(s, queue, post)
  BY <1>5, <1>6, <1>8, <1>9 DEF RequestStep
<1>11. s = r
  BY <1>7, <1>10 DEF Prioritize
<1> QED
  BY <1>10, <1>11

\* Prioritizing pushes the other entries later, in their order, behind the
\* prioritized post, however many there are and whatever foreign posts stand
\* between the slots.
THEOREM LadderIsInOrder == Spec => LadderKeepsOrder
<1>1. QueueInv /\ [Next]_vars =>
        [\A r \in Requests :
          op[r] = Idle /\ op'[r] # Idle /\ op'[r].kind = "prioritize" => InOrder(op'[r])]_vars
  <2>1. SUFFICES ASSUME QueueInv, Next, NEW r \in Requests,
                        op[r] = Idle, op'[r] # Idle, op'[r].kind = "prioritize"
                 PROVE  InOrder(op'[r])
    OBVIOUS
  <2> QED
    BY <2>1, OnlyPrioritizeLadders, PrioritizeInOrder
<1> QED
  BY <1>1, QueueInvariant, PTL DEF Spec, LadderKeepsOrder

-----------------------------------------------------------------------------
(* The list of candidates is long enough *)

LEMMA OccupiedFinite == ASSUME NEW post PROVE IsFiniteSet(Occupied(post))
<1> DEFINE holders == {q \in Posts \ {post} : at[q] > now /\ status[q] \notin Protected}
<1>1. IsFiniteSet(holders)
  BY PostAssumption, FS_Subset
<1> DEFINE instant == [p \in holders |-> at[p]]
<1>2. instant \in Surjection(holders, Occupied(post))
  BY DEF Surjection, Occupied
<1>3. IsFiniteSet(Occupied(post))
  BY <1>1, <1>2, FS_Surjection
<1> QED
  BY <1>3

\* The first free slot has only occupied slots before it, so it is a candidate.
LEMMA FirstFreeIsListed ==
  ASSUME NEW post \in Posts, NextAvailable(post) = {}
  PROVE  {t \in Slots : t > now} \subseteq Occupied(post)
<1> DEFINE occupied == Occupied(post)
           open == {t \in Slots : t > now} \ occupied
           listed == Candidates(Cardinality(occupied) + 1) \ occupied
<1>1. SUFFICES ASSUME open # {} PROVE FALSE
  OBVIOUS
<1>2. open \in SUBSET Nat /\ listed \in SUBSET Nat
  BY SlotAssumption DEF Candidates
<1>3. PICK first \in open : \A t \in open : first <= t
  BY <1>1, <1>2, LeastNatural
<1> DEFINE before == {u \in Slots : now < u /\ u < first}
<1>4. before \subseteq occupied
  <2>1. SUFFICES ASSUME NEW u \in before, u \notin occupied PROVE FALSE
    OBVIOUS
  <2>2. u \in open /\ u < first
    BY <2>1
  <2>3. first <= u /\ first \in Nat /\ u \in Nat
    BY <1>2, <1>3, <2>2
  <2> QED
    BY <2>2, <2>3
<1>5. Cardinality(before) < Cardinality(occupied) + 1
  <2>1. IsFiniteSet(occupied)
    BY OccupiedFinite
  <2>2. /\ Cardinality(before) \in Nat /\ Cardinality(occupied) \in Nat
        /\ Cardinality(before) <= Cardinality(occupied)
    BY <1>4, <2>1, FS_Subset, FS_CardinalityType
  <2> QED
    BY <2>2
<1>6. first \in listed
  BY <1>3, <1>5 DEF Candidates
<1>7. FirstOf(listed) # {}
  <2>1. PICK m \in listed : \A t \in listed : m <= t
    BY <1>2, <1>6, LeastNatural
  <2> QED
    BY <2>1 DEF FirstOf
<1> QED
  BY <1>7 DEF NextAvailable

\* QueueFullError is raised only when every upcoming slot of the channel is
\* taken: one candidate more than there are occupied instants is enough.
THEOREM FullQueuesAreFull == Spec => []FullMeansFull
<1>1. FullMeansFull
  BY FirstFreeIsListed DEF FullMeansFull
<1> QED
  BY <1>1, PTL

=============================================================================
