------------------------- MODULE SingleWorkerProofs -------------------------
(***************************************************************************)
(* What holds of a single publisher process, the deployment the repository *)
(* ships, whatever web requests write from stale reads.                    *)
(*                                                                         *)
(* retry_count bounds the calls made to the platform for a row, wherever   *)
(* the process dies.  With two processes it does not: one takes a row from *)
(* its retry snapshot while the other publishes it.  The argument counts   *)
(* the calls that are still owed.  A row that is scheduled, or that waits  *)
(* in the retry snapshot, owes one call; a thread that has claimed it owes *)
(* one more.  Paid for are one call per order, one per time a request put  *)
(* the row back on the schedule from what it had read before, and one per  *)
(* counted retry.  A stale save may take retries off the row's count, which *)
(* is why they are counted apart; it cannot take them off the copy a thread *)
(* works on, so the bound is kept for the row and for the copy.  As long as *)
(* answers arrive, each order and each put-back pays for one publication.  *)
(*                                                                         *)
(* And what a cycle leaves behind when nothing fails: a first comment for  *)
(* every row published at its first attempt, and posts whose published_at  *)
(* is their children's latest.                                             *)
(***************************************************************************)
EXTENDS PublishEngineProofs

Solo == \A d, e \in Engines : d = e

\* Where a process's rows may be in each phase of its cycle.
Place(e) ==
  /\ engine[e].phase # "groups" => engine[e].batch = {}
  /\ engine[e].phase # "retries" =>
       engine[e].retryQueue = {} /\ \A p \in PlatformPosts : task[e][p] # "cleared"
  /\ engine[e].phase = "idle" => Busy(e) = {}
  /\ engine[e].phase = "groups" => Busy(e) \subseteq engine[e].claimed
  /\ Busy(e) \cap engine[e].batch = {}
  /\ Busy(e) \cap engine[e].retryQueue = {}

Waits(e, p) == p \in engine[e].retryQueue \/ task[e][p] = "cleared"

\* The process has a copy of p in hand.
Holding(e, p) == Waits(e, p) \/ task[e][p] # "none"

One(b) == IF b THEN 1 ELSE 0
Owed(e, p) ==
  One(row[p].status = "scheduled" \/ Waits(e, p)) + One(task[e][p] = "claimed")

\* The calls that are paid for, whatever retry_count says.
Allowed(p) == orders[p] + reopened[p] + erased[p]

Budgeted(e) ==
  \A p \in PlatformPosts :
    /\ tries[p] + Owed(e, p) <= row[p].retryCount + Allowed(p)
    /\ Holding(e, p) => tries[p] + Owed(e, p) <= copy[e][p].retryCount + Allowed(p)

BudgetInv ==
  /\ TypeOK
  /\ \A e \in Engines : Place(e) /\ Budgeted(e)
  /\ RetryBudget

LEMMA BudgetInit == Init => BudgetInv
<1> SUFFICES ASSUME Init PROVE BudgetInv
  OBVIOUS
<1>1. \A p \in PlatformPosts :
        /\ row[p].retryCount = 0 /\ tries[p] = 0 /\ reopened[p] = 0 /\ erased[p] = 0
        /\ orders[p] = IF row[p].status = "scheduled" THEN 1 ELSE 0
  BY DEF Init, NewRow
<1>2. ASSUME NEW e \in Engines PROVE Place(e) /\ Budgeted(e)
  <2>1. Place(e)
    BY DEF Init, Place, IdleCycle, Busy
  <2>2. \A p \in PlatformPosts : task[e][p] = "none" /\ ~Waits(e, p)
    BY DEF Init, Waits, IdleCycle
  <2>3. Budgeted(e)
    BY <1>1, <2>2 DEF Budgeted, Allowed, Holding, Owed, One
  <2> QED BY <2>1, <2>3
<1>3. RetryBudget
  BY <1>1 DEF RetryBudget
<1> QED BY <1>2, <1>3, TypeInit DEF BudgetInv

-----------------------------------------------------------------------------
(* The facts about the current state that every step uses. *)

LEMMA Typing ==
  ASSUME BudgetInv, NEW e \in Engines
  PROVE  /\ now \in Clock
         /\ row \in [PlatformPosts -> Row]
         /\ engine \in [Engines -> Cycle]
         /\ task \in [Engines -> [PlatformPosts -> TaskState]]
         /\ copy \in [Engines -> [PlatformPosts -> Row]]
         /\ tries \in [PlatformPosts -> Nat]
         /\ \A p \in PlatformPosts :
              /\ row[p].retryCount \in Nat /\ copy[e][p].retryCount \in Nat
              /\ Allowed(p) \in Nat /\ Owed(e, p) \in Nat
BY DEF BudgetInv, TypeOK, Row, Allowed, Owed, One

\* A single process: what holds of it holds of every process.
LEMMA OneEngine ==
  ASSUME Solo, TypeOK', NEW e \in Engines, Place(e)', Budgeted(e)'
  PROVE  BudgetInv'
<1>1. RetryBudget'
  <2>1. ASSUME NEW p \in PlatformPosts
        PROVE  tries'[p] <= row'[p].retryCount + orders'[p] + reopened'[p] + erased'[p]
    <3>1. /\ tries'[p] \in Nat /\ row'[p].retryCount \in Nat
          /\ orders'[p] \in Nat /\ reopened'[p] \in Nat /\ erased'[p] \in Nat
          /\ Owed(e, p)' \in Nat
      BY DEF TypeOK, Row, Owed, One
    <3>2. tries'[p] + Owed(e, p)' <= row'[p].retryCount + (orders'[p] + reopened'[p] + erased'[p])
      BY DEF Budgeted, Allowed
    <3> QED BY <3>1, <3>2
  <2> QED BY <2>1 DEF RetryBudget
<1>2. \A d \in Engines : Place(d)' /\ Budgeted(d)'
  BY DEF Solo
<1> QED BY <1>1, <1>2 DEF BudgetInv

\* A step that makes no call and changes the counts of no row, after which no
\* row owes a call it did not owe before, and every copy in hand has its row's
\* count or the one it had.
LEMMA NothingSpent ==
  ASSUME BudgetInv, NEW e \in Engines, tries' = tries, UNCHANGED countVars,
         \A p \in PlatformPosts :
           /\ row'[p].retryCount = row[p].retryCount
           /\ Owed(e, p)' <= Owed(e, p)
           /\ Holding(e, p)' =>
                \/ copy'[e][p].retryCount = row[p].retryCount
                \/ Holding(e, p) /\ copy'[e][p].retryCount = copy[e][p].retryCount
  PROVE  Budgeted(e)'
<1>1. ASSUME NEW p \in PlatformPosts
      PROVE  /\ tries'[p] + Owed(e, p)' <= row'[p].retryCount + Allowed(p)'
             /\ Holding(e, p)' => tries'[p] + Owed(e, p)' <= copy'[e][p].retryCount + Allowed(p)'
  <2> DEFINE before == Owed(e, p)
             after == Owed(e, p)'
             paid == Allowed(p)
             held == Holding(e, p)
             holds == Holding(e, p)'
  <2>1. /\ tries'[p] = tries[p] /\ tries[p] \in Nat /\ Allowed(p)' = paid /\ paid \in Nat
        /\ after <= before /\ before \in Nat /\ after \in Nat
        /\ row[p].retryCount \in Nat /\ copy[e][p].retryCount \in Nat
    BY Typing DEF Allowed, countVars, Owed, One
  <2>2. /\ tries[p] + before <= row[p].retryCount + paid
        /\ held => tries[p] + before <= copy[e][p].retryCount + paid
    BY DEF BudgetInv, Budgeted
  <2>3. /\ row'[p].retryCount = row[p].retryCount
        /\ holds => \/ copy'[e][p].retryCount = row[p].retryCount
                    \/ held /\ copy'[e][p].retryCount = copy[e][p].retryCount
    OBVIOUS
  <2> HIDE DEF before, after, paid, held, holds
  <2>4. /\ tries'[p] + after <= row'[p].retryCount + Allowed(p)'
        /\ holds => tries'[p] + after <= copy'[e][p].retryCount + Allowed(p)'
    BY <2>1, <2>2, <2>3
  <2> QED BY <2>4 DEF after, holds
<1> QED BY <1>1 DEF Budgeted
-----------------------------------------------------------------------------
(* The steps of the cycle make no call and save no count. *)

LEMMA BudgetCycle ==
  ASSUME BudgetInv, NEW e \in Engines, CycleStep(e) \/ Crash(e)
  PROVE  Place(e)' /\ Budgeted(e)'
<1>0. /\ row \in [PlatformPosts -> Row]
      /\ engine \in [Engines -> Cycle]
      /\ engine[e] \in Cycle
      /\ task \in [Engines -> [PlatformPosts -> TaskState]]
      /\ copy \in [Engines -> [PlatformPosts -> Row]]
      /\ Place(e)
  BY Typing DEF BudgetInv
<1>1. CASE Poll(e)
  <2>1. PICK b \in DueBatches :
          engine' = [engine EXCEPT ![e] = [IdleCycle EXCEPT !.phase = "groups", !.batch = b]]
    BY <1>1 DEF Poll
  <2>2. /\ engine'[e].phase = "groups" /\ engine'[e].retryQueue = {}
        /\ task' = task /\ copy' = copy /\ row' = row /\ tries' = tries /\ UNCHANGED countVars
    BY <1>0, <1>1, <2>1 DEF Poll, IdleCycle, dbVars, historyVars, countVars
  <2>3. Busy(e) = {} /\ engine[e].retryQueue = {} /\ \A p \in PlatformPosts : task[e][p] # "cleared"
    BY <1>0, <1>1 DEF Poll, Place
  <2>4. Place(e)'
    BY <2>2, <2>3 DEF Place, Busy
  <2>5. \A p \in PlatformPosts : Owed(e, p)' <= Owed(e, p) /\ ~Holding(e, p)'
    BY <2>2, <2>3 DEF Owed, One, Waits, Holding, Busy
  <2> QED BY <2>2, <2>4, <2>5, NothingSpent
<1>2. ASSUME NEW x \in Posts, ClaimGroup(e, x)
      PROVE  Place(e)' /\ Budgeted(e)'
  <2> DEFINE mine == Claimable(e, x)
             waiting == engine[e].batch \ Children(x)
             claims == engine[e].claimed \cup mine
  <2>1. /\ engine[e].phase = "groups"
        /\ engine[e].retryQueue = {}
        /\ \A p \in PlatformPosts : task[e][p] # "cleared"
        /\ Busy(e) \subseteq engine[e].claimed
        /\ Busy(e) \cap engine[e].batch = {}
    BY <1>0, <1>2 DEF ClaimGroup, Place
  <2>2. /\ mine \subseteq PlatformPosts
        /\ mine \subseteq engine[e].batch
        /\ mine \cap waiting = {}
        /\ \A p \in mine : row[p].status = "scheduled" /\ task[e][p] = "none"
    BY <2>1 DEF Claimable, Children, Busy
  <2>3. tries' = tries /\ UNCHANGED countVars
    BY <1>2 DEF ClaimGroup
  <2>4. CASE /\ engine' = [engine EXCEPT ![e] = [engine[e] EXCEPT !.batch = waiting]]
             /\ row' = row /\ task' = task /\ copy' = copy
    <3>1. /\ engine'[e].phase = "groups" /\ engine'[e].batch = waiting
          /\ engine'[e].retryQueue = {} /\ engine'[e].claimed = engine[e].claimed
      BY <1>0, <2>1, <2>4 DEF Cycle
    <3>2. Place(e)'
      BY <2>1, <2>4, <3>1 DEF Place, Busy
    <3>3. \A p \in PlatformPosts : Owed(e, p)' <= Owed(e, p) /\ Holding(e, p)' = Holding(e, p)
      BY <2>1, <2>4, <3>1 DEF Owed, One, Waits, Holding
    <3> QED BY <2>3, <2>4, <3>2, <3>3, NothingSpent
  <2>5. CASE /\ engine' = [engine EXCEPT ![e] = [engine[e] EXCEPT !.batch = waiting,
                                                                 !.claimed = claims]]
             /\ row' = [p \in PlatformPosts |->
                  IF p \in mine THEN [row[p] EXCEPT !.status = "publishing"] ELSE row[p]]
             /\ copy' = [copy EXCEPT ![e] = [p \in PlatformPosts |->
                  IF p \in mine THEN row[p] ELSE copy[e][p]]]
             /\ task' = [task EXCEPT ![e] = [p \in PlatformPosts |->
                  IF p \in mine THEN "claimed" ELSE task[e][p]]]
    <3> HIDE DEF mine, waiting, claims
    <3>1. /\ engine'[e].phase = "groups" /\ engine'[e].batch = waiting
          /\ engine'[e].retryQueue = {} /\ engine'[e].claimed = claims
      BY <1>0, <2>1, <2>5 DEF Cycle
    <3>2. \A p \in PlatformPosts :
            /\ task'[e][p] = IF p \in mine THEN "claimed" ELSE task[e][p]
            /\ copy'[e][p] = IF p \in mine THEN row[p] ELSE copy[e][p]
            /\ row'[p].retryCount = row[p].retryCount
            /\ row'[p].status = IF p \in mine THEN "publishing" ELSE row[p].status
      BY <1>0, <2>5 DEF Row
    <3>3. Busy(e)' = Busy(e) \cup mine
      BY <2>2, <3>2 DEF Busy
    <3>4. Place(e)'
      <4>1. Busy(e)' \subseteq claims /\ Busy(e)' \cap waiting = {}
        BY <2>1, <2>2, <3>3 DEF claims, waiting
      <4> QED BY <2>1, <3>1, <3>2, <4>1 DEF Place
    <3>5. \A p \in PlatformPosts :
            Holding(e, p)' => \/ copy'[e][p] = row[p]
                              \/ Holding(e, p) /\ copy'[e][p] = copy[e][p]
      BY <2>1, <3>1, <3>2 DEF Holding, Waits
    <3>6. ASSUME NEW p \in PlatformPosts PROVE Owed(e, p)' <= Owed(e, p)
      <4>1. CASE p \in mine
        BY <2>1, <2>2, <3>1, <3>2, <4>1 DEF Owed, Waits, One
      <4>2. CASE p \notin mine
        <5>1. Owed(e, p)' = Owed(e, p)
          BY <2>1, <3>1, <3>2, <4>2 DEF Owed, Waits
        <5> QED BY <5>1 DEF Owed, One
      <4> QED BY <4>1, <4>2
    <3> QED BY <2>3, <3>2, <3>4, <3>5, <3>6, NothingSpent
  <2> QED BY <1>2, <2>4, <2>5 DEF ClaimGroup
<1>3. ASSUME NEW x \in Posts, FinishGroup(e, x)
      PROVE  Place(e)' /\ Budgeted(e)'
  <2> DEFINE mine == Children(x) \cap engine[e].claimed
  <2>1. /\ engine[e].phase = "groups"
        /\ mine \cap Busy(e) = {}
        /\ engine' = [engine EXCEPT ![e] = [engine[e] EXCEPT !.claimed = engine[e].claimed \ mine]]
        /\ row' = row /\ task' = task /\ copy' = copy /\ tries' = tries /\ UNCHANGED countVars
    BY <1>3 DEF FinishGroup
  <2> HIDE DEF mine
  <2>2. /\ engine'[e].phase = "groups" /\ engine'[e].batch = engine[e].batch
        /\ engine'[e].retryQueue = engine[e].retryQueue
        /\ engine'[e].claimed = engine[e].claimed \ mine
    BY <1>0, <2>1 DEF Cycle
  <2>3. Place(e)'
    BY <1>0, <2>1, <2>2 DEF Place, Busy
  <2>4. \A p \in PlatformPosts : Owed(e, p)' <= Owed(e, p) /\ Holding(e, p)' = Holding(e, p)
    BY <2>1, <2>2 DEF Owed, One, Waits, Holding
  <2> QED BY <2>1, <2>3, <2>4, NothingSpent
<1>4. CASE StartRetries(e)
  <2>1. /\ engine' = [engine EXCEPT ![e] =
                        [engine[e] EXCEPT !.phase = "retries", !.retryQueue = DueRetries]]
        /\ copy' = [copy EXCEPT ![e] = [p \in PlatformPosts |->
                        IF p \in DueRetries THEN row[p] ELSE NoRow]]
        /\ row' = row /\ task' = task /\ tries' = tries /\ UNCHANGED countVars
        /\ engine[e].phase = "groups" /\ engine[e].batch = {} /\ engine[e].claimed = {}
    BY <1>4 DEF StartRetries, dbVars, historyVars, countVars
  <2>2. Busy(e) = {} /\ \A p \in PlatformPosts : task[e][p] = "none"
    BY <1>0, <2>1 DEF Place, Busy
  <2>3. engine'[e].phase = "retries" /\ engine'[e].retryQueue = DueRetries /\ engine'[e].batch = {}
    BY <1>0, <2>1 DEF Cycle
  <2>4. Place(e)'
    BY <2>1, <2>2, <2>3 DEF Place, Busy
  <2>5. \A p \in PlatformPosts : Holding(e, p)' => copy'[e][p] = row[p]
    BY <1>0, <2>1, <2>2, <2>3 DEF Holding, Waits
  <2>6. \A p \in DueRetries : row[p].status = "scheduled"
    BY DEF DueRetries
  <2>7. ASSUME NEW p \in PlatformPosts PROVE Owed(e, p)' <= Owed(e, p)
    BY <2>1, <2>2, <2>3, <2>6 DEF Owed, Waits, One
  <2> QED BY <2>1, <2>4, <2>5, <2>7, NothingSpent
<1>5. CASE EndCycle(e) \/ Crash(e)
  <2>1. engine' = [engine EXCEPT ![e] = IdleCycle] /\ row' = row /\ tries' = tries /\ UNCHANGED countVars
    BY <1>5 DEF EndCycle, Crash, dbVars, historyVars, countVars
  <2>2. \A p \in PlatformPosts : task'[e][p] = "none"
    BY <1>0, <1>5 DEF EndCycle, Crash, Busy
  <2>3. /\ engine'[e].phase = "idle" /\ engine'[e].batch = {} /\ engine'[e].retryQueue = {}
    BY <1>0, <2>1 DEF IdleCycle
  <2>4. Place(e)'
    BY <2>2, <2>3 DEF Place, Busy
  <2>5. \A p \in PlatformPosts : ~Holding(e, p)'
    BY <2>2, <2>3 DEF Holding, Waits
  <2>6. ASSUME NEW p \in PlatformPosts PROVE Owed(e, p)' <= Owed(e, p)
    BY <2>1, <2>2, <2>3 DEF Owed, Waits, One
  <2> QED BY <2>1, <2>4, <2>5, <2>6, NothingSpent
<1> QED BY <1>1, <1>2, <1>3, <1>4, <1>5 DEF CycleStep

-----------------------------------------------------------------------------
(* The steps of a thread touch its own row alone. *)

LEMMA OtherRows ==
  ASSUME BudgetInv, NEW e \in Engines, NEW p \in PlatformPosts, UNCHANGED countVars,
         \A q \in PlatformPosts : q # p =>
           /\ row'[q] = row[q] /\ tries'[q] = tries[q]
           /\ task'[e][q] = task[e][q] /\ copy'[e][q] = copy[e][q]
           /\ Waits(e, q)' = Waits(e, q),
         tries'[p] + Owed(e, p)' <= row'[p].retryCount + Allowed(p),
         Holding(e, p)' => tries'[p] + Owed(e, p)' <= copy'[e][p].retryCount + Allowed(p)
  PROVE  Budgeted(e)'
<1>1. Budgeted(e) /\ \A q \in PlatformPosts : Allowed(q)' = Allowed(q)
  BY DEF BudgetInv, Allowed, countVars
<1>2. ASSUME NEW q \in PlatformPosts
      PROVE  /\ tries'[q] + Owed(e, q)' <= row'[q].retryCount + Allowed(q)'
             /\ Holding(e, q)' => tries'[q] + Owed(e, q)' <= copy'[e][q].retryCount + Allowed(q)'
  <2>1. CASE q = p
    BY <1>1, <2>1
  <2>2. CASE q # p
    <3>1. Owed(e, q)' = Owed(e, q) /\ Holding(e, q)' = Holding(e, q)
      BY <2>2 DEF Owed, Holding
    <3>2. /\ tries[q] + Owed(e, q) <= row[q].retryCount + Allowed(q)
          /\ Holding(e, q) => tries[q] + Owed(e, q) <= copy[e][q].retryCount + Allowed(q)
      BY <1>1 DEF Budgeted
    <3> QED BY <1>1, <2>2, <3>1, <3>2
  <2> QED BY <2>1, <2>2
<1> QED BY <1>2 DEF Budgeted

LEMMA BudgetThread ==
  ASSUME BudgetInv, NEW e \in Engines, NEW p \in PlatformPosts, ThreadStep(e, p)
  PROVE  Place(e)' /\ Budgeted(e)'
<1>0. /\ now \in Clock
      /\ row \in [PlatformPosts -> Row]
      /\ engine \in [Engines -> Cycle]
      /\ engine[e] \in Cycle
      /\ task \in [Engines -> [PlatformPosts -> TaskState]]
      /\ copy \in [Engines -> [PlatformPosts -> Row]]
      /\ copy[e][p] \in Row /\ row[p] \in Row
      /\ tries \in [PlatformPosts -> Nat]
      /\ tries[p] \in Nat /\ Allowed(p) \in Nat /\ row[p].retryCount \in Nat
      /\ copy[e][p].retryCount \in Nat
      /\ Place(e)
      /\ tries[p] + Owed(e, p) <= row[p].retryCount + Allowed(p)
      /\ Holding(e, p) => tries[p] + Owed(e, p) <= copy[e][p].retryCount + Allowed(p)
      /\ UNCHANGED countVars
  BY Typing DEF BudgetInv, Budgeted, Row, ThreadStep, Dispatch, SaveSuccess, LogSuccess,
     LogSuccessFails, ErrorLogFails, ScheduleRetry, FailPermanently, RetryCheck, RetryClaim,
     historyVars
\* A thread that is at work already stays where it is in the cycle.
<1>1. ASSUME engine' = engine, task[e][p] # "none",
             \A q \in PlatformPosts : q # p => task'[e][q] = task[e][q],
             task'[e][p] # "cleared"
      PROVE  Place(e)'
  <2>1. Busy(e)' \subseteq Busy(e)
    BY <1>1 DEF Busy
  <2> QED BY <1>0, <1>1, <2>1 DEF Place
\* A thread at work on p: p has left the retry snapshot.
<1>2. task[e][p] # "none" => p \notin engine[e].retryQueue
  BY <1>0 DEF Place, Busy
<1>3. CASE Dispatch(e, p)
  <2>1. PICK s \in {"accepted", "refused", "rejected"} : task' = [task EXCEPT ![e][p] = s]
    <3>1. PICK outcome \in Outcomes :
            task' = [task EXCEPT ![e][p] = IF outcome = "lost" THEN "refused" ELSE outcome]
      BY <1>3 DEF Dispatch
    <3> QED BY <3>1 DEF Outcomes
  <2>2. /\ engine' = engine /\ row' = row /\ copy' = copy
        /\ tries' = [tries EXCEPT ![p] = tries[p] + 1]
        /\ task[e][p] = "claimed"
    BY <1>3 DEF Dispatch, dbVars
  <2>3. /\ task'[e][p] = s
        /\ \A q \in PlatformPosts : q # p => task'[e][q] = task[e][q] /\ tries'[q] = tries[q]
        /\ tries'[p] = tries[p] + 1
    BY <1>0, <2>1, <2>2
  <2>4. Owed(e, p)' + 1 = Owed(e, p)
    BY <1>2, <2>2, <2>3 DEF Owed, Waits, One
  <2>5. /\ tries'[p] + Owed(e, p)' <= row'[p].retryCount + Allowed(p)
        /\ tries'[p] + Owed(e, p)' <= copy'[e][p].retryCount + Allowed(p)
    <3> DEFINE after == Owed(e, p)'
    <3>1. after \in Nat /\ Owed(e, p) = after + 1 /\ Holding(e, p)
      BY <2>2, <2>4 DEF Owed, One, Holding
    <3> HIDE DEF after
    <3>2. /\ tries'[p] + after <= row'[p].retryCount + Allowed(p)
          /\ tries'[p] + after <= copy'[e][p].retryCount + Allowed(p)
      BY <1>0, <2>2, <2>3, <3>1
    <3> QED BY <3>2 DEF after
  <2>7. \A q \in PlatformPosts : q # p => Waits(e, q)' = Waits(e, q)
    BY <2>2, <2>3 DEF Waits
  <2> QED BY <1>0, <1>1, <2>2, <2>3, <2>5, <2>7, OtherRows
\* The outcome is saved over the row from the copy, whatever the row's count is by now.
<1>4. ASSUME NEW r \in Row, row' = [row EXCEPT ![p] = r], engine' = engine, tries' = tries,
             task[e][p] \in {"accepted", "refused", "rejected", "saved"},
             task'[e][p] \in {"none", "saved"},
             \A q \in PlatformPosts : q # p => task'[e][q] = task[e][q] /\ copy'[e][q] = copy[e][q],
             task'[e][p] = "saved" => copy'[e][p] = r,
             \/ r.status # "scheduled" /\ r.retryCount = copy[e][p].retryCount
             \/ r.status = "scheduled" /\ r.retryCount = copy[e][p].retryCount + 1
      PROVE  Place(e)' /\ Budgeted(e)'
  <2>1. /\ row'[p] = r /\ \A q \in PlatformPosts : q # p => row'[q] = row[q]
        /\ tries[p] + Owed(e, p) <= copy[e][p].retryCount + Allowed(p)
        /\ r.retryCount \in Nat
    BY <1>0, <1>4 DEF Holding, Row
  <2>2. ~Waits(e, p)' /\ \A q \in PlatformPosts : q # p => Waits(e, q)' = Waits(e, q)
    BY <1>2, <1>4 DEF Waits
  <2>3. tries'[p] + Owed(e, p)' <= r.retryCount + Allowed(p)
    BY <1>0, <1>4, <2>1, <2>2 DEF Owed, One
  <2> QED BY <1>0, <1>1, <1>4, <2>1, <2>2, <2>3, OtherRows DEF Holding
<1>5. Conclude(e, p) => /\ task'[e][p] = "none"
                        /\ \A q \in PlatformPosts : q # p =>
                             task'[e][q] = task[e][q] /\ copy'[e][q] = copy[e][q]
  BY <1>0 DEF Conclude
<1>6. CASE SaveSuccess(e, p)
  <2> DEFINE done == [copy[e][p] EXCEPT !.status = "published", !.publishedAt = now]
  <2>1. done \in Row /\ done.status = "published" /\ done.retryCount = copy[e][p].retryCount
    BY <1>0 DEF Row, Status, OptClock
  <2>2. /\ row' = [row EXCEPT ![p] = done] /\ copy' = [copy EXCEPT ![e][p] = done]
        /\ task' = [task EXCEPT ![e][p] = "saved"] /\ task[e][p] = "accepted"
        /\ engine' = engine /\ tries' = tries
    BY <1>6 DEF SaveSuccess, historyVars
  <2> HIDE DEF done
  <2>3. /\ task'[e][p] = "saved" /\ copy'[e][p] = done
        /\ \A q \in PlatformPosts : q # p =>
             task'[e][q] = task[e][q] /\ copy'[e][q] = copy[e][q]
    BY <1>0, <2>2
  <2> QED BY <1>4, <2>1, <2>2, <2>3
<1>7. CASE LogSuccessFails(e, p) \/ ScheduleRetry(e, p)
  <2> DEFINE r == AfterFailure(copy[e][p])
  <2>1. r \in Row
    BY <1>0, AfterFailureType
  <2>2. \/ r.status # "scheduled" /\ r.retryCount = copy[e][p].retryCount
        \/ r.status = "scheduled" /\ r.retryCount = copy[e][p].retryCount + 1
    <3>1. CASE copy[e][p].retryCount >= MaxRetries
      BY <1>0, <3>1 DEF AfterFailure, Row
    <3>2. CASE ~(copy[e][p].retryCount >= MaxRetries)
      BY <1>0, <3>2 DEF AfterFailure, Row
    <3> QED BY <3>1, <3>2
  <2>3. /\ row' = [row EXCEPT ![p] = r] /\ Conclude(e, p) /\ engine' = engine /\ tries' = tries
        /\ task[e][p] \in {"refused", "saved"}
    BY <1>7 DEF LogSuccessFails, ScheduleRetry, historyVars
  <2> HIDE DEF r
  <2> QED BY <1>4, <1>5, <2>1, <2>2, <2>3
<1>8. CASE FailPermanently(e, p)
  <2> DEFINE r == [copy[e][p] EXCEPT !.status = "failed"]
  <2>1. r \in Row /\ r.status = "failed" /\ r.retryCount = copy[e][p].retryCount
    BY <1>0 DEF Row, Status
  <2>2. /\ row' = [row EXCEPT ![p] = r] /\ Conclude(e, p) /\ engine' = engine /\ tries' = tries
        /\ task[e][p] = "rejected"
    BY <1>8 DEF FailPermanently, historyVars
  <2> HIDE DEF r
  <2> QED BY <1>4, <1>5, <2>1, <2>2
<1>9. CASE LogSuccess(e, p)
  <2>1. /\ task[e][p] = "saved" /\ Conclude(e, p)
        /\ row' = row /\ engine' = engine /\ tries' = tries
    BY <1>9 DEF LogSuccess, historyVars
  <2>2. ~Waits(e, p)' /\ \A q \in PlatformPosts : q # p => Waits(e, q)' = Waits(e, q)
    BY <1>2, <1>5, <2>1 DEF Waits
  <2>3. Owed(e, p)' <= Owed(e, p)
    BY <1>5, <2>1, <2>2 DEF Owed, Waits, One
  <2>4. tries'[p] + Owed(e, p)' <= row'[p].retryCount + Allowed(p) /\ ~Holding(e, p)'
    BY <1>0, <1>5, <2>1, <2>2, <2>3 DEF Owed, One, Holding
  <2> QED BY <1>0, <1>1, <1>5, <2>1, <2>2, <2>4, OtherRows
<1>10. CASE RetryCheck(e, p)
  <2> DEFINE rest == engine[e].retryQueue \ {p}
  <2>1. /\ engine[e].phase = "retries" /\ p \in engine[e].retryQueue /\ Busy(e) = {}
        /\ engine' = [engine EXCEPT ![e] = [engine[e] EXCEPT !.retryQueue = rest]]
        /\ row' = row /\ tries' = tries
        /\ \/ task' = [task EXCEPT ![e][p] = "cleared"] /\ copy' = copy
           \/ task' = task /\ copy' = [copy EXCEPT ![e][p] = NoRow]
    BY <1>10 DEF RetryCheck, dbVars, historyVars
  <2>2. /\ engine'[e].phase = "retries" /\ engine'[e].batch = engine[e].batch
        /\ engine'[e].retryQueue = rest
    BY <1>0, <2>1 DEF Cycle
  <2> HIDE DEF rest
  <2>3. /\ \A q \in PlatformPosts : task[e][q] = "none"
        /\ task'[e][p] \in {"none", "cleared"}
        /\ task'[e][p] = "cleared" => copy'[e][p] = copy[e][p]
        /\ \A q \in PlatformPosts : q # p =>
             task'[e][q] = task[e][q] /\ copy'[e][q] = copy[e][q]
    BY <1>0, <2>1 DEF Busy
  <2>4. Place(e)'
    <3>1. Busy(e)' \subseteq {p} /\ p \notin rest /\ engine[e].batch = {}
      BY <1>0, <2>1, <2>3 DEF Busy, Place, rest
    <3> QED BY <2>2, <3>1 DEF Place
  <2>5. \A q \in PlatformPosts : q # p => Waits(e, q)' = Waits(e, q)
    BY <2>2, <2>3 DEF Waits, rest
  <2>6. Waits(e, p)' => task'[e][p] = "cleared"
    BY <2>2 DEF Waits, rest
  <2>7. Waits(e, p) /\ Holding(e, p) /\ (Holding(e, p)' => copy'[e][p] = copy[e][p])
    BY <2>1, <2>3, <2>6 DEF Waits, Holding
  <2>8. Owed(e, p)' <= Owed(e, p)
    BY <2>1, <2>3, <2>6, <2>7 DEF Owed, One
  <2>9. /\ tries'[p] + Owed(e, p)' <= row'[p].retryCount + Allowed(p)
        /\ Holding(e, p)' => tries'[p] + Owed(e, p)' <= copy'[e][p].retryCount + Allowed(p)
    BY <1>0, <2>1, <2>7, <2>8 DEF Owed, One
  <2> QED BY <1>0, <2>1, <2>3, <2>4, <2>5, <2>6, <2>7, <2>9, OtherRows
<1>11. CASE RetryClaim(e, p)
  <2> DEFINE claim == [copy[e][p] EXCEPT !.status = "publishing"]
  <2>1. /\ task[e][p] = "cleared" /\ engine' = engine /\ tries' = tries
        /\ task' = [task EXCEPT ![e][p] = "claimed"]
        /\ copy' = [copy EXCEPT ![e][p] = claim]
    BY <1>11 DEF RetryClaim
  <2>2. /\ row'[p].status = "publishing" /\ row'[p].retryCount = row[p].retryCount
        /\ \A q \in PlatformPosts : q # p => row'[q] = row[q]
    BY <1>0, <1>11 DEF RetryClaim, Row
  <2>3. claim.retryCount = copy[e][p].retryCount
    BY <1>0 DEF Row
  <2> HIDE DEF claim
  <2>4. /\ task'[e][p] = "claimed" /\ copy'[e][p] = claim
        /\ \A q \in PlatformPosts : q # p =>
             task'[e][q] = task[e][q] /\ copy'[e][q] = copy[e][q]
    BY <1>0, <2>1
  <2>5. Holding(e, p)
    BY <2>1 DEF Holding
  <2>6. ~Waits(e, p)' /\ \A q \in PlatformPosts : q # p => Waits(e, q)' = Waits(e, q)
    BY <1>2, <2>1, <2>4 DEF Waits
  <2>7. Owed(e, p)' <= Owed(e, p)
    BY <2>1, <2>2, <2>4, <2>6 DEF Owed, Waits, One
  <2>8. /\ tries'[p] + Owed(e, p)' <= row'[p].retryCount + Allowed(p)
        /\ tries'[p] + Owed(e, p)' <= copy'[e][p].retryCount + Allowed(p)
    BY <1>0, <2>1, <2>2, <2>3, <2>4, <2>5, <2>7 DEF Owed, One
  <2>9. Place(e)'
    BY <1>1, <2>1, <2>4
  <2> QED BY <1>0, <2>1, <2>2, <2>4, <2>6, <2>8, <2>9, OtherRows
\* The error log fails: the thread ends, the row stays as it is.
<1>12. CASE ErrorLogFails(e, p)
  <2>1. /\ task[e][p] \notin {"none", "cleared"} /\ Conclude(e, p)
        /\ row' = row /\ engine' = engine /\ tries' = tries
    BY <1>12 DEF ErrorLogFails, dbVars
  <2>2. ~Waits(e, p)' /\ \A q \in PlatformPosts : q # p => Waits(e, q)' = Waits(e, q)
    BY <1>2, <1>5, <2>1 DEF Waits
  <2>3. Owed(e, p)' <= Owed(e, p)
    BY <1>5, <2>1, <2>2 DEF Owed, Waits, One
  <2>4. tries'[p] + Owed(e, p)' <= row'[p].retryCount + Allowed(p) /\ ~Holding(e, p)'
    BY <1>0, <1>5, <2>1, <2>2, <2>3 DEF Owed, One, Holding
  <2> QED BY <1>0, <1>1, <1>5, <2>1, <2>2, <2>4, OtherRows
<1> QED BY <1>3, <1>6, <1>7, <1>8, <1>9, <1>10, <1>11, <1>12 DEF ThreadStep

-----------------------------------------------------------------------------

-----------------------------------------------------------------------------

\* A web request that lowers the count of a row is said to have erased as many
\* retries, and each one that puts a row on the schedule is counted.
CountsKept ==
  \A q \in PlatformPosts :
    /\ erased[q] + row[q].retryCount <= erased'[q] + row'[q].retryCount
    /\ erased[q] <= erased'[q]
    /\ \/ orders'[q] + reopened'[q] = orders[q] + reopened[q] + 1
       \/ /\ orders'[q] + reopened'[q] = orders[q] + reopened[q]
          /\ row'[q].status = "scheduled" => row[q].status = "scheduled"

\* Every request that writes a status or a count is counted.
LEMMA UserCounted ==
  ASSUME TypeOK, NEW u \in Users, NEW p \in PlatformPosts, UserStep(u, p)
  PROVE  \/ Counted(u, p)
         \/ /\ UNCHANGED countVars
            /\ row'[p].status = row[p].status /\ row'[p].retryCount = row[p].retryCount
<1>1. CASE OpenRequest(u, p) \/ ComposeRead(u, p)
  BY <1>1 DEF OpenRequest, ComposeRead, dbVars, historyVars
<1>2. CASE ComposeSpread(u, p)
  <2>1. row[p] \in Row /\ row \in [PlatformPosts -> Row]
    BY DEF TypeOK
  <2>2. row'[p] = Spread(row[p], request[u][p].scheduledAt) /\ UNCHANGED countVars
    BY <1>2, <2>1 DEF ComposeSpread, historyVars
  <2> QED BY <2>1, <2>2 DEF Spread, Row
<1>3. CASE \/ SaveDraft(u, p) \/ ComposeMove(u, p) \/ Cancel(u, p)
           \/ RequestHold(u, p) \/ ResumeHold(u, p)
           \/ \E target \in Status : ChipTransition(u, p, target)
           \/ \E t \in Clock : \/ Schedule(u, p, t) \/ Reschedule(u, p, t)
                               \/ ComposeAtOnce(u, p, t) \/ ComposeSync(u, p, t)
  BY <1>3 DEF SaveDraft, WriteBack, ComposeMove, Cancel, RequestHold, ResumeHold, ChangeHold,
     ChipTransition, Schedule, Reschedule, ComposeAtOnce, ComposeSync, Served
<1> QED BY <1>1, <1>2, <1>3 DEF UserStep

LEMMA UserCounts ==
  ASSUME TypeOK, NEW u \in Users, NEW p \in PlatformPosts, UserStep(u, p)
  PROVE  CountsKept
<1>0. /\ row \in [PlatformPosts -> Row] /\ row' \in [PlatformPosts -> Row]
      /\ orders \in [PlatformPosts -> Nat] /\ reopened \in [PlatformPosts -> Nat]
      /\ erased \in [PlatformPosts -> Nat]
      /\ \A q \in PlatformPosts : q # p => row'[q] = row[q]
      /\ \A q \in PlatformPosts :
           row[q].retryCount \in Nat /\ row'[q].retryCount \in Nat /\ erased[q] \in Nat
  <2>1. row' \in [PlatformPosts -> Row] /\ \A q \in PlatformPosts : q # p => row'[q] = row[q]
    BY UserRow
  <2> QED BY <2>1 DEF TypeOK, Row
<1>1. CASE UNCHANGED countVars /\ row'[p].status = row[p].status
                               /\ row'[p].retryCount = row[p].retryCount
  BY <1>0, <1>1 DEF CountsKept, countVars
<1>2. CASE Counted(u, p)
  <2> DEFINE back == row[p].status # "scheduled" /\ row'[p].status = "scheduled"
             lost == row[p].retryCount - row'[p].retryCount
             again == back /\ Seen(u, p).status # "scheduled"
             stale == back /\ Seen(u, p).status = "scheduled"
  <2>1. /\ orders' = [orders EXCEPT ![p] = IF again THEN orders[p] + 1 ELSE orders[p]]
        /\ reopened' = [reopened EXCEPT ![p] = IF stale THEN reopened[p] + 1 ELSE reopened[p]]
        /\ erased' = [erased EXCEPT ![p] = IF lost > 0 THEN erased[p] + lost ELSE erased[p]]
    BY <1>2 DEF Counted
  <2>2. back <=> again \/ stale
    OBVIOUS
  <2>3. ~(again /\ stale) /\ (row'[p].status = "scheduled" => row[p].status = "scheduled" \/ back)
    OBVIOUS
  <2>4. lost \in Int /\ lost = row[p].retryCount - row'[p].retryCount
    BY <1>0
  <2> HIDE DEF back, lost, again, stale
  <2>5. /\ orders'[p] = IF again THEN orders[p] + 1 ELSE orders[p]
        /\ reopened'[p] = IF stale THEN reopened[p] + 1 ELSE reopened[p]
        /\ erased'[p] = IF lost > 0 THEN erased[p] + lost ELSE erased[p]
        /\ \A q \in PlatformPosts : q # p => /\ orders'[q] = orders[q]
                                             /\ reopened'[q] = reopened[q]
                                             /\ erased'[q] = erased[q]
    BY <1>0, <2>1
  <2>6. /\ erased[p] + row[p].retryCount <= erased'[p] + row'[p].retryCount
        /\ erased[p] <= erased'[p]
    BY <1>0, <2>4, <2>5
  <2>7. \/ orders'[p] + reopened'[p] = orders[p] + reopened[p] + 1
        \/ /\ orders'[p] + reopened'[p] = orders[p] + reopened[p]
           /\ row'[p].status = "scheduled" => row[p].status = "scheduled"
    BY <1>0, <2>2, <2>3, <2>5
  <2> QED BY <1>0, <2>5, <2>6, <2>7 DEF CountsKept
<1> QED BY <1>1, <1>2, UserCounted

LEMMA BudgetUser ==
  ASSUME BudgetInv, NEW u \in Users, NEW p \in PlatformPosts, UserStep(u, p)
  PROVE  BudgetInv'
<1>1. /\ engine' = engine /\ task' = task /\ copy' = copy /\ tries' = tries
      /\ CountsKept
  BY UserRow, UserCounts DEF BudgetInv, engineVars
<1>2. TypeOK' /\ TypeOK
  BY TypeUser DEF BudgetInv
\* What is paid for grows by what a write of the row takes off its count and
\* by what it adds to what is owed.
<1>3. ASSUME NEW q \in PlatformPosts
      PROVE  /\ row[q].retryCount \in Nat /\ row'[q].retryCount \in Nat
             /\ Allowed(q) \in Nat /\ Allowed(q)' \in Nat /\ tries[q] \in Nat
             /\ Allowed(q) <= Allowed(q)'
             /\ row[q].retryCount + Allowed(q) <= row'[q].retryCount + Allowed(q)'
             /\ \/ /\ Allowed(q) + 1 <= Allowed(q)'
                   /\ row[q].retryCount + Allowed(q) + 1 <= row'[q].retryCount + Allowed(q)'
                \/ row'[q].status = "scheduled" => row[q].status = "scheduled"
  <2>1. /\ row[q].retryCount \in Nat /\ row'[q].retryCount \in Nat /\ tries[q] \in Nat
        /\ orders[q] \in Nat /\ reopened[q] \in Nat /\ erased[q] \in Nat
        /\ orders'[q] \in Nat /\ reopened'[q] \in Nat /\ erased'[q] \in Nat
    BY <1>2 DEF TypeOK, Row
  <2> QED BY <1>1, <2>1 DEF CountsKept, Allowed
<1>4. ASSUME NEW e \in Engines PROVE Place(e)' /\ Budgeted(e)'
  <2>1. Place(e)'
    BY <1>1 DEF BudgetInv, Place, Busy
  <2>2. ASSUME NEW q \in PlatformPosts
        PROVE  /\ tries'[q] + Owed(e, q)' <= row'[q].retryCount + Allowed(q)'
               /\ Holding(e, q)' => tries'[q] + Owed(e, q)' <= copy'[e][q].retryCount + Allowed(q)'
    <3> DEFINE before == Owed(e, q)
               after == Owed(e, q)'
               paid == Allowed(q)
               pays == Allowed(q)'
               held == Holding(e, q)
    <3>1. Waits(e, q)' = Waits(e, q) /\ Holding(e, q)' = held
      BY <1>1 DEF Waits, Holding
    <3>2. /\ before \in Nat /\ after \in Nat /\ after <= before + 1
          /\ (row'[q].status = "scheduled" => row[q].status = "scheduled") => after <= before
      BY <1>1, <3>1 DEF Owed, One
    <3>3. /\ tries[q] + before <= row[q].retryCount + paid
          /\ held => tries[q] + before <= copy[e][q].retryCount + paid
      BY DEF BudgetInv, Budgeted
    <3>4. /\ row[q].retryCount \in Nat /\ row'[q].retryCount \in Nat
          /\ paid \in Nat /\ pays \in Nat /\ tries[q] \in Nat /\ paid <= pays
          /\ row[q].retryCount + paid <= row'[q].retryCount + pays
          /\ \/ /\ paid + 1 <= pays
                /\ row[q].retryCount + paid + 1 <= row'[q].retryCount + pays
             \/ row'[q].status = "scheduled" => row[q].status = "scheduled"
      BY <1>3
    <3>5. copy[e][q].retryCount \in Nat /\ copy'[e][q].retryCount = copy[e][q].retryCount
      BY <1>1, Typing
    <3> HIDE DEF before, after, paid, pays, held
    <3>6. /\ tries[q] + after <= row'[q].retryCount + pays
          /\ held => tries[q] + after <= copy[e][q].retryCount + pays
      BY <3>2, <3>3, <3>4, <3>5
    <3> QED BY <1>1, <3>1, <3>5, <3>6 DEF after, pays
  <2> QED BY <2>1, <2>2 DEF Budgeted
<1>5. RetryBudget'
  <2>1. ASSUME NEW q \in PlatformPosts
        PROVE  tries'[q] <= row'[q].retryCount + orders'[q] + reopened'[q] + erased'[q]
    <3>1. /\ tries[q] <= row[q].retryCount + orders[q] + reopened[q] + erased[q]
          /\ row[q].retryCount \in Nat /\ row'[q].retryCount \in Nat /\ tries[q] \in Nat
          /\ orders[q] \in Nat /\ reopened[q] \in Nat /\ erased[q] \in Nat
          /\ orders'[q] \in Nat /\ reopened'[q] \in Nat /\ erased'[q] \in Nat
      BY <1>2 DEF TypeOK, Row, BudgetInv, RetryBudget
    <3> QED BY <1>1, <3>1 DEF CountsKept
  <2> QED BY <2>1 DEF RetryBudget
<1> QED BY <1>2, <1>4, <1>5 DEF BudgetInv

LEMMA BudgetNext ==
  ASSUME Solo
  PROVE  BudgetInv /\ [Next]_vars => BudgetInv'
<1> SUFFICES ASSUME BudgetInv, [Next]_vars PROVE BudgetInv'
  OBVIOUS
<1>1. TypeOK'
  BY TypeNext DEF BudgetInv
<1>2. CASE Tick \/ UNCHANGED vars
  <2>1. /\ row' = row /\ engine' = engine /\ task' = task /\ copy' = copy
        /\ tries' = tries /\ UNCHANGED countVars
    BY <1>2 DEF Tick, vars, dbVars, engineVars, historyVars
  <2>2. \A e \in Engines : Place(e)' /\ Budgeted(e)'
    BY <2>1 DEF BudgetInv, Place, Busy, Holding, Waits, Budgeted, Owed, Allowed, countVars
  <2>3. RetryBudget'
    BY <2>1 DEF BudgetInv, RetryBudget, countVars
  <2> QED BY <1>1, <2>2, <2>3 DEF BudgetInv
<1>3. ASSUME NEW e \in Engines, CycleStep(e) \/ Crash(e) PROVE BudgetInv'
  <2>1. Place(e)' /\ Budgeted(e)'
    BY <1>3, BudgetCycle
  <2> QED BY <1>1, <2>1, OneEngine
<1>4. ASSUME NEW e \in Engines, NEW p \in PlatformPosts, ThreadStep(e, p) PROVE BudgetInv'
  <2>1. Place(e)' /\ Budgeted(e)'
    BY <1>4, BudgetThread
  <2> QED BY <1>1, <2>1, OneEngine
<1> QED BY <1>2, <1>3, <1>4, BudgetUser DEF Next

\* A single publisher calls the platform for a row at most once for each time
\* a user scheduled it, once for each time a request put it back on the schedule
\* from what it had read before, and once for each retry that was counted, the
\* ones included that a stale save has taken off the row's count: for every
\* retry limit and backoff, with crashes, lost replies and failing log inserts.
THEOREM RetriesAreCounted ==
  ASSUME Solo
  PROVE  Spec => []RetryBudget
<1>1. BudgetInv => RetryBudget
  BY DEF BudgetInv
<1> QED BY <1>1, BudgetInit, BudgetNext, PTL DEF Spec

-----------------------------------------------------------------------------
(* The same count for the appearances of a row on its platform, as long as  *)
(* replies arrive and log rows are written.  A row that is scheduled, or    *)
(* that waits in the retry snapshot, may appear once more; so may one whose *)
(* thread has claimed it or was refused, which may schedule it again.  An   *)
(* order, and a put-back from a stale read, pays for one appearance; a      *)
(* retry, counted or erased, pays for none.                                 *)

AnswersArrive == Faults \subseteq {"crash"}

ToCome(e, p) ==
  One(row[p].status = "scheduled" \/ Waits(e, p)) + One(task[e][p] \in {"claimed", "refused"})

Load(e, p) == live[p] + ToCome(e, p)

Granted(p) == orders[p] + reopened[p]

Paid(e) == \A p \in PlatformPosts : Load(e, p) <= Granted(p)

OrderInv == BudgetInv /\ OncePerOrder /\ \A e \in Engines : Paid(e)

LEMMA OrderInit == Init => OrderInv
<1> SUFFICES ASSUME Init PROVE OrderInv
  OBVIOUS
<1>1. \A p \in PlatformPosts :
        /\ live[p] = 0 /\ reopened[p] = 0
        /\ orders[p] = IF row[p].status = "scheduled" THEN 1 ELSE 0
  BY DEF Init
<1>2. ASSUME NEW e \in Engines, NEW p \in PlatformPosts PROVE Load(e, p) <= Granted(p)
  <2>1. ~Waits(e, p) /\ task[e][p] = "none"
    BY DEF Init, Waits, IdleCycle
  <2> QED BY <1>1, <2>1 DEF Load, ToCome, One, Granted
<1>3. OncePerOrder
  BY <1>1 DEF OncePerOrder
<1> QED BY <1>2, <1>3, BudgetInit DEF OrderInv, Paid

\* The row's load grows by no more than what it is granted.
Affords(e, p) ==
  \/ Granted(p)' = Granted(p) /\ Load(e, p)' <= Load(e, p)
  \/ Granted(p)' = Granted(p) + 1 /\ Load(e, p)' <= Load(e, p) + 1

LEMMA StillPaid ==
  ASSUME Solo, OrderInv, BudgetInv', NEW e \in Engines,
         \A p \in PlatformPosts : Affords(e, p)
  PROVE  OrderInv'
<1>0. TypeOK /\ TypeOK' /\ Paid(e)
  BY DEF OrderInv, BudgetInv
<1>1. ASSUME NEW p \in PlatformPosts PROVE Load(e, p)' <= Granted(p)' /\ live'[p] <= Granted(p)'
  <2> DEFINE before == Load(e, p)
             after == Load(e, p)'
             had == Granted(p)
             has == Granted(p)'
  <2>1. /\ before \in Nat /\ after \in Nat /\ had \in Nat /\ has \in Nat
        /\ live'[p] \in Nat /\ live'[p] <= after
    BY <1>0 DEF TypeOK, Load, ToCome, One, Granted
  <2>2. before <= had
    BY <1>0 DEF Paid
  <2>3. \/ has = had /\ after <= before
        \/ has = had + 1 /\ after <= before + 1
    BY DEF Affords
  <2> HIDE DEF before, after, had, has
  <2>4. after <= has /\ live'[p] <= has
    BY <2>1, <2>2, <2>3
  <2> QED BY <2>4 DEF after, has
<1>2. Paid(e)' /\ OncePerOrder'
  BY <1>1 DEF Paid, OncePerOrder, Granted
<1>3. \A d \in Engines : Paid(d)'
  BY <1>2 DEF Solo
<1> QED BY <1>2, <1>3 DEF OrderInv

\* A row that appears no more often, with no more to come.
LEMMA LoadKept ==
  ASSUME TypeOK, NEW e \in Engines, NEW p \in PlatformPosts, live'[p] = live[p],
         row'[p].status = "scheduled" \/ Waits(e, p)'
           => row[p].status = "scheduled" \/ Waits(e, p),
         task'[e][p] \in {"claimed", "refused"} => task[e][p] \in {"claimed", "refused"}
  PROVE  Load(e, p)' <= Load(e, p)
BY DEF TypeOK, Load, ToCome, One

-----------------------------------------------------------------------------

LEMMA OrderCycle ==
  ASSUME OrderInv, NEW e \in Engines, CycleStep(e) \/ Crash(e), NEW p \in PlatformPosts
  PROVE  Granted(p)' = Granted(p) /\ Load(e, p)' <= Load(e, p)
<1>0. /\ TypeOK
      /\ row \in [PlatformPosts -> Row]
      /\ engine \in [Engines -> Cycle] /\ engine[e] \in Cycle
      /\ task \in [Engines -> [PlatformPosts -> TaskState]]
      /\ live[p] \in Nat
      /\ Place(e)
      /\ live' = live /\ Granted(p)' = Granted(p)
  BY DEF OrderInv, BudgetInv, TypeOK, CycleStep, Crash, Poll, ClaimGroup, FinishGroup,
         StartRetries, EndCycle, historyVars, countVars, Granted
<1>1. CASE Poll(e)
  <2>1. ~Waits(e, p)' /\ row' = row /\ task' = task
    BY <1>0, <1>1 DEF Poll, Place, Waits, IdleCycle, dbVars
  <2> QED BY <1>0, <2>1, LoadKept
<1>2. ASSUME NEW x \in Posts, ClaimGroup(e, x) PROVE Load(e, p)' <= Load(e, p)
  <2> DEFINE mine == Claimable(e, x)
             waiting == engine[e].batch \ Children(x)
             claims == engine[e].claimed \cup mine
  <2>1. ~Waits(e, p) /\ engine[e].retryQueue = {}
    BY <1>0, <1>2 DEF ClaimGroup, Place, Waits
  <2>2. engine'[e].retryQueue = {}
    <3>1. \/ engine' = [engine EXCEPT ![e] = [engine[e] EXCEPT !.batch = waiting]]
          \/ engine' = [engine EXCEPT ![e] = [engine[e] EXCEPT !.batch = waiting,
                                                              !.claimed = claims]]
      BY <1>2 DEF ClaimGroup
    <3> HIDE DEF waiting, claims
    <3>2. CASE engine' = [engine EXCEPT ![e] = [engine[e] EXCEPT !.batch = waiting]]
      BY <1>0, <2>1, <3>2 DEF Cycle
    <3>3. CASE engine' = [engine EXCEPT ![e] = [engine[e] EXCEPT !.batch = waiting,
                                                              !.claimed = claims]]
      BY <1>0, <2>1, <3>3 DEF Cycle
    <3> QED BY <3>1, <3>2, <3>3
  <2>3. CASE row' = row /\ task' = task
    BY <1>0, <2>1, <2>2, <2>3, LoadKept DEF Waits
  <2>4. CASE /\ row' = [q \in PlatformPosts |->
                  IF q \in mine THEN [row[q] EXCEPT !.status = "publishing"] ELSE row[q]]
             /\ task' = [task EXCEPT ![e] = [q \in PlatformPosts |->
                  IF q \in mine THEN "claimed" ELSE task[e][q]]]
    <3>1. /\ p \in mine => row[p].status = "scheduled" /\ task[e][p] = "none"
          /\ task'[e][p] = IF p \in mine THEN "claimed" ELSE task[e][p]
          /\ row'[p].status = IF p \in mine THEN "publishing" ELSE row[p].status
      <4>1. p \in mine => row[p].status = "scheduled" /\ task[e][p] = "none"
        BY <1>0 DEF Claimable, Children, Place, Busy
      <4> HIDE DEF mine
      <4> QED BY <1>0, <2>4, <4>1 DEF Row
    <3> HIDE DEF mine
    <3>2. ~Waits(e, p)'
      BY <2>1, <2>2, <3>1 DEF Waits
    <3>3. CASE p \in mine
      BY <1>0, <2>1, <3>1, <3>2, <3>3 DEF Load, ToCome, One
    <3>4. CASE p \notin mine
      BY <1>0, <2>1, <3>1, <3>2, <3>4, LoadKept
    <3> QED BY <3>3, <3>4
  <2> QED BY <1>2, <2>3, <2>4 DEF ClaimGroup
<1>3. ASSUME NEW x \in Posts, FinishGroup(e, x) PROVE Load(e, p)' <= Load(e, p)
  <2>1. /\ engine'[e].retryQueue = engine[e].retryQueue
        /\ row' = row /\ task' = task
    BY <1>0, <1>3 DEF FinishGroup, Cycle
  <2> QED BY <1>0, <2>1, LoadKept DEF Waits
<1>4. CASE StartRetries(e)
  <2>1. engine'[e].retryQueue = DueRetries /\ row' = row /\ task' = task
    BY <1>0, <1>4 DEF StartRetries, Cycle, dbVars
  <2>2. p \in DueRetries => row[p].status = "scheduled"
    BY DEF DueRetries
  <2> QED BY <1>0, <2>1, <2>2, LoadKept DEF Waits
<1>5. CASE EndCycle(e) \/ Crash(e)
  <2>1. engine'[e].retryQueue = {} /\ row' = row
    BY <1>0, <1>5 DEF EndCycle, Crash, IdleCycle, dbVars
  <2>2. task'[e][p] = "none"
    BY <1>0, <1>5 DEF EndCycle, Crash, Busy
  <2> QED BY <1>0, <2>1, <2>2, LoadKept DEF Waits
<1> QED BY <1>0, <1>1, <1>2, <1>3, <1>4, <1>5 DEF CycleStep

LEMMA OrderThread ==
  ASSUME AnswersArrive, OrderInv, NEW e \in Engines, NEW p \in PlatformPosts, ThreadStep(e, p),
         NEW q \in PlatformPosts
  PROVE  Granted(q)' = Granted(q) /\ Load(e, q)' <= Load(e, q)
<1>0. /\ TypeOK
      /\ now \in Clock
      /\ row \in [PlatformPosts -> Row] /\ row[p] \in Row
      /\ engine \in [Engines -> Cycle] /\ engine[e] \in Cycle
      /\ task \in [Engines -> [PlatformPosts -> TaskState]]
      /\ copy[e][p] \in Row
      /\ live \in [PlatformPosts -> Nat]
      /\ Place(e)
      /\ Granted(q)' = Granted(q)
  BY DEF OrderInv, BudgetInv, TypeOK, ThreadStep, Dispatch, SaveSuccess, LogSuccess,
         LogSuccessFails, ErrorLogFails, ScheduleRetry, FailPermanently, RetryCheck,
         RetryClaim, historyVars, countVars, Granted
\* A thread at work: its row has left the retry snapshot.
<1>1. task[e][p] # "none" => p \notin engine[e].retryQueue
  BY <1>0 DEF Place, Busy
<1>2. Conclude(e, p) => task' = [task EXCEPT ![e][p] = "none"]
  BY DEF Conclude
<1>3. CASE Dispatch(e, p)
  <2>1. PICK outcome \in {"accepted", "refused", "rejected"} :
          /\ task' = [task EXCEPT ![e][p] = outcome]
          /\ live' = [live EXCEPT ![p] = IF outcome = "accepted" THEN live[p] + 1 ELSE live[p]]
    <3>1. "lostReply" \notin Faults
      BY DEF AnswersArrive
    <3> QED BY <1>3, <3>1 DEF Dispatch, Outcomes
  <2>2. task[e][p] = "claimed" /\ row' = row /\ engine' = engine
    BY <1>3 DEF Dispatch, dbVars
  <2>3. /\ task'[e][p] = outcome
        /\ live'[p] = IF outcome = "accepted" THEN live[p] + 1 ELSE live[p]
        /\ q # p => task'[e][q] = task[e][q] /\ live'[q] = live[q]
    BY <1>0, <2>1
  <2>4. CASE q = p
    <3>1. ~Waits(e, p) /\ ~Waits(e, p)' /\ live[p] \in Nat
      BY <1>0, <1>1, <2>2, <2>3 DEF Waits
    <3> QED BY <1>0, <2>2, <2>3, <2>4, <3>1 DEF Load, ToCome, One
  <2>5. CASE q # p
    BY <1>0, <2>2, <2>3, <2>5, LoadKept DEF Waits
  <2> QED BY <2>4, <2>5
\* A step that ends or goes on without an appearance.
<1>4. ASSUME live' = live, engine' = engine, task[e][p] \notin {"none", "cleared"},
             NEW s \in {"none", "saved"}, task' = [task EXCEPT ![e][p] = s],
             \A r \in PlatformPosts : r # p => row'[r] = row[r],
             \/ row'[p].status \in {"published", "failed"}
             \/ row' = row
             \/ task[e][p] = "refused"
      PROVE  Granted(q)' = Granted(q) /\ Load(e, q)' <= Load(e, q)
  <2>1. task'[e][p] = s /\ (q # p => task'[e][q] = task[e][q])
    BY <1>0, <1>4
  <2>2. CASE q = p
    <3>1. ~Waits(e, p) /\ ~Waits(e, p)' /\ live[p] \in Nat
      BY <1>0, <1>1, <1>4, <2>1 DEF Waits
    <3> QED BY <1>0, <1>4, <2>1, <2>2, <3>1 DEF Load, ToCome, One
  <2>3. CASE q # p
    BY <1>0, <1>4, <2>1, <2>3, LoadKept DEF Waits
  <2> QED BY <2>2, <2>3
<1>5. CASE SaveSuccess(e, p)
  <2> DEFINE done == [copy[e][p] EXCEPT !.status = "published", !.publishedAt = now]
  <2>1. done.status = "published"
    BY <1>0 DEF Row
  <2>2. /\ live' = live /\ engine' = engine /\ task[e][p] = "accepted"
        /\ task' = [task EXCEPT ![e][p] = "saved"] /\ row' = [row EXCEPT ![p] = done]
    BY <1>5 DEF SaveSuccess, historyVars
  <2> HIDE DEF done
  <2> QED BY <1>0, <1>4, <2>1, <2>2
<1>6. CASE LogSuccess(e, p)
  BY <1>2, <1>4, <1>6 DEF LogSuccess, historyVars
<1>7. CASE ScheduleRetry(e, p)
  <2>1. /\ live' = live /\ engine' = engine /\ task[e][p] = "refused"
        /\ task' = [task EXCEPT ![e][p] = "none"]
        /\ \A r \in PlatformPosts : r # p => row'[r] = row[r]
    BY <1>0, <1>2, <1>7 DEF ScheduleRetry, historyVars
  <2> QED BY <1>4, <2>1
<1>8. CASE FailPermanently(e, p)
  <2>1. /\ live' = live /\ engine' = engine /\ task[e][p] = "rejected"
        /\ task' = [task EXCEPT ![e][p] = "none"]
        /\ \A r \in PlatformPosts : r # p => row'[r] = row[r]
        /\ row'[p].status = "failed"
    BY <1>0, <1>2, <1>8 DEF FailPermanently, historyVars, Row
  <2> QED BY <1>4, <2>1
<1>9. CASE RetryCheck(e, p)
  <2> DEFINE rest == engine[e].retryQueue \ {p}
  <2>1. /\ live' = live /\ row' = row /\ p \in engine[e].retryQueue
        /\ engine' = [engine EXCEPT ![e] = [engine[e] EXCEPT !.retryQueue = rest]]
        /\ task' = task \/ task' = [task EXCEPT ![e][p] = "cleared"]
    BY <1>9 DEF RetryCheck, dbVars, historyVars
  <2>2. engine'[e].retryQueue = rest
    BY <1>0, <2>1 DEF Cycle
  <2>3. /\ q # p => task'[e][q] = task[e][q]
        /\ task'[e][p] \in {task[e][p], "cleared"}
    BY <1>0, <2>1
  <2>4. Waits(e, q)' => Waits(e, q)
    BY <2>1, <2>2, <2>3 DEF Waits
  <2>5. task'[e][q] \in {"claimed", "refused"} => task[e][q] \in {"claimed", "refused"}
    BY <2>3
  <2> QED BY <1>0, <2>1, <2>4, <2>5, LoadKept
<1>10. CASE RetryClaim(e, p)
  <2>1. /\ live' = live /\ engine' = engine /\ task[e][p] = "cleared"
        /\ row'[p].status = "publishing"
        /\ \A r \in PlatformPosts : r # p => row'[r] = row[r]
        /\ task'[e][p] = "claimed" /\ (q # p => task'[e][q] = task[e][q])
    BY <1>0, <1>10 DEF RetryClaim, Row
  <2>2. CASE q = p
    <3>1. Waits(e, p) /\ ~Waits(e, p)' /\ live[p] \in Nat
      BY <1>0, <1>1, <2>1 DEF Waits
    <3> QED BY <1>0, <2>1, <2>2, <3>1 DEF Load, ToCome, One
  <2>3. CASE q # p
    BY <1>0, <2>1, <2>3, LoadKept DEF Waits
  <2> QED BY <2>2, <2>3
<1>11. ~LogSuccessFails(e, p) /\ ~ErrorLogFails(e, p)
  BY DEF LogSuccessFails, ErrorLogFails, AnswersArrive
<1> QED BY <1>3, <1>5, <1>6, <1>7, <1>8, <1>9, <1>10, <1>11 DEF ThreadStep

LEMMA OrderUser ==
  ASSUME OrderInv, NEW u \in Users, NEW p \in PlatformPosts, UserStep(u, p),
         NEW e \in Engines, NEW q \in PlatformPosts
  PROVE  Affords(e, q)
<1>1. /\ TypeOK /\ live' = live /\ live[q] \in Nat
      /\ engine' = engine /\ task' = task /\ CountsKept
  BY UserCounts, UserRow DEF OrderInv, BudgetInv, TypeOK, engineVars
<1>2. Waits(e, q)' = Waits(e, q)
  BY <1>1 DEF Waits
<1>3. CASE Granted(q)' = Granted(q) + 1
  <2>1. Load(e, q)' <= Load(e, q) + 1
    BY <1>1, <1>2 DEF Load, ToCome, One
  <2> QED BY <1>3, <2>1 DEF Affords
<1>4. CASE Granted(q)' = Granted(q) /\ (row'[q].status = "scheduled" => row[q].status = "scheduled")
  BY <1>1, <1>2, <1>4, LoadKept DEF Affords
<1> QED BY <1>1, <1>3, <1>4 DEF CountsKept, Granted

LEMMA OrderNext ==
  ASSUME Solo, AnswersArrive, OrderInv, [Next]_vars
  PROVE  OrderInv'
<1>1. BudgetInv'
  BY BudgetNext DEF OrderInv
<1>2. CASE Tick \/ UNCHANGED vars
  <2>1. /\ row' = row /\ engine' = engine /\ task' = task /\ live' = live
        /\ orders' = orders /\ reopened' = reopened
    BY <1>2 DEF Tick, vars, dbVars, engineVars, historyVars, countVars
  <2>2. /\ OncePerOrder'
        /\ \A e \in Engines : Paid(e)'
    BY <2>1 DEF OrderInv, OncePerOrder, Paid, Load, ToCome, Waits, Granted
  <2> QED BY <1>1, <2>2 DEF OrderInv
<1>3. ASSUME NEW e \in Engines, CycleStep(e) \/ Crash(e) PROVE OrderInv'
  BY <1>1, <1>3, OrderCycle, StillPaid DEF Affords
<1>4. ASSUME NEW e \in Engines, NEW p \in PlatformPosts, ThreadStep(e, p) PROVE OrderInv'
  BY <1>1, <1>4, OrderThread, StillPaid DEF Affords
<1>5. ASSUME NEW u \in Users, NEW p \in PlatformPosts, UserStep(u, p) PROVE OrderInv'
  <2>1. ASSUME NEW e \in Engines PROVE OrderInv'
    BY <1>1, <1>5, OrderUser, StillPaid
  <2>2. CASE Engines = {}
    <3>1. OncePerOrder'
      <4>1. ASSUME NEW q \in PlatformPosts PROVE live'[q] <= orders'[q] + reopened'[q]
        <5>1. /\ live' = live /\ live[q] \in Nat /\ orders[q] \in Nat /\ reopened[q] \in Nat
              /\ live[q] <= orders[q] + reopened[q]
              /\ CountsKept
          BY <1>5, UserCounts, UserRow DEF OrderInv, BudgetInv, TypeOK, OncePerOrder
        <5> QED BY <5>1 DEF CountsKept
      <4> QED BY <4>1 DEF OncePerOrder
    <3> QED BY <1>1, <2>2, <3>1 DEF OrderInv
  <2> QED BY <2>1, <2>2
<1> QED BY <1>2, <1>3, <1>4, <1>5 DEF Next

\* A single publisher makes a row appear at most once for each time a user put
\* it on the schedule and each time a request put it back there from what it
\* had read before (a composer save that writes a stale "scheduled" over
\* "published" is such a request, and the row goes out again).  The engine's own
\* retries, restarts and copies never publish a row again, for every retry
\* limit and backoff.
THEOREM AppearsOncePerOrder ==
  ASSUME Solo, AnswersArrive
  PROVE  Spec => []OncePerOrder
<1>1. OrderInv => OncePerOrder
  BY DEF OrderInv
<1>2. OrderInv /\ [Next]_vars => OrderInv'
  BY OrderNext
<1> QED BY <1>1, <1>2, OrderInit, PTL DEF Spec

-----------------------------------------------------------------------------
(* First comments *)

FirstTry(p) == row[p].status = "published" /\ row[p].retryCount = 0

\* The group it was claimed with is not finished.
InGroup(e, p) == engine[e].phase = "groups" /\ p \in engine[e].claimed

\* The retry path only has rows that failed before.
RetriesFailedBefore(e) ==
  \A p \in PlatformPosts :
    \/ p \in engine[e].retryQueue
    \/ engine[e].phase = "retries" /\ task[e][p] # "none"
    => copy[e][p].retryCount # 0

CommentsPending ==
  \A p \in PlatformPosts :
    FirstTry(p) => p \in commented \/ \E e \in Engines : InGroup(e, p)

CommentInv ==
  BudgetInv /\ CommentsPending /\ \A e \in Engines : RetriesFailedBefore(e)

LEMMA CommentInit == Init => CommentInv
<1> SUFFICES ASSUME Init PROVE CommentInv
  OBVIOUS
<1>1. CommentsPending
  BY DEF Init, CommentsPending, FirstTry, NewRow
<1>2. \A e \in Engines : RetriesFailedBefore(e)
  BY DEF Init, RetriesFailedBefore, IdleCycle
<1> QED BY <1>1, <1>2, BudgetInit DEF CommentInv

\* No row is newly published, and no group lets go of one.
LEMMA CommentsKept ==
  ASSUME CommentInv,
         \A p \in PlatformPosts :
           /\ FirstTry(p)' => FirstTry(p)
           /\ \A e \in Engines : InGroup(e, p) => InGroup(e, p)',
         commented' = commented
  PROVE  CommentsPending'
BY DEF CommentInv, CommentsPending

LEMMA CommentCycle ==
  ASSUME Solo, CommentInv, NEW e \in Engines, CycleStep(e)
  PROVE  CommentsPending' /\ RetriesFailedBefore(e)'
<1>0. /\ row \in [PlatformPosts -> Row]
      /\ engine \in [Engines -> Cycle] /\ engine[e] \in Cycle
      /\ task \in [Engines -> [PlatformPosts -> TaskState]]
      /\ copy \in [Engines -> [PlatformPosts -> Row]]
      /\ Place(e) /\ RetriesFailedBefore(e) /\ CommentsPending
      /\ \A d \in Engines : d = e
  BY Typing DEF CommentInv, BudgetInv, Solo
<1>1. CASE Poll(e)
  <2>1. /\ engine'[e].phase = "groups" /\ engine'[e].retryQueue = {}
        /\ engine[e].phase = "idle" /\ row' = row /\ commented' = commented
    BY <1>0, <1>1 DEF Poll, IdleCycle, dbVars, historyVars
  <2>2. CommentsPending'
    BY <1>0, <2>1, CommentsKept DEF InGroup, FirstTry
  <2> QED BY <2>1, <2>2 DEF RetriesFailedBefore
<1>2. ASSUME NEW x \in Posts, ClaimGroup(e, x) PROVE CommentsPending' /\ RetriesFailedBefore(e)'
  <2> DEFINE mine == Claimable(e, x)
             waiting == engine[e].batch \ Children(x)
             claims == engine[e].claimed \cup mine
  <2>1. engine[e].phase = "groups" /\ engine[e].retryQueue = {} /\ commented' = commented
    BY <1>0, <1>2 DEF ClaimGroup, Place
  <2>2. /\ engine'[e].phase = "groups" /\ engine'[e].retryQueue = {}
        /\ engine[e].claimed \subseteq engine'[e].claimed
    <3>1. \/ engine' = [engine EXCEPT ![e] = [engine[e] EXCEPT !.batch = waiting]]
          \/ engine' = [engine EXCEPT ![e] = [engine[e] EXCEPT !.batch = waiting,
                                                              !.claimed = claims]]
      BY <1>2 DEF ClaimGroup
    <3>2. engine[e].claimed \subseteq claims
      OBVIOUS
    <3> HIDE DEF waiting, claims
    <3>3. CASE engine' = [engine EXCEPT ![e] = [engine[e] EXCEPT !.batch = waiting]]
      BY <1>0, <2>1, <3>3 DEF Cycle
    <3>4. CASE engine' = [engine EXCEPT ![e] = [engine[e] EXCEPT !.batch = waiting,
                                                              !.claimed = claims]]
      BY <1>0, <2>1, <3>2, <3>4 DEF Cycle
    <3> QED BY <3>1, <3>3, <3>4
  <2>3. \A p \in PlatformPosts : FirstTry(p)' => FirstTry(p)
    <3>1. row' = row \/ row' = [p \in PlatformPosts |->
                          IF p \in mine THEN [row[p] EXCEPT !.status = "publishing"] ELSE row[p]]
      BY <1>2 DEF ClaimGroup
    <3> HIDE DEF mine
    <3>2. \A p \in PlatformPosts : row'[p] = row[p] \/ row'[p].status = "publishing"
      BY <1>0, <3>1 DEF Row
    <3> QED BY <3>2 DEF FirstTry
  <2>4. CommentsPending'
    BY <1>0, <2>1, <2>2, <2>3, CommentsKept DEF InGroup
  <2> QED BY <2>2, <2>4 DEF RetriesFailedBefore
<1>3. ASSUME NEW x \in Posts, FinishGroup(e, x) PROVE CommentsPending' /\ RetriesFailedBefore(e)'
  <2> DEFINE mine == Children(x) \cap engine[e].claimed
  <2>1. /\ engine[e].phase = "groups" /\ engine[e].retryQueue = {}
        /\ row' = row /\ task' = task /\ copy' = copy
        /\ commented' = commented \cup {p \in mine : row[p].status = "published"}
        /\ engine' = [engine EXCEPT ![e] = [engine[e] EXCEPT !.claimed = engine[e].claimed \ mine]]
    BY <1>0, <1>3 DEF FinishGroup, Place
  <2> HIDE DEF mine
  <2>2. /\ engine'[e].phase = "groups" /\ engine'[e].retryQueue = {}
        /\ engine'[e].claimed = engine[e].claimed \ mine
    BY <1>0, <2>1 DEF Cycle
  <2>3. CommentsPending'
    BY <1>0, <2>1, <2>2 DEF CommentsPending, InGroup, FirstTry
  <2> QED BY <2>2, <2>3 DEF RetriesFailedBefore
<1>4. CASE StartRetries(e)
  <2>1. /\ engine[e].phase = "groups" /\ engine[e].claimed = {}
        /\ row' = row /\ task' = task /\ commented' = commented
        /\ copy' = [copy EXCEPT ![e] = [p \in PlatformPosts |->
                        IF p \in DueRetries THEN row[p] ELSE NoRow]]
        /\ engine'[e].retryQueue = DueRetries
    BY <1>0, <1>4 DEF StartRetries, Cycle, dbVars, historyVars
  <2>2. Busy(e) = {} /\ \A p \in PlatformPosts : task[e][p] = "none"
    BY <1>0, <2>1 DEF Place, Busy
  <2>3. CommentsPending'
    BY <1>0, <2>1, CommentsKept DEF InGroup, FirstTry
  <2>4. \A p \in DueRetries : row[p].retryCount # 0 /\ copy'[e][p] = row[p]
    BY <1>0, <2>1 DEF DueRetries
  <2> QED BY <2>1, <2>2, <2>3, <2>4 DEF RetriesFailedBefore
<1>5. CASE EndCycle(e)
  <2>1. /\ engine[e].phase = "retries" /\ engine'[e].retryQueue = {} /\ engine'[e].phase = "idle"
        /\ row' = row /\ commented' = commented
    BY <1>0, <1>5 DEF EndCycle, IdleCycle, dbVars, historyVars
  <2>2. CommentsPending'
    BY <1>0, <2>1, CommentsKept DEF InGroup, FirstTry
  <2> QED BY <2>1, <2>2 DEF RetriesFailedBefore
<1> QED BY <1>1, <1>2, <1>3, <1>4, <1>5 DEF CycleStep

LEMMA CommentThread ==
  ASSUME Solo, CommentInv, NEW e \in Engines, NEW p \in PlatformPosts, ThreadStep(e, p)
  PROVE  CommentsPending' /\ RetriesFailedBefore(e)'
<1>0. /\ now \in Clock
      /\ row \in [PlatformPosts -> Row] /\ row[p] \in Row
      /\ engine \in [Engines -> Cycle] /\ engine[e] \in Cycle
      /\ task \in [Engines -> [PlatformPosts -> TaskState]]
      /\ copy \in [Engines -> [PlatformPosts -> Row]] /\ copy[e][p] \in Row
      /\ Place(e) /\ RetriesFailedBefore(e) /\ CommentsPending
      /\ commented' = commented
      /\ \A d \in Engines : d = e
  BY Typing DEF CommentInv, BudgetInv, Solo, ThreadStep, Dispatch, SaveSuccess, LogSuccess,
     LogSuccessFails, ErrorLogFails, ScheduleRetry, FailPermanently, RetryCheck, RetryClaim,
     historyVars
\* The thread stays in its phase and its copy keeps its count, or it ends.
<1>1. ASSUME engine' = engine, task[e][p] # "none",
             \A q \in PlatformPosts : q # p =>
               task'[e][q] = task[e][q] /\ copy'[e][q] = copy[e][q],
             task'[e][p] = "none" \/ copy'[e][p].retryCount = copy[e][p].retryCount
      PROVE  RetriesFailedBefore(e)'
  <2>1. p \notin engine[e].retryQueue
    BY <1>0, <1>1 DEF Place, Busy
  <2> QED BY <1>0, <1>1, <2>1 DEF RetriesFailedBefore
\* A step that publishes no row.
<1>2. ASSUME engine' = engine,
             \A q \in PlatformPosts : q # p => row'[q] = row[q],
             row'[p].status # "published" \/ row'[p] = row[p]
      PROVE  CommentsPending'
  BY <1>0, <1>2, CommentsKept DEF FirstTry, InGroup
<1>3. Conclude(e, p) => /\ task'[e][p] = "none"
                        /\ \A q \in PlatformPosts : q # p =>
                             task'[e][q] = task[e][q] /\ copy'[e][q] = copy[e][q]
  BY <1>0 DEF Conclude
<1>4. CASE Dispatch(e, p)
  <2>1. /\ engine' = engine /\ row' = row /\ copy' = copy /\ task[e][p] # "none"
        /\ \A q \in PlatformPosts : q # p => task'[e][q] = task[e][q]
    BY <1>0, <1>4 DEF Dispatch, dbVars
  <2> QED BY <1>1, <1>2, <2>1
<1>5. CASE SaveSuccess(e, p)
  <2> DEFINE done == [copy[e][p] EXCEPT !.status = "published", !.publishedAt = now]
  <2>1. done.retryCount = copy[e][p].retryCount
    BY <1>0 DEF Row
  <2>2. /\ engine' = engine /\ task[e][p] = "accepted"
        /\ row' = [row EXCEPT ![p] = done] /\ copy' = [copy EXCEPT ![e][p] = done]
        /\ task' = [task EXCEPT ![e][p] = "saved"]
    BY <1>5 DEF SaveSuccess
  <2> HIDE DEF done
  <2>3. /\ row'[p] = done /\ copy'[e][p] = done
        /\ \A q \in PlatformPosts : q # p =>
             row'[q] = row[q] /\ task'[e][q] = task[e][q] /\ copy'[e][q] = copy[e][q]
    BY <1>0, <2>2
  <2>4. FirstTry(p)' => InGroup(e, p)
    <3>1. engine[e].phase = "retries" => copy[e][p].retryCount # 0
      BY <1>0, <2>2 DEF RetriesFailedBefore
    <3>2. engine[e].phase # "idle" /\ (engine[e].phase = "groups" => p \in engine[e].claimed)
      BY <1>0, <2>2 DEF Place, Busy
    <3> QED BY <1>0, <2>1, <2>3, <3>1, <3>2 DEF FirstTry, InGroup, Cycle
  <2>5. CommentsPending'
    BY <1>0, <2>2, <2>3, <2>4 DEF CommentsPending, FirstTry, InGroup
  <2> QED BY <1>1, <2>1, <2>2, <2>3, <2>5
<1>6. CASE LogSuccess(e, p)
  BY <1>1, <1>2, <1>3, <1>6 DEF LogSuccess
<1>7. CASE LogSuccessFails(e, p) \/ ScheduleRetry(e, p)
  <2>1. AfterFailure(copy[e][p]).status # "published"
    BY <1>0, AfterFailureType
  <2>2. /\ row' = [row EXCEPT ![p] = AfterFailure(copy[e][p])] /\ Conclude(e, p)
        /\ engine' = engine /\ task[e][p] # "none"
    BY <1>7 DEF LogSuccessFails, ScheduleRetry
  <2>3. row'[p].status # "published" /\ \A q \in PlatformPosts : q # p => row'[q] = row[q]
    BY <1>0, <2>1, <2>2
  <2> QED BY <1>1, <1>2, <1>3, <2>2, <2>3
<1>8. CASE FailPermanently(e, p)
  <2>1. /\ Conclude(e, p) /\ engine' = engine /\ task[e][p] # "none"
        /\ row'[p].status = "failed" /\ \A q \in PlatformPosts : q # p => row'[q] = row[q]
    BY <1>0, <1>8 DEF FailPermanently, Row
  <2> QED BY <1>1, <1>2, <1>3, <2>1
<1>9. CASE RetryCheck(e, p)
  <2> DEFINE rest == engine[e].retryQueue \ {p}
  <2>1. /\ engine[e].phase = "retries" /\ p \in engine[e].retryQueue /\ row' = row
        /\ engine' = [engine EXCEPT ![e] = [engine[e] EXCEPT !.retryQueue = rest]]
        /\ \/ task' = [task EXCEPT ![e][p] = "cleared"] /\ copy' = copy
           \/ task' = task /\ copy' = [copy EXCEPT ![e][p] = NoRow]
        /\ task[e][p] = "none"
    BY <1>9 DEF RetryCheck, dbVars, Busy
  <2>2. engine'[e].retryQueue = rest /\ engine'[e].phase = "retries"
    BY <1>0, <2>1 DEF Cycle
  <2>3. CommentsPending'
    BY <1>0, <2>1, CommentsKept DEF InGroup, FirstTry
  <2>4. /\ \A q \in PlatformPosts : q # p =>
             task'[e][q] = task[e][q] /\ copy'[e][q] = copy[e][q]
        /\ task'[e][p] = "none" \/ copy'[e][p] = copy[e][p]
    BY <1>0, <2>1
  <2> QED BY <1>0, <2>1, <2>2, <2>3, <2>4 DEF RetriesFailedBefore
<1>10. CASE RetryClaim(e, p)
  <2> DEFINE claim == [copy[e][p] EXCEPT !.status = "publishing"]
  <2>1. /\ engine' = engine /\ task[e][p] = "cleared"
        /\ task' = [task EXCEPT ![e][p] = "claimed"] /\ copy' = [copy EXCEPT ![e][p] = claim]
    BY <1>10 DEF RetryClaim
  <2>2. /\ row'[p].status = "publishing" /\ \A q \in PlatformPosts : q # p => row'[q] = row[q]
        /\ claim.retryCount = copy[e][p].retryCount
    BY <1>0, <1>10 DEF RetryClaim, Row
  <2> HIDE DEF claim
  <2>3. /\ copy'[e][p] = claim
        /\ \A q \in PlatformPosts : q # p =>
             task'[e][q] = task[e][q] /\ copy'[e][q] = copy[e][q]
    BY <1>0, <2>1
  <2> QED BY <1>1, <1>2, <2>1, <2>2, <2>3
<1>11. CASE ErrorLogFails(e, p)
  <2>1. /\ Conclude(e, p) /\ engine' = engine /\ row' = row /\ task[e][p] # "none"
    BY <1>11 DEF ErrorLogFails, dbVars
  <2> QED BY <1>1, <1>2, <1>3, <2>1
<1> QED BY <1>4, <1>5, <1>6, <1>7, <1>8, <1>9, <1>10, <1>11 DEF ThreadStep

\* What the theorem asks of the web requests: no composer save writes back a
\* row that has changed since it was read, and nobody marks one published.
NoRowIsPutBack == (AtomicRequests \/ "compose" \notin Acts) /\ "mark" \notin Acts

LEMMA CommentUser ==
  ASSUME NoRowIsPutBack, TypeOK, NEW u \in Users, NEW p \in PlatformPosts, UserStep(u, p),
         NEW q \in PlatformPosts, FirstTry(q)'
  PROVE  FirstTry(q)
<1>0. row \in [PlatformPosts -> Row] /\ row[p] \in Row
  BY DEF TypeOK
<1>1. CASE q # p
  BY <1>1, UserRow DEF FirstTry
<1>2. ASSUME row'[p].status = "published" /\ row'[p].retryCount = 0
      PROVE  row[p].status = "published" /\ row[p].retryCount = 0
  <2>1. CASE OpenRequest(u, p) \/ ComposeRead(u, p)
    BY <1>2, <2>1 DEF OpenRequest, ComposeRead, dbVars
  <2>2. ASSUME NEW t \in Clock, Schedule(u, p, t) \/ Reschedule(u, p, t) PROVE FALSE
    <3>1. CASE Schedule(u, p, t)
      BY <1>0, <1>2, <3>1 DEF Schedule, Row
    <3>2. CASE Reschedule(u, p, t)
      <4> DEFINE target == IF Seen(u, p).status = "draft" THEN "scheduled" ELSE Seen(u, p).status
      <4>1. target # "published" /\ row' = [row EXCEPT ![p].status = target, ![p].scheduledAt = t]
        BY <3>2 DEF Reschedule
      <4> HIDE DEF target
      <4> QED BY <1>0, <1>2, <4>1 DEF Row
    <3> QED BY <2>2, <3>1, <3>2
  <2>3. ASSUME NEW t \in Clock, ComposeAtOnce(u, p, t) \/ ComposeSync(u, p, t)
        PROVE  row[p].status = "published" /\ row[p].retryCount = 0
    <3>1. ComposeAtOnce(u, p, t)
      BY <2>3 DEF ComposeSync, WriteBack, NoRowIsPutBack
    <3> DEFINE r == Spread(row[p], t)
    <3>2. /\ r \in Row /\ r.status = row[p].status /\ r.retryCount = row[p].retryCount
      BY <1>0, SpreadType DEF Spread, Row, OptClock
    <3>3. row'[p] = Moved(r, row[p])
      BY <1>0, <3>1 DEF ComposeAtOnce
    <3> HIDE DEF r
    <3> QED BY <1>0, <1>2, <3>2, <3>3, MovedType
  <2>4. CASE Cancel(u, p)
    BY <1>0, <1>2, <2>4 DEF Cancel, Row
  <2>5. CASE RequestHold(u, p) \/ ResumeHold(u, p)
    BY <1>0, <1>2, <2>5 DEF RequestHold, ResumeHold, ChangeHold, Row
  <2>6. ASSUME NEW target \in Status, ChipTransition(u, p, target) PROVE FALSE
    <3>1. target # "published"
      BY <2>6 DEF ChipTransition, Served, NoRowIsPutBack, Protected
    <3>2. row'[p].status = target
      BY <1>0, <2>6 DEF ChipTransition, Row
    <3> QED BY <1>2, <3>1, <3>2
  <2>7. ~SaveDraft(u, p)
    BY DEF SaveDraft, WriteBack, NoRowIsPutBack
  <2>8. CASE ComposeSpread(u, p)
    <3>1. row'[p] = Spread(row[p], request[u][p].scheduledAt)
      BY <1>0, <2>8 DEF ComposeSpread
    <3> QED BY <1>0, <1>2, <3>1 DEF Spread, Row
  <2>9. CASE ComposeMove(u, p)
    <3>1. row'[p] = Moved(row[p], request[u][p]) /\ request[u][p] \in Row
      BY <1>0, <2>9 DEF ComposeMove, TypeOK
    <3> QED BY <1>0, <1>2, <3>1, MovedType
  <2> QED BY <2>1, <2>2, <2>3, <2>4, <2>5, <2>6, <2>7, <2>8, <2>9 DEF UserStep
<1> QED BY <1>1, <1>2 DEF FirstTry

LEMMA CommentNext ==
  ASSUME Solo, "crash" \notin Faults, NoRowIsPutBack, CommentInv, [Next]_vars
  PROVE  CommentInv'
<1>1. BudgetInv'
  BY BudgetNext DEF CommentInv
<1>2. CASE Tick \/ UNCHANGED vars
  BY <1>1, <1>2 DEF Tick, vars, dbVars, engineVars, historyVars, CommentInv, CommentsPending,
     RetriesFailedBefore, FirstTry, InGroup
<1>3. ASSUME NEW e \in Engines, CycleStep(e) PROVE CommentInv'
  BY <1>1, <1>3, CommentCycle DEF CommentInv, Solo
<1>4. ASSUME NEW e \in Engines, NEW p \in PlatformPosts, ThreadStep(e, p) PROVE CommentInv'
  BY <1>1, <1>4, CommentThread DEF CommentInv, Solo
<1>5. ASSUME NEW u \in Users, NEW p \in PlatformPosts, UserStep(u, p) PROVE CommentInv'
  <2>1. engine' = engine /\ task' = task /\ copy' = copy /\ commented' = commented
    BY <1>5, UserRow DEF CommentInv, BudgetInv, engineVars
  <2>2. \A q \in PlatformPosts : FirstTry(q)' => FirstTry(q)
    BY <1>5, CommentUser DEF CommentInv, BudgetInv
  <2>3. CommentsPending'
    BY <2>1, <2>2, CommentsKept DEF InGroup
  <2>4. \A e \in Engines : RetriesFailedBefore(e)'
    BY <2>1 DEF CommentInv, RetriesFailedBefore
  <2> QED BY <1>1, <2>3, <2>4 DEF CommentInv
<1>6. \A e \in Engines : ~Crash(e)
  BY DEF Crash
<1> QED BY <1>2, <1>3, <1>4, <1>5, <1>6 DEF Next

\* Between the cycles of a single publisher that does not die, every row that
\* went out at its first attempt has had its first comment enqueued, whatever
\* stale requests write meanwhile, short of a composer save that puts a
\* published row back or a user who calls a row published.
THEOREM FirstTriesAreCommented ==
  ASSUME Solo, "crash" \notin Faults, NoRowIsPutBack
  PROVE  Spec => []CommentFollowsFirstTry
<1>1. CommentInv => CommentFollowsFirstTry
  BY DEF CommentInv, CommentsPending, CommentFollowsFirstTry, FirstTry, InGroup
<1>2. CommentInv /\ [Next]_vars => CommentInv'
  BY CommentNext
<1> QED BY <1>1, <1>2, CommentInit, PTL DEF Spec

-----------------------------------------------------------------------------
(* Post.published_at *)

Times(x) == {row[p].publishedAt : p \in Children(x)}

\* A thread has yet to reflect a child of x onto it.
Pending(x) ==
  \E e \in Engines, p \in Children(x) : InGroup(e, p) \/ task[e][p] = "saved"

Mirrored(x) ==
  /\ post[x].publishedAt # NoTime => \E p \in Children(x) : row[p].publishedAt # NoTime
  /\ Children(x) # {} => IsLatest(post[x].publishedAt, Times(x)) \/ Pending(x)

\* No atomic request changes published_at, so the copies stay true to the rows.
CopyTimes(e) ==
  \A p \in PlatformPosts :
    p \in engine[e].retryQueue \/ task[e][p] # "none"
      => copy[e][p].publishedAt = row[p].publishedAt

\* Requests that read and write in one step leave nothing open.
NothingOpen == \A u \in Users, p \in PlatformPosts : open[u][p] = "none"

MirrorInv ==
  /\ BudgetInv
  /\ NothingOpen
  /\ \A e \in Engines : CopyTimes(e)
  /\ \A x \in Posts : Mirrored(x)

LEMMA MirrorInit == Init => MirrorInv
<1> SUFFICES ASSUME Init PROVE MirrorInv
  OBVIOUS
<1>1. \A e \in Engines : CopyTimes(e)
  BY DEF Init, CopyTimes, IdleCycle
<1>2. ASSUME NEW x \in Posts PROVE Mirrored(x)
  <2>1. post[x].publishedAt = NoTime /\ \A p \in Children(x) : row[p].publishedAt = NoTime
    BY DEF Init, NewRow, Children
  <2> QED BY <2>1 DEF Mirrored, Times, IsLatest, NoTime
<1>3. NothingOpen
  BY DEF Init, NothingOpen
<1> QED BY <1>1, <1>2, <1>3, BudgetInit DEF MirrorInv

\* No published_at changes, and no thread forgets what it has to reflect.
LEMMA MirrorKept ==
  ASSUME MirrorInv,
         \A x \in Posts : post'[x].publishedAt = post[x].publishedAt,
         \A p \in PlatformPosts : row'[p].publishedAt = row[p].publishedAt,
         \A x \in Posts : Pending(x) => Pending(x)'
  PROVE  \A x \in Posts : Mirrored(x)'
<1> SUFFICES ASSUME NEW x \in Posts PROVE Mirrored(x)'
  OBVIOUS
<1>1. Children(x) \subseteq PlatformPosts /\ Children(x)' = Children(x)
  BY DEF Children
<1>2. Times(x)' = Times(x)
  BY <1>1 DEF Times
<1> QED BY <1>1, <1>2 DEF MirrorInv, Mirrored, IsLatest

\* _sync_parent_published_at leaves the post true to its children, and the
\* other posts as they were.
LEMMA MirrorSynced ==
  ASSUME MirrorInv, NEW x \in Posts, SyncPublishedAt(x), row' = row,
         \A y \in Posts : y # x /\ Pending(y) => Pending(y)'
  PROVE  \A y \in Posts : Mirrored(y)'
<1>0. /\ row \in [PlatformPosts -> Row] /\ post \in [Posts -> PostRow]
      /\ \A y \in Posts : Mirrored(y)
  BY DEF MirrorInv, BudgetInv, TypeOK
<1>1. PICK m \in OptClock :
        /\ IsLatest(m, Times(x))
        /\ post' = IF m = NoTime THEN post ELSE [post EXCEPT ![x].publishedAt = m]
  BY DEF SyncPublishedAt, Times
<1>2. \A y \in Posts : y # x => post'[y] = post[y]
  BY <1>0, <1>1
<1>3. \A p \in Children(x) : row[p].publishedAt \in OptClock /\ row[p].publishedAt <= m
  BY <1>0, <1>1 DEF IsLatest, Times, Children, Row
<1>4. post'[x].publishedAt = m
  <2>1. CASE m = NoTime
    <3>1. \A p \in Children(x) : row[p].publishedAt = NoTime
      BY <1>3, <2>1, Constants DEF OptClock, Clock, NoTime, ConstantAssumptions
    <3> QED BY <1>0, <1>1, <2>1, <3>1 DEF Mirrored
  <2>2. CASE m # NoTime
    BY <1>0, <1>1, <2>2 DEF PostRow
  <2> QED BY <2>1, <2>2
<1>5. \A y \in Posts : Times(y)' = Times(y) /\ Children(y)' = Children(y)
  BY DEF Times, Children
<1>6. Mirrored(x)'
  <2>1. \E p \in Children(x) : row[p].publishedAt = m
    BY <1>1 DEF IsLatest, Times
  <2> QED BY <1>1, <1>4, <1>5, <2>1 DEF Mirrored, IsLatest
<1>7. ASSUME NEW y \in Posts, y # x PROVE Mirrored(y)'
  BY <1>0, <1>2, <1>5, <1>7 DEF Mirrored, IsLatest
<1> QED BY <1>6, <1>7

LEMMA MirrorCycle ==
  ASSUME Solo, MirrorInv, NEW e \in Engines, CycleStep(e)
  PROVE  CopyTimes(e)' /\ \A x \in Posts : Mirrored(x)'
<1>0. /\ row \in [PlatformPosts -> Row] /\ post \in [Posts -> PostRow]
      /\ engine \in [Engines -> Cycle] /\ engine[e] \in Cycle
      /\ task \in [Engines -> [PlatformPosts -> TaskState]]
      /\ copy \in [Engines -> [PlatformPosts -> Row]]
      /\ Place(e) /\ CopyTimes(e)
      /\ \A d \in Engines : d = e
  BY Typing DEF MirrorInv, BudgetInv, Solo, TypeOK
<1>1. CASE Poll(e)
  <2>1. /\ engine'[e].phase = "groups" /\ engine'[e].retryQueue = {}
        /\ engine[e].phase = "idle" /\ row' = row /\ post' = post
        /\ task' = task /\ copy' = copy
    BY <1>0, <1>1 DEF Poll, IdleCycle, dbVars
  <2>2. \A x \in Posts : Pending(x) => Pending(x)'
    BY <1>0, <2>1 DEF Pending, InGroup, Children
  <2>3. \A x \in Posts : Mirrored(x)'
    BY <2>1, <2>2, MirrorKept
  <2> QED BY <1>0, <2>1, <2>3 DEF CopyTimes
<1>2. ASSUME NEW x \in Posts, ClaimGroup(e, x)
      PROVE  CopyTimes(e)' /\ \A y \in Posts : Mirrored(y)'
  <2> DEFINE mine == Claimable(e, x)
             waiting == engine[e].batch \ Children(x)
             claims == engine[e].claimed \cup mine
  <2>1. engine[e].phase = "groups" /\ engine[e].retryQueue = {} /\ post' = post
    BY <1>0, <1>2 DEF ClaimGroup, Place
  <2>2. /\ engine'[e].phase = "groups" /\ engine'[e].retryQueue = {}
        /\ engine[e].claimed \subseteq engine'[e].claimed
    <3>1. \/ engine' = [engine EXCEPT ![e] = [engine[e] EXCEPT !.batch = waiting]]
          \/ engine' = [engine EXCEPT ![e] = [engine[e] EXCEPT !.batch = waiting,
                                                              !.claimed = claims]]
      BY <1>2 DEF ClaimGroup
    <3>2. engine[e].claimed \subseteq claims
      OBVIOUS
    <3> HIDE DEF waiting, claims
    <3>3. CASE engine' = [engine EXCEPT ![e] = [engine[e] EXCEPT !.batch = waiting]]
      BY <1>0, <2>1, <3>3 DEF Cycle
    <3>4. CASE engine' = [engine EXCEPT ![e] = [engine[e] EXCEPT !.batch = waiting,
                                                              !.claimed = claims]]
      BY <1>0, <2>1, <3>2, <3>4 DEF Cycle
    <3> QED BY <3>1, <3>3, <3>4
  <2>3. \A p \in PlatformPosts :
          /\ row'[p].publishedAt = row[p].publishedAt
          /\ \/ task'[e][p] = task[e][p] /\ copy'[e][p] = copy[e][p]
             \/ /\ task[e][p] = "none"
                /\ copy'[e][p].publishedAt = row[p].publishedAt
    <3>1. \A p \in mine : task[e][p] = "none"
      BY <1>0 DEF Claimable, Place, Busy, Children
    <3>2. \/ row' = row /\ task' = task /\ copy' = copy
          \/ /\ row' = [p \in PlatformPosts |->
                  IF p \in mine THEN [row[p] EXCEPT !.status = "publishing"] ELSE row[p]]
             /\ copy' = [copy EXCEPT ![e] = [p \in PlatformPosts |->
                  IF p \in mine THEN row[p] ELSE copy[e][p]]]
             /\ task' = [task EXCEPT ![e] = [p \in PlatformPosts |->
                  IF p \in mine THEN "claimed" ELSE task[e][p]]]
      BY <1>2 DEF ClaimGroup
    <3> HIDE DEF mine
    <3> QED BY <1>0, <3>1, <3>2 DEF Row
  <2>4. \A y \in Posts : Pending(y) => Pending(y)'
    BY <1>0, <2>1, <2>2, <2>3 DEF Pending, InGroup, Children
  <2>5. \A y \in Posts : Mirrored(y)'
    BY <2>1, <2>3, <2>4, MirrorKept
  <2>6. CopyTimes(e)'
    BY <1>0, <2>2, <2>3 DEF CopyTimes
  <2> QED BY <2>5, <2>6
<1>3. ASSUME NEW x \in Posts, FinishGroup(e, x)
      PROVE  CopyTimes(e)' /\ \A y \in Posts : Mirrored(y)'
  <2> DEFINE mine == Children(x) \cap engine[e].claimed
  <2>1. /\ engine[e].phase = "groups" /\ engine[e].retryQueue = {}
        /\ row' = row /\ task' = task /\ copy' = copy /\ SyncPublishedAt(x)
        /\ engine' = [engine EXCEPT ![e] = [engine[e] EXCEPT !.claimed = engine[e].claimed \ mine]]
    BY <1>0, <1>3 DEF FinishGroup, Place
  <2>2. mine \subseteq Children(x)
    OBVIOUS
  <2> HIDE DEF mine
  <2>3. /\ engine'[e].phase = "groups" /\ engine'[e].retryQueue = {}
        /\ engine'[e].claimed = engine[e].claimed \ mine
    BY <1>0, <2>1 DEF Cycle
  <2>4. \A y \in Posts : y # x /\ Pending(y) => Pending(y)'
    BY <1>0, <2>1, <2>2, <2>3 DEF Pending, InGroup, Children
  <2>5. \A y \in Posts : Mirrored(y)'
    BY <2>1, <2>4, MirrorSynced
  <2> QED BY <1>0, <2>1, <2>3, <2>5 DEF CopyTimes
<1>4. CASE StartRetries(e)
  <2>1. /\ engine[e].phase = "groups" /\ engine[e].claimed = {}
        /\ row' = row /\ post' = post /\ task' = task
        /\ copy' = [copy EXCEPT ![e] = [p \in PlatformPosts |->
                        IF p \in DueRetries THEN row[p] ELSE NoRow]]
        /\ engine'[e].retryQueue = DueRetries
    BY <1>0, <1>4 DEF StartRetries, Cycle, dbVars
  <2>2. Busy(e) = {} /\ \A p \in PlatformPosts : task[e][p] = "none"
    BY <1>0, <2>1 DEF Place, Busy
  <2>3. \A x \in Posts : ~Pending(x)
    BY <1>0, <2>1, <2>2 DEF Pending, InGroup, Children
  <2>4. \A x \in Posts : Mirrored(x)'
    BY <2>1, <2>3, MirrorKept
  <2>5. \A p \in DueRetries : copy'[e][p] = row[p]
    BY <1>0, <2>1 DEF DueRetries
  <2> QED BY <2>1, <2>2, <2>4, <2>5 DEF CopyTimes
<1>5. CASE EndCycle(e)
  <2>1. /\ engine[e].phase = "retries" /\ engine'[e].retryQueue = {} /\ Busy(e) = {}
        /\ row' = row /\ post' = post /\ task' = task /\ copy' = copy
    BY <1>0, <1>5 DEF EndCycle, IdleCycle, dbVars
  <2>2. \A x \in Posts : ~Pending(x)
    BY <1>0, <2>1 DEF Pending, InGroup, Children, Busy
  <2>3. \A x \in Posts : Mirrored(x)'
    BY <2>1, <2>2, MirrorKept
  <2> QED BY <1>0, <2>1, <2>3 DEF CopyTimes
<1> QED BY <1>1, <1>2, <1>3, <1>4, <1>5 DEF CycleStep

LEMMA AfterFailureTime ==
  ASSUME NEW c \in Row PROVE AfterFailure(c).publishedAt = c.publishedAt
<1>1. CASE c.retryCount >= MaxRetries
  BY <1>1 DEF AfterFailure, Row
<1>2. CASE ~(c.retryCount >= MaxRetries)
  BY <1>2 DEF AfterFailure, Row
<1> QED BY <1>1, <1>2

LEMMA MirrorThread ==
  ASSUME Solo, Faults \subseteq {"lostReply"}, MirrorInv,
         NEW e \in Engines, NEW p \in PlatformPosts, ThreadStep(e, p)
  PROVE  CopyTimes(e)' /\ \A x \in Posts : Mirrored(x)'
<1>0. /\ now \in Clock
      /\ row \in [PlatformPosts -> Row] /\ row[p] \in Row
      /\ post \in [Posts -> PostRow]
      /\ engine \in [Engines -> Cycle] /\ engine[e] \in Cycle
      /\ task \in [Engines -> [PlatformPosts -> TaskState]]
      /\ copy \in [Engines -> [PlatformPosts -> Row]] /\ copy[e][p] \in Row
      /\ Place(e) /\ CopyTimes(e) /\ \A x \in Posts : Mirrored(x)
      /\ \A d \in Engines : d = e
      /\ PostOf[p] \in Posts
  BY Typing, Constants DEF MirrorInv, BudgetInv, Solo, TypeOK, ConstantAssumptions
\* A thread that writes no published_at, and that had none to reflect.
<1>1. ASSUME post' = post, engine' = engine, task[e][p] \notin {"none", "saved"},
             \A q \in PlatformPosts : q # p =>
               row'[q] = row[q] /\ task'[e][q] = task[e][q] /\ copy'[e][q] = copy[e][q],
             row'[p].publishedAt = copy[e][p].publishedAt,
             task'[e][p] = "none" \/ copy'[e][p].publishedAt = copy[e][p].publishedAt
      PROVE  CopyTimes(e)' /\ \A x \in Posts : Mirrored(x)'
  <2>1. /\ p \notin engine[e].retryQueue
        /\ copy[e][p].publishedAt = row[p].publishedAt
    BY <1>0, <1>1 DEF Place, Busy, CopyTimes
  <2>2. CopyTimes(e)'
    BY <1>0, <1>1, <2>1 DEF CopyTimes
  <2>3. \A x \in Posts : Pending(x) => Pending(x)'
    BY <1>0, <1>1 DEF Pending, InGroup, Children
  <2> QED BY <1>1, <2>1, <2>2, <2>3, MirrorKept
<1>2. Conclude(e, p) => /\ task'[e][p] = "none"
                        /\ \A q \in PlatformPosts : q # p =>
                             task'[e][q] = task[e][q] /\ copy'[e][q] = copy[e][q]
  BY <1>0 DEF Conclude
<1>3. task[e][p] # "none" => copy[e][p].publishedAt = row[p].publishedAt
  BY <1>0 DEF CopyTimes
<1>4. CASE Dispatch(e, p)
  <2>1. /\ post' = post /\ engine' = engine /\ row' = row /\ copy' = copy
        /\ task[e][p] = "claimed"
        /\ \A q \in PlatformPosts : q # p => task'[e][q] = task[e][q]
    BY <1>0, <1>4 DEF Dispatch, dbVars
  <2> QED BY <1>1, <1>3, <2>1
<1>5. CASE SaveSuccess(e, p)
  <2> DEFINE done == [copy[e][p] EXCEPT !.status = "published", !.publishedAt = now]
  <2>1. done.publishedAt = now /\ now # NoTime
    BY <1>0, Constants DEF Row, Clock, NoTime, ConstantAssumptions
  <2>2. /\ engine' = engine /\ post' = post /\ task[e][p] = "accepted"
        /\ row' = [row EXCEPT ![p] = done] /\ copy' = [copy EXCEPT ![e][p] = done]
        /\ task' = [task EXCEPT ![e][p] = "saved"]
    BY <1>5 DEF SaveSuccess
  <2> HIDE DEF done
  <2>3. /\ row'[p] = done /\ copy'[e][p] = done /\ task'[e][p] = "saved"
        /\ \A q \in PlatformPosts : q # p =>
             row'[q] = row[q] /\ task'[e][q] = task[e][q] /\ copy'[e][q] = copy[e][q]
    BY <1>0, <2>2
  <2>4. CopyTimes(e)'
    BY <1>0, <2>2, <2>3 DEF CopyTimes
  <2>5. ASSUME NEW x \in Posts PROVE Mirrored(x)'
    <3>1. Children(x)' = Children(x) /\ Children(x) \subseteq PlatformPosts
      BY DEF Children
    <3>2. CASE p \in Children(x)
      BY <2>1, <2>3, <3>1, <3>2 DEF Mirrored, Pending
    <3>3. CASE p \notin Children(x)
      <4>1. \A q \in Children(x) : row'[q] = row[q] /\ task'[e][q] = task[e][q]
        BY <2>3, <3>1, <3>3
      <4>2. Times(x)' = Times(x)
        BY <3>1, <4>1 DEF Times
      <4>3. Pending(x) => Pending(x)'
        BY <1>0, <2>2, <3>1, <4>1 DEF Pending, InGroup
      <4> QED BY <1>0, <2>2, <3>1, <4>1, <4>2, <4>3 DEF Mirrored, IsLatest
    <3> QED BY <3>2, <3>3
  <2> QED BY <2>4, <2>5
<1>6. CASE LogSuccess(e, p)
  <2>1. /\ engine' = engine /\ row' = row /\ task[e][p] = "saved" /\ Conclude(e, p)
        /\ IF engine[e].phase = "retries" THEN SyncPublishedAt(PostOf[p]) ELSE post' = post
    BY <1>6 DEF LogSuccess
  <2>2. CopyTimes(e)'
    <3>1. p \notin engine[e].retryQueue
      BY <1>0, <2>1 DEF Place, Busy
    <3> QED BY <1>0, <1>2, <2>1, <3>1 DEF CopyTimes
  <2>3. CASE engine[e].phase = "retries"
    <3>1. \A y \in Posts : y # PostOf[p] /\ Pending(y) => Pending(y)'
      BY <1>0, <1>2, <2>1 DEF Pending, InGroup, Children
    <3> QED BY <1>0, <2>1, <2>2, <2>3, <3>1, MirrorSynced
  <2>4. CASE engine[e].phase # "retries"
    <3>1. InGroup(e, p)
      BY <1>0, <2>1, <2>4 DEF InGroup, Place, Busy, Cycle
    <3>2. \A y \in Posts : Pending(y) => Pending(y)'
      BY <1>0, <1>2, <2>1, <3>1 DEF Pending, InGroup, Children
    <3> QED BY <2>1, <2>2, <2>4, <3>2, MirrorKept
  <2> QED BY <2>3, <2>4
<1>7. CASE ScheduleRetry(e, p)
  <2>1. /\ row' = [row EXCEPT ![p] = AfterFailure(copy[e][p])] /\ Conclude(e, p)
        /\ engine' = engine /\ post' = post /\ task[e][p] = "refused"
    BY <1>7 DEF ScheduleRetry
  <2>2. /\ row'[p].publishedAt = copy[e][p].publishedAt
        /\ \A q \in PlatformPosts : q # p => row'[q] = row[q]
    BY <1>0, <2>1, AfterFailureTime
  <2> QED BY <1>1, <1>2, <2>1, <2>2
<1>8. CASE FailPermanently(e, p)
  <2>1. /\ Conclude(e, p) /\ engine' = engine /\ post' = post /\ task[e][p] = "rejected"
        /\ row'[p].publishedAt = copy[e][p].publishedAt
        /\ \A q \in PlatformPosts : q # p => row'[q] = row[q]
    BY <1>0, <1>8 DEF FailPermanently, Row
  <2> QED BY <1>1, <1>2, <2>1
<1>9. CASE RetryCheck(e, p)
  <2> DEFINE rest == engine[e].retryQueue \ {p}
  <2>1. /\ engine[e].phase = "retries" /\ p \in engine[e].retryQueue
        /\ row' = row /\ post' = post
        /\ engine' = [engine EXCEPT ![e] = [engine[e] EXCEPT !.retryQueue = rest]]
        /\ \/ task' = [task EXCEPT ![e][p] = "cleared"] /\ copy' = copy
           \/ task' = task /\ copy' = [copy EXCEPT ![e][p] = NoRow]
        /\ task[e][p] = "none"
    BY <1>9 DEF RetryCheck, dbVars, Busy
  <2>2. engine'[e].retryQueue = rest /\ engine'[e].phase = "retries"
    BY <1>0, <2>1 DEF Cycle
  <2>3. /\ \A q \in PlatformPosts : q # p =>
             task'[e][q] = task[e][q] /\ copy'[e][q] = copy[e][q]
        /\ task'[e][p] = "none" \/ copy'[e][p] = copy[e][p]
    BY <1>0, <2>1
  <2>4. \A x \in Posts : Pending(x) => Pending(x)'
    BY <1>0, <2>1, <2>3 DEF Pending, InGroup, Children
  <2>5. \A x \in Posts : Mirrored(x)'
    BY <2>1, <2>4, MirrorKept
  <2> QED BY <1>0, <2>1, <2>2, <2>3, <2>5 DEF CopyTimes
<1>10. CASE RetryClaim(e, p)
  <2> DEFINE claim == [copy[e][p] EXCEPT !.status = "publishing"]
  <2>1. /\ engine' = engine /\ post' = post /\ task[e][p] = "cleared"
        /\ task' = [task EXCEPT ![e][p] = "claimed"] /\ copy' = [copy EXCEPT ![e][p] = claim]
    BY <1>10 DEF RetryClaim
  <2>2. /\ row'[p].publishedAt = row[p].publishedAt
        /\ \A q \in PlatformPosts : q # p => row'[q] = row[q]
        /\ claim.publishedAt = copy[e][p].publishedAt
    BY <1>0, <1>10 DEF RetryClaim, Row
  <2> HIDE DEF claim
  <2>3. /\ copy'[e][p] = claim
        /\ \A q \in PlatformPosts : q # p =>
             task'[e][q] = task[e][q] /\ copy'[e][q] = copy[e][q]
    BY <1>0, <2>1
  <2> QED BY <1>1, <1>3, <2>1, <2>2, <2>3
<1>11. ~LogSuccessFails(e, p) /\ ~ErrorLogFails(e, p)
  BY DEF LogSuccessFails, ErrorLogFails
<1> QED BY <1>4, <1>5, <1>6, <1>7, <1>8, <1>9, <1>10, <1>11 DEF ThreadStep

\* A request that reads and writes in one transaction writes back the
\* published_at it finds, unless it calls the row published.
LEMMA UserTimes ==
  ASSUME AtomicRequests, "mark" \notin Acts, TypeOK, NothingOpen,
         NEW u \in Users, NEW p \in PlatformPosts, UserStep(u, p)
  PROVE  /\ \A q \in PlatformPosts : row'[q].publishedAt = row[q].publishedAt
         /\ \A x \in Posts : post'[x].publishedAt = post[x].publishedAt
         /\ open' = open
<1>0. /\ row \in [PlatformPosts -> Row] /\ row[p] \in Row
      /\ post \in [Posts -> PostRow]
      /\ PostOf[p] \in Posts /\ post[PostOf[p]] \in PostRow
      /\ Seen(u, p) = row[p] /\ open[u][p] = "none"
      /\ \A q \in PlatformPosts : q # p => row'[q] = row[q]
  BY UserRow, Constants DEF TypeOK, Seen, ConstantAssumptions, NothingOpen
<1>1. SyncScheduledAt(PostOf[p]) => \A x \in Posts : post'[x].publishedAt = post[x].publishedAt
  BY <1>0 DEF SyncScheduledAt, PostRow
<1>2. \A kind : Served(kind, u, p) => open' = open /\ kind \in Acts
  BY DEF Served
<1>3. ASSUME row'[p].publishedAt = row[p].publishedAt, SyncScheduledAt(PostOf[p]), open' = open
      PROVE  /\ \A q \in PlatformPosts : row'[q].publishedAt = row[q].publishedAt
             /\ \A x \in Posts : post'[x].publishedAt = post[x].publishedAt
             /\ open' = open
  BY <1>0, <1>1, <1>3
<1>4. ASSUME NEW t \in Clock, Schedule(u, p, t) PROVE
        row'[p].publishedAt = row[p].publishedAt /\ SyncScheduledAt(PostOf[p]) /\ open' = open
  BY <1>0, <1>2, <1>4 DEF Schedule, Row
<1>5. ASSUME NEW t \in Clock, Reschedule(u, p, t) PROVE
        row'[p].publishedAt = row[p].publishedAt /\ SyncScheduledAt(PostOf[p]) /\ open' = open
  <2> DEFINE target == IF Seen(u, p).status = "draft" THEN "scheduled" ELSE Seen(u, p).status
  <2>1. /\ row' = [row EXCEPT ![p].status = target, ![p].scheduledAt = t]
        /\ SyncScheduledAt(PostOf[p]) /\ open' = open
    BY <1>2, <1>5 DEF Reschedule
  <2> HIDE DEF target
  <2> QED BY <1>0, <2>1 DEF Row
<1>6. CASE Cancel(u, p)
  <2> DEFINE time == IF Seen(u, p).scheduledAt # NoTime THEN NoTime ELSE row[p].scheduledAt
  <2>1. /\ row' = [row EXCEPT ![p] = [row[p] EXCEPT !.status = "draft", !.scheduledAt = time]]
        /\ SyncScheduledAt(PostOf[p]) /\ open' = open
    BY <1>0, <1>2, <1>6 DEF Cancel, Row
  <2> HIDE DEF time
  <2> QED BY <1>0, <1>3, <2>1 DEF Row
<1>7. ASSUME NEW s, row' = [row EXCEPT ![p].status = s, ![p].publishedAt = row[p].publishedAt],
             post' = post, open' = open
      PROVE  /\ \A q \in PlatformPosts : row'[q].publishedAt = row[q].publishedAt
             /\ \A x \in Posts : post'[x].publishedAt = post[x].publishedAt
             /\ open' = open
  BY <1>0, <1>7 DEF Row
<1>8. ASSUME NEW from, NEW to, ChangeHold(u, p, from, to)
      PROVE  /\ row' = [row EXCEPT ![p].status = to, ![p].publishedAt = row[p].publishedAt]
             /\ post' = post /\ open' = open
  BY <1>0, <1>2, <1>8 DEF ChangeHold
<1>9. CASE RequestHold(u, p) \/ ResumeHold(u, p)
  BY <1>7, <1>8, <1>9 DEF RequestHold, ResumeHold
<1>10. ASSUME NEW target \in Status, ChipTransition(u, p, target)
       PROVE  /\ row' = [row EXCEPT ![p].status = target, ![p].publishedAt = row[p].publishedAt]
              /\ post' = post /\ open' = open
  <2>1. target # "published" /\ open' = open
    BY <1>2, <1>10 DEF ChipTransition, Protected
  <2> QED BY <1>0, <1>10, <2>1 DEF ChipTransition
<1>11. CASE \E target \in Status : ChipTransition(u, p, target)
  BY <1>7, <1>10, <1>11
<1>12. ASSUME NEW t \in Clock, ComposeAtOnce(u, p, t)
       PROVE  /\ \A q \in PlatformPosts : row'[q].publishedAt = row[q].publishedAt
              /\ \A x \in Posts : post'[x].publishedAt = post[x].publishedAt
              /\ open' = open
  <2> DEFINE r == Moved(Spread(row[p], t), row[p])
  <2>1. r.publishedAt = row[p].publishedAt
    BY <1>0 DEF Moved, Spread, Row
  <2>2. row' = [row EXCEPT ![p] = r] /\ post' = [post EXCEPT ![PostOf[p]].scheduledAt = t]
    BY <1>12 DEF ComposeAtOnce
  <2>3. open' = open
    BY <1>2, <1>12 DEF ComposeAtOnce
  <2> HIDE DEF r
  <2> QED BY <1>0, <2>1, <2>2, <2>3 DEF PostRow
<1>13. /\ ~OpenRequest(u, p) /\ ~SaveDraft(u, p) /\ \A t \in Clock : ~ComposeSync(u, p, t)
       /\ ~ComposeSpread(u, p) /\ ~ComposeRead(u, p) /\ ~ComposeMove(u, p)
  BY <1>0 DEF OpenRequest, SaveDraft, ComposeSync, WriteBack, ComposeSpread, ComposeRead,
     ComposeMove
<1> QED BY <1>3, <1>4, <1>5, <1>6, <1>9, <1>11, <1>12, <1>13 DEF UserStep

LEMMA MirrorNext ==
  ASSUME Solo, AtomicRequests, "mark" \notin Acts, Faults \subseteq {"lostReply"},
         MirrorInv, [Next]_vars
  PROVE  MirrorInv'
<1>1. BudgetInv'
  BY BudgetNext DEF MirrorInv
<1>2. CASE Tick \/ UNCHANGED vars
  BY <1>1, <1>2 DEF Tick, vars, dbVars, engineVars, userVars, MirrorInv, NothingOpen, CopyTimes,
     Mirrored, Times, IsLatest, Pending, InGroup, Children
<1>3. ASSUME NEW e \in Engines, CycleStep(e) PROVE MirrorInv'
  <2>1. open' = open
    BY <1>3 DEF CycleStep, Poll, ClaimGroup, FinishGroup, StartRetries, EndCycle, userVars
  <2> QED BY <1>1, <1>3, <2>1, MirrorCycle DEF MirrorInv, NothingOpen, Solo
<1>4. ASSUME NEW e \in Engines, NEW p \in PlatformPosts, ThreadStep(e, p) PROVE MirrorInv'
  <2>1. open' = open
    BY <1>4 DEF ThreadStep, Dispatch, SaveSuccess, LogSuccess, LogSuccessFails, ErrorLogFails,
       ScheduleRetry, FailPermanently, RetryCheck, RetryClaim, userVars
  <2> QED BY <1>1, <1>4, <2>1, MirrorThread DEF MirrorInv, NothingOpen, Solo
<1>5. ASSUME NEW u \in Users, NEW p \in PlatformPosts, UserStep(u, p) PROVE MirrorInv'
  <2>1. engine' = engine /\ task' = task /\ copy' = copy
    BY <1>5, UserRow DEF MirrorInv, BudgetInv, engineVars
  <2>2. /\ \A q \in PlatformPosts : row'[q].publishedAt = row[q].publishedAt
        /\ \A x \in Posts : post'[x].publishedAt = post[x].publishedAt
        /\ open' = open
    BY <1>5, UserTimes DEF MirrorInv, BudgetInv
  <2>3. \A x \in Posts : Mirrored(x)'
    BY <2>1, <2>2, MirrorKept DEF Pending, InGroup, Children
  <2>4. (\A e \in Engines : CopyTimes(e)') /\ NothingOpen'
    BY <2>1, <2>2 DEF MirrorInv, CopyTimes, NothingOpen
  <2> QED BY <1>1, <2>3, <2>4 DEF MirrorInv
<1>6. \A e \in Engines : ~Crash(e)
  BY DEF Crash
<1> QED BY <1>2, <1>3, <1>4, <1>5, <1>6 DEF Next

\* Between the cycles of a single publisher that neither dies nor loses a log
\* row, Post.published_at is the latest published_at of its children, however
\* the two publishing paths and the atomic requests alternate, as long as no
\* user calls a row published.
THEOREM PostsReflectTheirChildren ==
  ASSUME Solo, AtomicRequests, "mark" \notin Acts, Faults \subseteq {"lostReply"}
  PROVE  Spec => []ParentReflectsChildren
<1>1. MirrorInv => ParentReflectsChildren
  <2> SUFFICES ASSUME MirrorInv, \A e \in Engines : engine[e].phase = "idle",
                      NEW x \in Posts, Children(x) # {}
               PROVE  IsLatest(post[x].publishedAt, Times(x))
    BY DEF ParentReflectsChildren, Times
  <2>1. ~Pending(x)
    BY DEF MirrorInv, BudgetInv, Place, Busy, Pending, InGroup, Children
  <2> QED BY <2>1 DEF MirrorInv, Mirrored
<1>2. MirrorInv /\ [Next]_vars => MirrorInv'
  BY MirrorNext
<1> QED BY <1>1, <1>2, MirrorInit, PTL DEF Spec

=============================================================================
