------------------------- MODULE PublishEngineProofs -------------------------
(***************************************************************************)
(* Machine-checked proofs about PublishEngine, for every set of posts,     *)
(* children and publisher processes, every retry limit and backoff, and    *)
(* every combination of web requests and faults.                           *)
(***************************************************************************)
EXTENDS PublishEngine, TLAPS

ConstantAssumptions ==
  /\ PostOf \in [PlatformPosts -> Posts]
  /\ MaxRetries \in Nat
  /\ RetryBackoff \in [0..(MaxRetries - 1) -> Nat]
  /\ MaxTime \in Nat
  /\ MaxEdits \in Nat

LEMMA Constants == ConstantAssumptions
BY PostOfAssumption, RetryAssumption, BoundAssumption DEF ConstantAssumptions

(* The rows the program writes are rows: one lemma per way of making one. *)

LEMMA NewRowType ==
  ASSUME NEW s \in Status, NEW t \in OptClock
  PROVE  NewRow(s, t) \in Row
BY Constants DEF ConstantAssumptions, NewRow, Row, OptClock, Clock, NoTime

LEMMA NoRowType == NoRow \in Row
BY NewRowType DEF NoRow, Status, OptClock

LEMMA AfterFailureType ==
  ASSUME NEW c \in Row, now \in Clock
  PROVE  AfterFailure(c) \in Row /\ AfterFailure(c).status \in {"failed", "scheduled"}
<1>1. CASE c.retryCount >= MaxRetries
  BY <1>1 DEF AfterFailure, Row, Status
<1>2. CASE ~(c.retryCount >= MaxRetries)
  <2>1. c.retryCount \in 0..(MaxRetries - 1) /\ c.retryCount + 1 \in 0..MaxRetries
    BY <1>2, Constants DEF Row, ConstantAssumptions
  <2>2. now + RetryBackoff[c.retryCount] \in Nat
    BY <2>1, Constants DEF ConstantAssumptions, Clock
  <2> QED BY <1>2, <2>1, <2>2 DEF AfterFailure, Row, Status
<1> QED BY <1>1, <1>2

LEMMA StatusType ==
  ASSUME NEW r \in Row, NEW s \in Status
  PROVE  [r EXCEPT !.status = s] \in Row
BY DEF Row

LEMMA CycleType ==
  ASSUME NEW c \in Cycle, NEW S, S \subseteq PlatformPosts,
         NEW T, T \subseteq PlatformPosts
  PROVE  /\ [c EXCEPT !.batch = S] \in Cycle
         /\ [c EXCEPT !.claimed = S] \in Cycle
         /\ [c EXCEPT !.retryQueue = S] \in Cycle
         /\ [c EXCEPT !.batch = S, !.claimed = T] \in Cycle
         /\ [c EXCEPT !.phase = "retries", !.retryQueue = S] \in Cycle
         /\ [IdleCycle EXCEPT !.phase = "groups", !.batch = S] \in Cycle
         /\ IdleCycle \in Cycle
BY DEF Cycle, IdleCycle

LEMMA SyncType ==
  ASSUME NEW x \in Posts, post \in [Posts -> PostRow],
         SyncPublishedAt(x) \/ SyncScheduledAt(x)
  PROVE  post' \in [Posts -> PostRow]
BY DEF SyncPublishedAt, SyncScheduledAt, PostRow

LEMMA ChildrenType == ASSUME NEW x PROVE Children(x) \subseteq PlatformPosts
BY DEF Children

-----------------------------------------------------------------------------

\* Every reachable state is well typed; in particular retry_count stays
\* within MAX_RETRIES whatever the interleaving.
LEMMA TypeInit == Init => TypeOK
<1> SUFFICES ASSUME Init PROVE TypeOK
  OBVIOUS
<1>1. now \in Clock /\ edits \in 0..MaxEdits
  BY Constants DEF Init, ConstantAssumptions, Clock
<1>2. row \in [PlatformPosts -> Row]
  BY NewRowType DEF Init, Status, OptClock
<1>3. post \in [Posts -> PostRow]
  BY DEF Init, PostRow, OptClock
<1>4. engine \in [Engines -> Cycle]
  BY DEF Init, Cycle, IdleCycle
<1>5. task \in [Engines -> [PlatformPosts -> TaskState]]
  BY DEF Init, TaskState
<1>6. /\ copy \in [Engines -> [PlatformPosts -> Row]]
      /\ request \in [Users -> [PlatformPosts -> Row]]
  BY NoRowType DEF Init
<1>7. /\ commented \subseteq PlatformPosts
      /\ abandoned \subseteq PlatformPosts
      /\ marked \subseteq PlatformPosts
      /\ live \in [PlatformPosts -> Nat]
      /\ tries \in [PlatformPosts -> Nat]
      /\ orders \in [PlatformPosts -> Nat]
      /\ reopened \in [PlatformPosts -> Nat]
      /\ erased \in [PlatformPosts -> Nat]
  BY DEF Init
<1>8. /\ loaded \in [Users -> [PlatformPosts -> PostRow]]
      /\ open \in [Users -> [PlatformPosts -> RequestStage]]
  BY DEF Init, NoPost, PostRow, OptClock, RequestStage
<1> QED BY <1>1, <1>2, <1>3, <1>4, <1>5, <1>6, <1>7, <1>8 DEF TypeOK

LEMMA TypeCycle ==
  ASSUME TypeOK, NEW e \in Engines, CycleStep(e) \/ Crash(e)
  PROVE  TypeOK'
<1>1. CASE Poll(e)
  <2>1. \A b \in DueBatches : b \subseteq PlatformPosts
    BY DEF DueBatches, Due
  <2>2. PICK b \in DueBatches :
          engine' = [engine EXCEPT ![e] = [IdleCycle EXCEPT !.phase = "groups", !.batch = b]]
    BY <1>1 DEF Poll
  <2>3. [IdleCycle EXCEPT !.phase = "groups", !.batch = b] \in Cycle
    BY <2>1 DEF IdleCycle, Cycle
  <2>4. engine' \in [Engines -> Cycle]
    BY <2>2, <2>3 DEF TypeOK
  <2> QED BY <1>1, <2>4 DEF Poll, TypeOK, dbVars, userVars, historyVars, countVars
<1>2. ASSUME NEW x \in Posts, ClaimGroup(e, x) PROVE TypeOK'
  <2> DEFINE mine == Claimable(e, x)
  <2>1. mine \subseteq PlatformPosts
    BY DEF Claimable, Children
  <2>2. engine' \in [Engines -> Cycle]
    <3>1. /\ engine[e] \in Cycle
          /\ engine[e].batch \ Children(x) \subseteq PlatformPosts
          /\ engine[e].claimed \cup mine \subseteq PlatformPosts
      BY <2>1 DEF TypeOK, Cycle
    <3> DEFINE waiting == engine[e].batch \ Children(x)
               claims == engine[e].claimed \cup mine
    <3>2. /\ [engine[e] EXCEPT !.batch = waiting] \in Cycle
          /\ [engine[e] EXCEPT !.batch = waiting, !.claimed = claims] \in Cycle
      BY <3>1, <2>1 DEF Cycle
    <3>3. \/ engine' = [engine EXCEPT ![e] = [engine[e] EXCEPT !.batch = waiting]]
          \/ engine' = [engine EXCEPT ![e] = [engine[e] EXCEPT !.batch = waiting,
                                                              !.claimed = claims]]
      BY <1>2 DEF ClaimGroup
    <3>4. engine \in [Engines -> Cycle]
      BY DEF TypeOK
    <3> HIDE DEF waiting, claims
    <3> QED BY <3>2, <3>3, <3>4
  <2>3. row' \in [PlatformPosts -> Row]
    <3>1. \A p \in PlatformPosts : [row[p] EXCEPT !.status = "publishing"] \in Row
      BY StatusType DEF TypeOK, Status
    <3>2. row \in [PlatformPosts -> Row]
      BY DEF TypeOK
    <3> QED BY <1>2, <3>1, <3>2 DEF ClaimGroup
  <2>4. copy' \in [Engines -> [PlatformPosts -> Row]]
    <3>1. row \in [PlatformPosts -> Row] /\ copy \in [Engines -> [PlatformPosts -> Row]]
      BY DEF TypeOK
    <3>2. [p \in PlatformPosts |-> IF p \in mine THEN row[p] ELSE copy[e][p]]
            \in [PlatformPosts -> Row]
      BY <3>1
    <3>3. \/ copy' = copy
          \/ copy' = [copy EXCEPT ![e] =
                        [p \in PlatformPosts |-> IF p \in mine THEN row[p] ELSE copy[e][p]]]
      BY <1>2, <3>1 DEF ClaimGroup
    <3> QED BY <3>1, <3>2, <3>3
  <2>5. task' \in [Engines -> [PlatformPosts -> TaskState]]
    <3>1. task \in [Engines -> [PlatformPosts -> TaskState]]
      BY DEF TypeOK
    <3>2. [p \in PlatformPosts |-> IF p \in mine THEN "claimed" ELSE task[e][p]]
            \in [PlatformPosts -> TaskState]
      BY <3>1 DEF TaskState
    <3>3. \/ task' = task
          \/ task' = [task EXCEPT ![e] =
                        [p \in PlatformPosts |-> IF p \in mine THEN "claimed" ELSE task[e][p]]]
      BY <1>2, <3>1 DEF ClaimGroup
    <3> QED BY <3>1, <3>2, <3>3
  <2>6. abandoned' \subseteq PlatformPosts
    BY <1>2 DEF ClaimGroup, TypeOK
  <2> QED BY <1>2, <2>2, <2>3, <2>4, <2>5, <2>6 DEF ClaimGroup, TypeOK, userVars, countVars
<1>3. ASSUME NEW x \in Posts, FinishGroup(e, x) PROVE TypeOK'
  <2>1. post' \in [Posts -> PostRow]
    BY <1>3, SyncType DEF FinishGroup, TypeOK
  <2>2. engine' \in [Engines -> Cycle]
    <3>1. /\ engine[e] \in Cycle
          /\ engine[e].claimed \ (Children(x) \cap engine[e].claimed) \subseteq PlatformPosts
      BY DEF TypeOK, Cycle
    <3> QED BY <1>3, <3>1, CycleType DEF FinishGroup, TypeOK
  <2>3. commented' \subseteq PlatformPosts
    BY <1>3, ChildrenType DEF FinishGroup, TypeOK
  <2> QED BY <1>3, <2>1, <2>2, <2>3 DEF FinishGroup, TypeOK, userVars, countVars
<1>4. CASE StartRetries(e)
  <2>1. DueRetries \subseteq PlatformPosts
    BY DEF DueRetries
  <2>2. engine' \in [Engines -> Cycle]
    BY <1>4, <2>1, CycleType DEF StartRetries, TypeOK
  <2>3. copy' \in [Engines -> [PlatformPosts -> Row]]
    BY <1>4, NoRowType DEF StartRetries, TypeOK
  <2> QED BY <1>4, <2>2, <2>3 DEF StartRetries, TypeOK, dbVars, userVars, historyVars, countVars
<1>5. CASE EndCycle(e)
  <2>1. engine' \in [Engines -> Cycle]
    BY <1>5, CycleType DEF EndCycle, TypeOK
  <2> QED BY <1>5, <2>1 DEF EndCycle, TypeOK, dbVars, userVars, historyVars, countVars
<1>6. CASE Crash(e)
  <2>1. engine' \in [Engines -> Cycle]
    BY <1>6, CycleType DEF Crash, TypeOK
  <2>2. /\ task' \in [Engines -> [PlatformPosts -> TaskState]]
        /\ copy' \in [Engines -> [PlatformPosts -> Row]]
    BY <1>6, NoRowType DEF Crash, TypeOK, TaskState
  <2> QED BY <1>6, <2>1, <2>2 DEF Crash, TypeOK, dbVars, userVars, historyVars, countVars
<1> QED BY <1>1, <1>2, <1>3, <1>4, <1>5, <1>6 DEF CycleStep

LEMMA RowUpdateType ==
  ASSUME NEW f \in [PlatformPosts -> Row], NEW p \in PlatformPosts, NEW r \in Row
  PROVE  [f EXCEPT ![p] = r] \in [PlatformPosts -> Row]
OBVIOUS

LEMMA ConcludeType ==
  ASSUME TypeOK, NEW e \in Engines, NEW p \in PlatformPosts, Conclude(e, p)
  PROVE  /\ task' \in [Engines -> [PlatformPosts -> TaskState]]
         /\ copy' \in [Engines -> [PlatformPosts -> Row]]
<1>1. /\ task \in [Engines -> [PlatformPosts -> TaskState]]
      /\ copy \in [Engines -> [PlatformPosts -> Row]]
  BY DEF TypeOK
<1> QED BY <1>1, NoRowType DEF Conclude, TaskState

LEMMA TypeThread ==
  ASSUME TypeOK, NEW e \in Engines, NEW p \in PlatformPosts, ThreadStep(e, p)
  PROVE  TypeOK'
<1>0. /\ now \in Clock
      /\ row \in [PlatformPosts -> Row]
      /\ engine \in [Engines -> Cycle]
      /\ task \in [Engines -> [PlatformPosts -> TaskState]]
      /\ copy \in [Engines -> [PlatformPosts -> Row]]
      /\ live \in [PlatformPosts -> Nat]
      /\ tries \in [PlatformPosts -> Nat]
      /\ copy[e][p] \in Row
      /\ row[p] \in Row
      /\ PostOf[p] \in Posts
  BY Constants DEF TypeOK, ConstantAssumptions
<1>1. CASE Dispatch(e, p)
  <2>1. task' \in [Engines -> [PlatformPosts -> TaskState]]
    BY <1>0, <1>1 DEF Dispatch, Outcomes, TaskState
  <2>2. live' \in [PlatformPosts -> Nat] /\ tries' \in [PlatformPosts -> Nat]
    BY <1>0, <1>1 DEF Dispatch
  <2> QED BY <1>1, <2>1, <2>2 DEF Dispatch, TypeOK, dbVars, userVars, countVars
<1>2. CASE SaveSuccess(e, p)
  <2> DEFINE done == [copy[e][p] EXCEPT !.status = "published", !.publishedAt = now]
  <2>1. done \in Row
    BY <1>0 DEF Row, Status, OptClock
  <2>2. /\ row' \in [PlatformPosts -> Row]
        /\ copy' \in [Engines -> [PlatformPosts -> Row]]
    <3> HIDE DEF done
    <3>1. row' = [row EXCEPT ![p] = done] /\ copy' = [copy EXCEPT ![e][p] = done]
      BY <1>2 DEF SaveSuccess, done
    <3> QED BY <1>0, <2>1, <3>1
  <2>3. task' \in [Engines -> [PlatformPosts -> TaskState]]
    BY <1>0, <1>2 DEF SaveSuccess, TaskState
  <2> QED BY <1>2, <2>2, <2>3 DEF SaveSuccess, TypeOK, userVars, historyVars, countVars
<1>3. CASE LogSuccess(e, p)
  <2>1. post' \in [Posts -> PostRow]
    BY <1>0, <1>3, SyncType DEF LogSuccess, TypeOK
  <2> QED BY <1>3, <2>1, ConcludeType DEF LogSuccess, TypeOK, userVars, historyVars, countVars
<1>4. CASE LogSuccessFails(e, p) \/ ScheduleRetry(e, p)
  <2>1. row' \in [PlatformPosts -> Row]
    <3>1. AfterFailure(copy[e][p]) \in Row
      BY <1>0, AfterFailureType
    <3>2. row' = [row EXCEPT ![p] = AfterFailure(copy[e][p])]
      BY <1>4 DEF LogSuccessFails, ScheduleRetry
    <3> QED BY <1>0, <3>1, <3>2
  <2>2. Conclude(e, p)
    BY <1>4 DEF LogSuccessFails, ScheduleRetry
  <2> QED BY <1>4, <2>1, <2>2, ConcludeType
          DEF LogSuccessFails, ScheduleRetry, TypeOK, userVars, historyVars, countVars
<1>5. CASE FailPermanently(e, p)
  <2>1. [copy[e][p] EXCEPT !.status = "failed"] \in Row
    BY <1>0 DEF Row, Status
  <2>2. row' \in [PlatformPosts -> Row]
    BY <1>0, <1>5, <2>1 DEF FailPermanently
  <2> QED BY <1>5, <2>2, ConcludeType DEF FailPermanently, TypeOK, userVars, historyVars, countVars
<1>6. CASE RetryCheck(e, p)
  <2>1. /\ engine[e] \in Cycle
        /\ engine[e].retryQueue \ {p} \subseteq PlatformPosts
    BY <1>0 DEF Cycle
  <2>2. engine' \in [Engines -> Cycle]
    BY <1>0, <1>6, <2>1 DEF RetryCheck, Cycle
  <2>3. /\ task' \in [Engines -> [PlatformPosts -> TaskState]]
        /\ copy' \in [Engines -> [PlatformPosts -> Row]]
    <3> DEFINE dropped == [copy[e] EXCEPT ![p] = NoRow]
               cleared == [task[e] EXCEPT ![p] = "cleared"]
    <3>1. dropped \in [PlatformPosts -> Row] /\ cleared \in [PlatformPosts -> TaskState]
      BY <1>0, NoRowType DEF TaskState
    <3>2. /\ copy' = copy \/ copy' = [copy EXCEPT ![e] = dropped]
          /\ task' = task \/ task' = [task EXCEPT ![e] = cleared]
      BY <1>6 DEF RetryCheck
    <3> HIDE DEF dropped, cleared
    <3> QED BY <1>0, <3>1, <3>2
  <2> QED BY <1>6, <2>2, <2>3 DEF RetryCheck, TypeOK, dbVars, userVars, historyVars, countVars
<1>7. CASE RetryClaim(e, p)
  <2>1. row' \in [PlatformPosts -> Row]
    BY <1>0, <1>7 DEF RetryClaim, Row, Status
  <2>2. copy' \in [Engines -> [PlatformPosts -> Row]]
    <3> DEFINE r == [copy[e][p] EXCEPT !.status = "publishing"]
               mine == [copy[e] EXCEPT ![p] = r]
    <3>1. mine \in [PlatformPosts -> Row]
      BY <1>0, StatusType DEF Status
    <3>2. copy' = [copy EXCEPT ![e] = mine]
      BY <1>7 DEF RetryClaim
    <3> HIDE DEF mine
    <3> QED BY <1>0, <3>1, <3>2
  <2>3. task' \in [Engines -> [PlatformPosts -> TaskState]]
    BY <1>0, <1>7 DEF RetryClaim, TaskState
  <2>4. abandoned' \subseteq PlatformPosts
    BY <1>7 DEF RetryClaim, TypeOK
  <2> QED BY <1>7, <2>1, <2>2, <2>3, <2>4 DEF RetryClaim, TypeOK, userVars, countVars
<1>8. CASE ErrorLogFails(e, p)
  <2>1. abandoned' \subseteq PlatformPosts /\ Conclude(e, p)
    BY <1>8 DEF ErrorLogFails, TypeOK
  <2> QED BY <1>8, <2>1, ConcludeType DEF ErrorLogFails, TypeOK, dbVars, userVars, countVars
<1> QED BY <1>1, <1>2, <1>3, <1>4, <1>5, <1>6, <1>7, <1>8 DEF ThreadStep

LEMMA SpreadType ==
  ASSUME NEW r \in Row, NEW t \in OptClock
  PROVE  Spread(r, t) \in Row /\ Spread(r, t).status = r.status
BY DEF Spread, Row

LEMMA MovedType ==
  ASSUME NEW r \in Row, NEW read \in Row
  PROVE  /\ Moved(r, read) \in Row
         /\ Moved(r, read).status \in {r.status, "scheduled"}
         /\ Moved(r, read).retryCount = r.retryCount
BY DEF Moved, Row, Status

LEMMA RequestUpdateType ==
  ASSUME NEW S, NEW f \in [Users -> [PlatformPosts -> S]],
         NEW u \in Users, NEW p \in PlatformPosts, NEW v \in S
  PROVE  [f EXCEPT ![u][p] = v] \in [Users -> [PlatformPosts -> S]]
OBVIOUS

RequestsTyped ==
  /\ request \in [Users -> [PlatformPosts -> Row]]
  /\ loaded \in [Users -> [PlatformPosts -> PostRow]]
  /\ open \in [Users -> [PlatformPosts -> RequestStage]]
  /\ edits \in 0..MaxEdits

LEMMA CloseType ==
  ASSUME TypeOK, NEW u \in Users, NEW p \in PlatformPosts, Close(u, p)
  PROVE  RequestsTyped'
<1>1. NoPost \in PostRow /\ "none" \in RequestStage
  BY DEF NoPost, PostRow, OptClock, RequestStage
<1> QED BY <1>1, NoRowType, RequestUpdateType DEF Close, TypeOK, RequestsTyped

LEMMA ServedType ==
  ASSUME TypeOK, NEW kind, NEW u \in Users, NEW p \in PlatformPosts, Served(kind, u, p)
  PROVE  RequestsTyped' /\ Counted(u, p)
<1>1. CASE AtomicRequests
  BY <1>1, Constants DEF Served, TypeOK, RequestsTyped, ConstantAssumptions
<1>2. CASE ~AtomicRequests
  BY <1>2, CloseType DEF Served
<1> QED BY <1>1, <1>2 DEF Served

LEMMA CountedType ==
  ASSUME TypeOK, NEW u \in Users, NEW p \in PlatformPosts, Counted(u, p),
         row' \in [PlatformPosts -> Row], post' \in [Posts -> PostRow], RequestsTyped',
         abandoned' \subseteq PlatformPosts, marked' \subseteq PlatformPosts
  PROVE  TypeOK'
<1> DEFINE lost == row[p].retryCount - row'[p].retryCount
<1>0. /\ orders \in [PlatformPosts -> Nat]
      /\ reopened \in [PlatformPosts -> Nat]
      /\ erased \in [PlatformPosts -> Nat]
      /\ lost \in Int
  BY Constants DEF TypeOK, Row, ConstantAssumptions
<1>1. orders' \in [PlatformPosts -> Nat] /\ reopened' \in [PlatformPosts -> Nat]
  BY <1>0 DEF Counted
<1>2. erased' \in [PlatformPosts -> Nat]
  <2>1. erased' = [erased EXCEPT ![p] = IF lost > 0 THEN erased[p] + lost ELSE erased[p]]
    BY <1>0 DEF Counted
  <2> HIDE DEF lost
  <2> QED BY <1>0, <2>1
<1> QED BY <1>1, <1>2 DEF Counted, TypeOK, RequestsTyped, engineVars

LEMMA StrandsType ==
  ASSUME TypeOK, NEW p \in PlatformPosts, Strands(p)
  PROVE  abandoned' \subseteq PlatformPosts
BY DEF Strands, TypeOK

\* What a web request writes: one row, of which the engine's processes, the
\* platform and the rows called published by hand know nothing or more.
LEMMA UserRow ==
  ASSUME TypeOK, NEW u \in Users, NEW p \in PlatformPosts, UserStep(u, p)
  PROVE  /\ row' \in [PlatformPosts -> Row]
         /\ \A q \in PlatformPosts : q # p => row'[q] = row[q]
         /\ abandoned' \subseteq PlatformPosts /\ abandoned \subseteq abandoned'
         /\ marked' \subseteq PlatformPosts /\ marked \subseteq marked'
         /\ UNCHANGED <<now, engineVars, live, tries, commented>>
<1>0. /\ now \in OptClock /\ now \in Clock
      /\ row \in [PlatformPosts -> Row]
      /\ row[p] \in Row
      /\ request[u][p] \in Row
      /\ Seen(u, p) \in Row
      /\ abandoned \subseteq PlatformPosts
      /\ marked \subseteq PlatformPosts
  BY DEF TypeOK, Seen, OptClock
<1>1. CASE OpenRequest(u, p)
  BY <1>0, <1>1 DEF OpenRequest, dbVars, historyVars, countVars
<1>2. ASSUME NEW r \in Row, row' = [row EXCEPT ![p] = r], Counted(u, p),
             marked' \in {marked, marked \cup {p}},
             abandoned' = abandoned \/ Strands(p)
      PROVE  /\ row' \in [PlatformPosts -> Row]
             /\ \A q \in PlatformPosts : q # p => row'[q] = row[q]
             /\ abandoned' \subseteq PlatformPosts /\ abandoned \subseteq abandoned'
             /\ marked' \subseteq PlatformPosts /\ marked \subseteq marked'
             /\ UNCHANGED <<now, engineVars, live, tries, commented>>
  BY <1>0, <1>2 DEF Counted, Strands
<1>3. ASSUME NEW t \in Clock, Schedule(u, p, t) PROVE UNCHANGED <<abandoned, marked>> /\
         \E r \in Row : row' = [row EXCEPT ![p] = r] /\ Counted(u, p)
  <2> DEFINE r == [row[p] EXCEPT !.status = "scheduled", !.scheduledAt = t]
  <2>1. r \in Row
    BY <1>0 DEF Row, Status, OptClock
  <2>2. row' = [row EXCEPT ![p] = r]
    BY <1>0, <1>3 DEF Schedule
  <2> QED BY <1>3, <2>1, <2>2 DEF Schedule, Served
<1>4. ASSUME NEW t \in Clock, Reschedule(u, p, t) PROVE UNCHANGED <<abandoned, marked>> /\
         \E r \in Row : row' = [row EXCEPT ![p] = r] /\ Counted(u, p)
  <2> DEFINE target == IF Seen(u, p).status = "draft" THEN "scheduled" ELSE Seen(u, p).status
             r == [row[p] EXCEPT !.status = target, !.scheduledAt = t]
  <2>1. r \in Row
    BY <1>0 DEF Row, Status, OptClock
  <2>2. row' = [row EXCEPT ![p] = r]
    BY <1>0, <1>4 DEF Reschedule
  <2> QED BY <1>4, <2>1, <2>2 DEF Reschedule, Served
<1>5. CASE Cancel(u, p)
  <2> DEFINE t == IF Seen(u, p).scheduledAt # NoTime THEN NoTime ELSE row[p].scheduledAt
             r == [row[p] EXCEPT !.status = "draft", !.scheduledAt = t]
  <2>1. r \in Row
    BY <1>0 DEF Row, Status, OptClock
  <2>2. row' = [row EXCEPT ![p] = r]
    BY <1>0, <1>5 DEF Cancel
  <2>3. Counted(u, p) /\ UNCHANGED <<abandoned, marked>>
    BY <1>5 DEF Cancel, Served
  <2> HIDE DEF r
  <2> QED BY <1>2, <2>1, <2>2, <2>3
<1>6. ASSUME NEW from, NEW to \in Status, ChangeHold(u, p, from, to)
      PROVE  UNCHANGED <<abandoned, marked>> /\
             \E r \in Row : row' = [row EXCEPT ![p] = r] /\ Counted(u, p)
  <2> DEFINE r == [row[p] EXCEPT !.status = to, !.publishedAt = Seen(u, p).publishedAt]
  <2>1. r \in Row
    BY <1>0 DEF Row
  <2>2. row' = [row EXCEPT ![p] = r]
    BY <1>0, <1>6 DEF ChangeHold
  <2> QED BY <1>6, <2>1, <2>2 DEF ChangeHold, Served
<1>7. ASSUME NEW target \in Status, ChipTransition(u, p, target)
      PROVE  \E r \in Row : row' = [row EXCEPT ![p] = r] /\ Counted(u, p) /\ Strands(p)
                            /\ marked' \in {marked, marked \cup {p}}
  <2> DEFINE at == IF target = "published" THEN now ELSE Seen(u, p).publishedAt
             r == [row[p] EXCEPT !.status = target, !.publishedAt = at]
  <2>1. r \in Row
    BY <1>0 DEF Row
  <2>2. row' = [row EXCEPT ![p] = r]
    BY <1>0, <1>7 DEF ChipTransition
  <2>3. Counted(u, p) /\ Strands(p) /\ marked' \in {marked, marked \cup {p}}
    BY <1>7 DEF ChipTransition, Served
  <2> HIDE DEF r
  <2> QED BY <2>1, <2>2, <2>3
<1>8. ASSUME NEW t \in Clock, ComposeAtOnce(u, p, t)
      PROVE  UNCHANGED <<abandoned, marked>> /\
             \E r \in Row : row' = [row EXCEPT ![p] = r] /\ Counted(u, p)
  <2> DEFINE r == Moved(Spread(row[p], t), row[p])
  <2>1. r \in Row
    BY <1>0, SpreadType, MovedType DEF OptClock
  <2>2. row' = [row EXCEPT ![p] = r]
    BY <1>8 DEF ComposeAtOnce
  <2>3. Counted(u, p) /\ UNCHANGED <<abandoned, marked>>
    BY <1>8 DEF ComposeAtOnce, Served
  <2> HIDE DEF r
  <2> QED BY <2>1, <2>2, <2>3
<1>9. ASSUME WriteBack(u, p)
      PROVE  row' = [row EXCEPT ![p] = request[u][p]] /\ Counted(u, p) /\ Strands(p)
             /\ marked' = marked
  BY <1>9 DEF WriteBack
<1>10. CASE ComposeSpread(u, p)
  <2> DEFINE r == Spread(row[p], request[u][p].scheduledAt)
  <2>1. r \in Row
    BY <1>0, SpreadType DEF Row
  <2>2. row' = [row EXCEPT ![p] = r]
    BY <1>10 DEF ComposeSpread
  <2>3. UNCHANGED <<now, engineVars, historyVars>>
    BY <1>10 DEF ComposeSpread
  <2> HIDE DEF r
  <2> QED BY <1>0, <2>1, <2>2, <2>3 DEF historyVars, countVars
<1>11. CASE ComposeRead(u, p)
  BY <1>0, <1>11 DEF ComposeRead, dbVars, historyVars, countVars
<1>12. CASE ComposeMove(u, p)
  <2> DEFINE r == Moved(row[p], request[u][p])
  <2>1. r \in Row
    BY <1>0, MovedType
  <2>2. row' = [row EXCEPT ![p] = r]
    BY <1>12 DEF ComposeMove
  <2>3. Counted(u, p) /\ UNCHANGED <<abandoned, marked>>
    BY <1>12 DEF ComposeMove
  <2> HIDE DEF r
  <2> QED BY <1>2, <2>1, <2>2, <2>3
<1>13. {"approved", "on_hold"} \subseteq Status
  BY DEF Status
<1>14. CASE SaveDraft(u, p)
  BY <1>0, <1>2, <1>9, <1>14 DEF SaveDraft
<1>15. ASSUME NEW t \in Clock, ComposeSync(u, p, t) PROVE WriteBack(u, p)
  BY <1>15 DEF ComposeSync
<1>16. CASE \E t \in Clock : ComposeSync(u, p, t)
  BY <1>0, <1>2, <1>9, <1>15, <1>16
<1>17. CASE RequestHold(u, p) \/ ResumeHold(u, p)
  BY <1>2, <1>6, <1>13, <1>17 DEF RequestHold, ResumeHold
<1>18. CASE \E target \in Status : ChipTransition(u, p, target)
  BY <1>2, <1>7, <1>18
<1>19. CASE \E t \in Clock : Schedule(u, p, t) \/ Reschedule(u, p, t) \/ ComposeAtOnce(u, p, t)
  BY <1>2, <1>3, <1>4, <1>8, <1>19
<1> QED BY <1>1, <1>5, <1>10, <1>11, <1>12, <1>14, <1>16, <1>17, <1>18, <1>19 DEF UserStep

LEMMA TypeUser ==
  ASSUME TypeOK, NEW u \in Users, NEW p \in PlatformPosts, UserStep(u, p)
  PROVE  TypeOK'
<1>0. /\ row' \in [PlatformPosts -> Row]
      /\ abandoned' \subseteq PlatformPosts
      /\ marked' \subseteq PlatformPosts
      /\ row[p] \in Row /\ request[u][p] \in Row
      /\ loaded[u][p] \in PostRow
      /\ post \in [Posts -> PostRow]
      /\ PostOf[p] \in Posts /\ post[PostOf[p]] \in PostRow
  BY UserRow, Constants DEF TypeOK, ConstantAssumptions
\* A request that ends.
<1>1. ASSUME NEW kind, Served(kind, u, p), post' \in [Posts -> PostRow] PROVE TypeOK'
  BY <1>0, <1>1, ServedType, CountedType
<1>2. CASE OpenRequest(u, p)
  <2>1. RequestsTyped'
    <3>1. edits' \in 0..MaxEdits
      BY <1>2, Constants DEF OpenRequest, TypeOK, ConstantAssumptions
    <3>2. "read" \in RequestStage
      BY DEF RequestStage
    <3> QED BY <1>0, <1>2, <3>1, <3>2, RequestUpdateType DEF OpenRequest, TypeOK, RequestsTyped
  <2> QED BY <1>2, <2>1 DEF OpenRequest, TypeOK, RequestsTyped, dbVars, engineVars,
                            historyVars, countVars
<1>3. ASSUME NEW t \in Clock, Schedule(u, p, t) \/ Reschedule(u, p, t) PROVE TypeOK'
  <2>1. post' \in [Posts -> PostRow]
    BY <1>0, <1>3, SyncType DEF Schedule, Reschedule
  <2> QED BY <1>1, <1>3, <2>1 DEF Schedule, Reschedule
<1>4. ASSUME NEW t \in Clock, ComposeAtOnce(u, p, t) PROVE TypeOK'
  <2>1. post' \in [Posts -> PostRow]
    BY <1>0, <1>4 DEF ComposeAtOnce, PostRow, OptClock
  <2> QED BY <1>1, <1>4, <2>1 DEF ComposeAtOnce
<1>5. CASE Cancel(u, p)
  <2>1. post' \in [Posts -> PostRow]
    BY <1>0, <1>5, SyncType DEF Cancel
  <2> QED BY <1>1, <1>5, <2>1 DEF Cancel
<1>6. ASSUME NEW from, NEW to, ChangeHold(u, p, from, to) PROVE TypeOK'
  BY <1>0, <1>1, <1>6 DEF ChangeHold
<1>7. ASSUME NEW target \in Status, ChipTransition(u, p, target) PROVE TypeOK'
  BY <1>0, <1>1, <1>7 DEF ChipTransition
<1>8. CASE SaveDraft(u, p)
  <2>1. post' \in [Posts -> PostRow]
    BY <1>0, <1>8 DEF SaveDraft
  <2>2. Counted(u, p) /\ RequestsTyped'
    BY <1>8, CloseType DEF SaveDraft, WriteBack
  <2> QED BY <1>0, <2>1, <2>2, CountedType
<1>9. ASSUME NEW t \in Clock, ComposeSync(u, p, t) PROVE TypeOK'
  <2>1. post' \in [Posts -> PostRow]
    BY <1>0, <1>9 DEF ComposeSync, PostRow, OptClock
  <2>2. RequestsTyped'
    <3>1. /\ NewRow("draft", t) \in Row /\ NoPost \in PostRow
          /\ "written" \in RequestStage
      BY NewRowType DEF Status, OptClock, NoPost, PostRow, RequestStage
    <3> QED BY <1>9, <3>1, RequestUpdateType DEF ComposeSync, TypeOK, RequestsTyped
  <2>3. Counted(u, p)
    BY <1>9 DEF ComposeSync, WriteBack
  <2> QED BY <1>0, <2>1, <2>2, <2>3, CountedType
<1>10. CASE ComposeSpread(u, p)
  <2>1. RequestsTyped'
    <3>1. "spread" \in RequestStage
      BY DEF RequestStage
    <3> QED BY <1>10, <3>1, NoRowType, RequestUpdateType DEF ComposeSpread, TypeOK, RequestsTyped
  <2> QED BY <1>0, <1>10, <2>1 DEF ComposeSpread, TypeOK, RequestsTyped, engineVars,
                                   historyVars, countVars
<1>11. CASE ComposeRead(u, p)
  <2>1. RequestsTyped'
    <3>1. "reread" \in RequestStage
      BY DEF RequestStage
    <3> QED BY <1>0, <1>11, <3>1, RequestUpdateType DEF ComposeRead, TypeOK, RequestsTyped
  <2> QED BY <1>11, <2>1 DEF ComposeRead, TypeOK, RequestsTyped, dbVars, engineVars,
                             historyVars, countVars
<1>12. CASE ComposeMove(u, p)
  <2>1. Counted(u, p) /\ RequestsTyped' /\ post' \in [Posts -> PostRow]
    BY <1>0, <1>12, CloseType DEF ComposeMove
  <2> QED BY <1>0, <2>1, CountedType
<1> QED BY <1>2, <1>3, <1>4, <1>5, <1>6, <1>7, <1>8, <1>9, <1>10, <1>11, <1>12
        DEF UserStep, RequestHold, ResumeHold

LEMMA TypeNext == TypeOK /\ [Next]_vars => TypeOK'
<1> SUFFICES ASSUME TypeOK, [Next]_vars PROVE TypeOK'
  OBVIOUS
<1>1. CASE Tick
  BY <1>1, Constants DEF Tick, TypeOK, Clock, ConstantAssumptions,
     dbVars, engineVars, userVars, historyVars, countVars
<1>2. CASE UNCHANGED vars
  BY <1>2 DEF vars, TypeOK, dbVars, engineVars, userVars, historyVars, countVars
<1> QED BY <1>1, <1>2, TypeCycle, TypeThread, TypeUser DEF Next

THEOREM TypeCorrect == Spec => []TypeOK
BY TypeInit, TypeNext, PTL DEF Spec

-----------------------------------------------------------------------------

\* PublishedIsLive is not inductive: the engine writes "published" one step
\* after the platform took the post, so the threads between the two must
\* carry the fact; and a composer save writes back the status it has read.
ConfirmedIsLive ==
  \A e \in Engines, p \in PlatformPosts :
    task[e][p] \in {"accepted", "saved"} => live[p] >= 1

ReadIsLive ==
  \A u \in Users, p \in PlatformPosts :
    request[u][p].status = "published" => live[p] >= 1 \/ p \in marked

LiveInv == TypeOK /\ PublishedIsLive /\ ConfirmedIsLive /\ ReadIsLive

LEMMA LiveInit == Init => LiveInv
<1> SUFFICES ASSUME Init PROVE PublishedIsLive /\ ConfirmedIsLive /\ ReadIsLive
  BY TypeInit DEF LiveInv
<1>1. PublishedIsLive
  BY DEF Init, PublishedIsLive, NewRow
<1>2. ConfirmedIsLive
  BY DEF Init, ConfirmedIsLive
<1>3. ReadIsLive
  BY DEF Init, ReadIsLive, NoRow, NewRow
<1> QED BY <1>1, <1>2, <1>3

LEMMA LiveCycle ==
  ASSUME LiveInv, NEW e \in Engines, CycleStep(e) \/ Crash(e)
  PROVE  (PublishedIsLive /\ ConfirmedIsLive /\ ReadIsLive)'
<1>0. /\ row \in [PlatformPosts -> Row]
      /\ task \in [Engines -> [PlatformPosts -> TaskState]]
      /\ live' = live /\ marked' = marked /\ request' = request
  BY DEF LiveInv, TypeOK, CycleStep, Crash, Poll, ClaimGroup, FinishGroup,
         StartRetries, EndCycle, userVars, historyVars, countVars
<1>1. \A p \in PlatformPosts : row'[p].status = "published" => row[p].status = "published"
  <2>1. CASE row' = row
    BY <2>1
  <2>2. ASSUME NEW x \in Posts, ClaimGroup(e, x), row' # row,
               NEW p \in PlatformPosts, row'[p].status = "published"
        PROVE  row[p].status = "published"
    <3>1. row'[p] = IF p \in Claimable(e, x) THEN [row[p] EXCEPT !.status = "publishing"]
                                             ELSE row[p]
      BY <2>2 DEF ClaimGroup
    <3>2. row[p] \in Row
      BY <1>0
    <3> QED BY <2>2, <3>1, <3>2 DEF Row
  <2> QED BY <2>1, <2>2 DEF CycleStep, Crash, Poll, FinishGroup, StartRetries, EndCycle, dbVars
<1>2. \A d \in Engines, p \in PlatformPosts :
        task'[d][p] \in {"accepted", "saved"} => task[d][p] = task'[d][p]
  <2>1. CASE task' = task
    BY <2>1
  <2>2. ASSUME NEW x \in Posts, ClaimGroup(e, x), task' # task
        PROVE  \A d \in Engines, p \in PlatformPosts :
                 task'[d][p] \in {"accepted", "saved"} => task[d][p] = task'[d][p]
    <3>1. task' = [task EXCEPT ![e] = [p \in PlatformPosts |->
                     IF p \in Claimable(e, x) THEN "claimed" ELSE task[e][p]]]
      BY <2>2 DEF ClaimGroup
    <3> QED BY <3>1, <1>0
  <2>3. CASE Crash(e)
    BY <2>3, <1>0 DEF Crash
  <2> QED BY <2>1, <2>2, <2>3 DEF CycleStep, Poll, FinishGroup, StartRetries, EndCycle
<1> QED BY <1>0, <1>1, <1>2 DEF LiveInv, PublishedIsLive, ConfirmedIsLive, ReadIsLive

LEMMA LiveThread ==
  ASSUME LiveInv, NEW e \in Engines, NEW p \in PlatformPosts, ThreadStep(e, p)
  PROVE  (PublishedIsLive /\ ConfirmedIsLive /\ ReadIsLive)'
<1>0. /\ now \in Clock
      /\ row \in [PlatformPosts -> Row]
      /\ task \in [Engines -> [PlatformPosts -> TaskState]]
      /\ copy[e][p] \in Row
      /\ live \in [PlatformPosts -> Nat]
      /\ PublishedIsLive /\ ConfirmedIsLive /\ ReadIsLive
      /\ marked' = marked /\ request' = request
  BY DEF LiveInv, TypeOK, ThreadStep, Dispatch, SaveSuccess, LogSuccess, LogSuccessFails,
         ErrorLogFails, ScheduleRetry, FailPermanently, RetryCheck, RetryClaim,
         userVars, historyVars, countVars
<1>1. CASE Dispatch(e, p)
  <2>1. /\ \A q \in PlatformPosts : live'[q] >= live[q] /\ (q # p => live'[q] = live[q])
        /\ task'[e][p] = "accepted" => live'[p] >= 1
        /\ \A d \in Engines, q \in PlatformPosts :
             <<d, q>> # <<e, p>> => task'[d][q] = task[d][q]
        /\ task'[e][p] # "saved"
        /\ row' = row
    BY <1>0, <1>1 DEF Dispatch, Outcomes, dbVars
  <2>2. live' \in [PlatformPosts -> Nat]
    BY <1>0, <1>1 DEF Dispatch
  <2> QED BY <1>0, <2>1, <2>2 DEF PublishedIsLive, ConfirmedIsLive, ReadIsLive
<1>2. CASE SaveSuccess(e, p)
  <2>1. live[p] >= 1
    BY <1>0, <1>2 DEF SaveSuccess, ConfirmedIsLive
  <2>2. /\ \A q \in PlatformPosts : q # p => row'[q] = row[q]
        /\ \A d \in Engines, q \in PlatformPosts :
             <<d, q>> # <<e, p>> => task'[d][q] = task[d][q]
        /\ live' = live
    BY <1>0, <1>2 DEF SaveSuccess, historyVars
  <2> QED BY <1>0, <2>1, <2>2 DEF PublishedIsLive, ConfirmedIsLive, ReadIsLive
<1>3. ASSUME live' = live,
             \A q \in PlatformPosts : q # p => row'[q] = row[q],
             row'[p].status # "published" \/ row'[p] = row[p],
             \A d \in Engines, q \in PlatformPosts :
               task'[d][q] \in {"accepted", "saved"} => task[d][q] = task'[d][q]
      PROVE  (PublishedIsLive /\ ConfirmedIsLive /\ ReadIsLive)'
  BY <1>0, <1>3 DEF PublishedIsLive, ConfirmedIsLive, ReadIsLive
<1>4. Conclude(e, p) => \A d \in Engines, q \in PlatformPosts :
        task'[d][q] \in {"accepted", "saved"} => task[d][q] = task'[d][q]
  BY <1>0 DEF Conclude
<1>5. CASE LogSuccess(e, p)
  BY <1>3, <1>4, <1>5 DEF LogSuccess, historyVars
<1>6. CASE LogSuccessFails(e, p) \/ ScheduleRetry(e, p)
  <2>1. AfterFailure(copy[e][p]).status # "published"
    BY <1>0, AfterFailureType
  <2>2. row' = [row EXCEPT ![p] = AfterFailure(copy[e][p])] /\ Conclude(e, p) /\ live' = live
    BY <1>6 DEF LogSuccessFails, ScheduleRetry, historyVars
  <2> QED BY <1>0, <1>3, <1>4, <2>1, <2>2
<1>7. CASE FailPermanently(e, p)
  <2>1. /\ row' = [row EXCEPT ![p] = [copy[e][p] EXCEPT !.status = "failed"]]
        /\ Conclude(e, p)
        /\ live' = live
    BY <1>7 DEF FailPermanently, historyVars
  <2>2. row'[p].status = "failed"
    BY <1>0, <2>1 DEF Row
  <2> QED BY <1>0, <1>3, <1>4, <2>1, <2>2
<1>8. CASE RetryCheck(e, p)
  <2>1. row' = row /\ live' = live
    BY <1>8 DEF RetryCheck, dbVars, historyVars
  <2>2. task' = task \/ task' = [task EXCEPT ![e][p] = "cleared"]
    BY <1>8 DEF RetryCheck
  <2> QED BY <1>0, <1>3, <2>1, <2>2
<1>9. CASE RetryClaim(e, p)
  <2>1. row'[p].status = "publishing" /\ live' = live
    BY <1>0, <1>9 DEF RetryClaim, Row
  <2> QED BY <1>0, <1>3, <1>9, <2>1 DEF RetryClaim
<1>10. CASE ErrorLogFails(e, p)
  BY <1>3, <1>4, <1>10 DEF ErrorLogFails, dbVars
<1> QED BY <1>1, <1>2, <1>5, <1>6, <1>7, <1>8, <1>9, <1>10 DEF ThreadStep

\* How a web request can bring a row, or what it has read of one, to
\* "published" or "publishing": from a row or a read that was there, or by hand.
LEMMA UserWrites ==
  ASSUME TypeOK, NEW u \in Users, NEW p \in PlatformPosts, UserStep(u, p)
  PROVE  /\ row'[p].status = "published" =>
              \/ row[p].status = "published"
              \/ request[u][p].status = "published"
              \/ p \in marked'
         /\ row'[p].status = "publishing" =>
              row[p].status = "publishing" \/ Owned(p) \/ p \in abandoned'
         /\ \A v \in Users, q \in PlatformPosts :
              request'[v][q].status = "published" =>
                \/ request[v][q].status = "published"
                \/ row[q].status = "published"
<1>0. /\ row \in [PlatformPosts -> Row]
      /\ request \in [Users -> [PlatformPosts -> Row]]
      /\ row[p] \in Row /\ request[u][p] \in Row /\ Seen(u, p) \in Row
      /\ marked \subseteq PlatformPosts
  BY DEF TypeOK, Seen
<1> DEFINE Reads == \A v \in Users, q \in PlatformPosts :
                      request'[v][q].status = "published" =>
                        \/ request[v][q].status = "published"
                        \/ row[q].status = "published"
           Writes == /\ row'[p].status = "published" =>
                          \/ row[p].status = "published"
                          \/ request[u][p].status = "published"
                          \/ p \in marked'
                     /\ row'[p].status = "publishing" =>
                          row[p].status = "publishing" \/ Owned(p) \/ p \in abandoned'
\* What it reads.
<1>1. ASSUME NEW r \in Row, request' = [request EXCEPT ![u][p] = r],
             r.status = "published" => row[p].status = "published"
      PROVE  Reads
  BY <1>0, <1>1
<1>2. Close(u, p) => Reads
  <2>1. NoRow.status # "published"
    BY DEF NoRow, NewRow
  <2> QED BY <1>1, <2>1, NoRowType DEF Close
<1>3. ASSUME NEW kind, Served(kind, u, p) PROVE Reads
  BY <1>0, <1>2, <1>3 DEF Served
\* What it writes.
<1>4. Strands(p) => (row'[p].status = "publishing" => Owned(p) \/ p \in abandoned')
  BY DEF Strands
<1>5. ASSUME WriteBack(u, p) PROVE Writes
  <2>1. row'[p] = request[u][p] /\ Strands(p)
    BY <1>0, <1>5 DEF WriteBack
  <2> QED BY <1>4, <2>1
<1>6. CASE OpenRequest(u, p)
  BY <1>0, <1>1, <1>6 DEF OpenRequest, dbVars
<1>7. ASSUME NEW t \in Clock, Schedule(u, p, t) PROVE Writes /\ Reads
  <2>1. row'[p].status = "scheduled"
    BY <1>0, <1>7 DEF Schedule, Row
  <2> QED BY <1>3, <1>7, <2>1 DEF Schedule
<1>8. ASSUME NEW t \in Clock, Reschedule(u, p, t) PROVE Writes /\ Reads
  <2>1. row'[p].status \in {"draft", "approved", "scheduled"}
    BY <1>0, <1>8 DEF Reschedule, Row
  <2> QED BY <1>3, <1>8, <2>1 DEF Reschedule
<1>9. ASSUME NEW t \in Clock, ComposeAtOnce(u, p, t) PROVE Writes /\ Reads
  <2>1. row'[p] = Moved(Spread(row[p], t), row[p])
    BY <1>0, <1>9 DEF ComposeAtOnce
  <2>2. row'[p].status \in {row[p].status, "scheduled"}
    BY <1>0, <2>1, SpreadType, MovedType DEF OptClock
  <2> QED BY <1>3, <1>9, <2>2 DEF ComposeAtOnce
<1>10. CASE Cancel(u, p)
  <2>1. row'[p].status = "draft"
    BY <1>0, <1>10 DEF Cancel, Row
  <2> QED BY <1>3, <1>10, <2>1 DEF Cancel
<1>11. CASE RequestHold(u, p) \/ ResumeHold(u, p)
  <2>1. row'[p].status \in {"on_hold", "approved"}
    BY <1>0, <1>11 DEF RequestHold, ResumeHold, ChangeHold, Row
  <2> QED BY <1>3, <1>11, <2>1 DEF RequestHold, ResumeHold, ChangeHold
<1>12. ASSUME NEW target \in Status, ChipTransition(u, p, target) PROVE Writes /\ Reads
  <2>1. row'[p].status = target
    BY <1>0, <1>12 DEF ChipTransition, Row
  <2>2. target = "published" => p \in marked'
    BY <1>12 DEF ChipTransition
  <2> QED BY <1>3, <1>4, <1>12, <2>1, <2>2 DEF ChipTransition
<1>13. CASE SaveDraft(u, p)
  BY <1>2, <1>5, <1>13 DEF SaveDraft
<1>14. ASSUME NEW t \in Clock, ComposeSync(u, p, t) PROVE Writes /\ Reads
  <2>1. NewRow("draft", t) \in Row /\ NewRow("draft", t).status # "published"
    BY NewRowType DEF NewRow, Status, OptClock
  <2> QED BY <1>1, <1>5, <1>14, <2>1 DEF ComposeSync
<1>15. CASE ComposeSpread(u, p)
  <2>1. row'[p] = Spread(row[p], request[u][p].scheduledAt)
    BY <1>0, <1>15 DEF ComposeSpread
  <2>2. row'[p].status = row[p].status
    BY <1>0, <2>1, SpreadType DEF Row
  <2>3. NoRow.status # "published"
    BY DEF NoRow, NewRow
  <2> QED BY <1>1, <1>15, <2>2, <2>3, NoRowType DEF ComposeSpread
<1>16. CASE ComposeRead(u, p)
  BY <1>0, <1>1, <1>16 DEF ComposeRead, dbVars
<1>17. CASE ComposeMove(u, p)
  <2>1. row'[p].status \in {row[p].status, "scheduled"}
    BY <1>0, <1>17, MovedType DEF ComposeMove
  <2> QED BY <1>2, <1>17, <2>1 DEF ComposeMove
<1> QED BY <1>6, <1>7, <1>8, <1>9, <1>10, <1>11, <1>12, <1>13, <1>14, <1>15, <1>16, <1>17
        DEF UserStep

LEMMA LiveUser ==
  ASSUME LiveInv, NEW u \in Users, NEW p \in PlatformPosts, UserStep(u, p)
  PROVE  PublishedIsLive' /\ ConfirmedIsLive' /\ ReadIsLive'
<1>0. /\ TypeOK /\ PublishedIsLive /\ ConfirmedIsLive /\ ReadIsLive
      /\ live' = live /\ task' = task /\ marked \subseteq marked'
      /\ \A q \in PlatformPosts : q # p => row'[q] = row[q]
  BY UserRow DEF LiveInv, engineVars
<1>1. PublishedIsLive'
  BY <1>0, UserWrites DEF PublishedIsLive, ReadIsLive
<1>2. ReadIsLive'
  BY <1>0, UserWrites DEF PublishedIsLive, ReadIsLive
<1> QED BY <1>0, <1>1, <1>2 DEF ConfirmedIsLive

LEMMA LiveNext == LiveInv /\ [Next]_vars => LiveInv'
<1> SUFFICES ASSUME LiveInv, [Next]_vars PROVE (PublishedIsLive /\ ConfirmedIsLive /\ ReadIsLive)'
  BY TypeNext DEF LiveInv
<1>1. CASE Tick \/ UNCHANGED vars
  BY <1>1 DEF Tick, vars, LiveInv, PublishedIsLive, ConfirmedIsLive, ReadIsLive,
     dbVars, engineVars, userVars, historyVars, countVars
<1> QED BY <1>1, LiveCycle, LiveThread, LiveUser DEF Next

\* Whatever the number of processes and of requests, the interleaving of stale
\* reads and whole-row writes, and the faults: a row saved as "published" is on
\* its platform, or a user has called it published by hand.
THEOREM PublicationsAreReal == Spec => []PublishedIsLive
<1>1. LiveInv => PublishedIsLive
  BY DEF LiveInv
<1> QED BY <1>1, LiveInit, LiveNext, PTL DEF Spec

-----------------------------------------------------------------------------

\* Without crashes PublishingIsOwned is inductive given the types: an engine
\* writes "publishing" when it claims, and the thread that claimed the row
\* writes another status before it lets go of it, or leaves it behind because
\* it cannot log its error.
OwnedInv == TypeOK /\ PublishingIsOwned

\* The last step of each case below: the rows in "publishing" were so before,
\* apart from those taken or left by this step, and no owner of one has let go.
LEMMA StillOwned ==
  ASSUME PublishingIsOwned,
         \A p \in PlatformPosts : row'[p].status = "publishing" =>
            \/ \E e \in Engines : task'[e][p] \in Working
            \/ p \in abandoned'
            \/ /\ row[p].status = "publishing"
               /\ p \in abandoned => p \in abandoned'
               /\ \A e \in Engines : task[e][p] \in Working => task'[e][p] \in Working
  PROVE  PublishingIsOwned'
BY DEF PublishingIsOwned, Owned

LEMMA OwnedInit == Init => OwnedInv
<1> SUFFICES ASSUME Init PROVE PublishingIsOwned
  BY TypeInit DEF OwnedInv
<1> QED BY DEF Init, PublishingIsOwned, NewRow

LEMMA OwnedCycle ==
  ASSUME OwnedInv, NEW e \in Engines, CycleStep(e)
  PROVE  PublishingIsOwned'
<1>0. /\ row \in [PlatformPosts -> Row]
      /\ task \in [Engines -> [PlatformPosts -> TaskState]]
      /\ PublishingIsOwned
  BY DEF OwnedInv, TypeOK
<1>1. CASE row' = row /\ task' = task /\ abandoned' = abandoned
  BY <1>0, <1>1 DEF PublishingIsOwned, Owned
<1>2. ASSUME NEW x \in Posts, ClaimGroup(e, x),
             ~(row' = row /\ task' = task /\ abandoned' = abandoned)
      PROVE  PublishingIsOwned'
  <2> DEFINE mine == Claimable(e, x)
  <2>1. /\ row' = [p \in PlatformPosts |->
                     IF p \in mine THEN [row[p] EXCEPT !.status = "publishing"] ELSE row[p]]
        /\ task' = [task EXCEPT ![e] = [p \in PlatformPosts |->
                     IF p \in mine THEN "claimed" ELSE task[e][p]]]
        /\ abandoned' = abandoned \ mine
    BY <1>2 DEF ClaimGroup
  <2>2. ASSUME NEW p \in PlatformPosts, p \in mine
        PROVE  \E d \in Engines : task'[d][p] \in Working
    BY <1>0, <2>1, <2>2 DEF Working
  <2>3. ASSUME NEW p \in PlatformPosts, p \notin mine
        PROVE  /\ row'[p] = row[p]
               /\ \A d \in Engines : task'[d][p] = task[d][p]
               /\ p \in abandoned => p \in abandoned'
    BY <1>0, <2>1, <2>3
  <2> HIDE DEF mine
  <2> QED BY <1>0, <2>2, <2>3, StillOwned
<1> QED BY <1>1, <1>2 DEF CycleStep, Poll, FinishGroup, StartRetries, EndCycle, dbVars, historyVars

LEMMA OwnedThread ==
  ASSUME OwnedInv, NEW e \in Engines, NEW p \in PlatformPosts, ThreadStep(e, p)
  PROVE  PublishingIsOwned'
<1>0. /\ now \in Clock
      /\ row \in [PlatformPosts -> Row]
      /\ task \in [Engines -> [PlatformPosts -> TaskState]]
      /\ copy[e][p] \in Row
      /\ row[p] \in Row
      /\ PublishingIsOwned
  BY DEF OwnedInv, TypeOK
\* Steps that write the outcome of p.
<1>1. ASSUME \A q \in PlatformPosts : q # p => row'[q] = row[q],
             row'[p].status # "publishing",
             \A d \in Engines, q \in PlatformPosts : q # p => task'[d][q] = task[d][q],
             abandoned' = abandoned
      PROVE  PublishingIsOwned'
  BY <1>0, <1>1, StillOwned
\* Steps that leave the rows alone.
<1>2. ASSUME row' = row,
             \A d \in Engines, q \in PlatformPosts :
               task[d][q] \in Working => task'[d][q] \in Working,
             abandoned' = abandoned
      PROVE  PublishingIsOwned'
  BY <1>0, <1>2, StillOwned
<1>3. Conclude(e, p) => \A d \in Engines, q \in PlatformPosts :
                          <<d, q>> # <<e, p>> => task'[d][q] = task[d][q]
  BY <1>0 DEF Conclude
<1>4. CASE Dispatch(e, p)
  <2>1. PICK outcome \in Outcomes :
          task' = [task EXCEPT ![e][p] = IF outcome = "lost" THEN "refused" ELSE outcome]
    BY <1>4 DEF Dispatch
  <2>2. (IF outcome = "lost" THEN "refused" ELSE outcome) \in Working
    BY DEF Outcomes, Working
  <2> QED BY <1>0, <1>2, <1>4, <2>1, <2>2 DEF Dispatch, dbVars
<1>5. CASE SaveSuccess(e, p)
  <2> DEFINE done == [copy[e][p] EXCEPT !.status = "published", !.publishedAt = now]
  <2>1. done.status = "published"
    BY <1>0 DEF Row
  <2>2. row' = [row EXCEPT ![p] = done] /\ task' = [task EXCEPT ![e][p] = "saved"]
        /\ abandoned' = abandoned
    BY <1>5 DEF SaveSuccess, historyVars
  <2> HIDE DEF done
  <2> QED BY <1>0, <1>1, <2>1, <2>2
<1>6. CASE LogSuccess(e, p)
  <2>1. row' = row /\ Conclude(e, p) /\ task[e][p] \notin Working /\ abandoned' = abandoned
    BY <1>6 DEF LogSuccess, Working, historyVars
  <2> QED BY <1>2, <1>3, <2>1
<1>7. CASE LogSuccessFails(e, p) \/ ScheduleRetry(e, p)
  <2>1. AfterFailure(copy[e][p]).status # "publishing"
    BY <1>0, AfterFailureType
  <2>2. row' = [row EXCEPT ![p] = AfterFailure(copy[e][p])] /\ Conclude(e, p)
        /\ abandoned' = abandoned
    BY <1>7 DEF LogSuccessFails, ScheduleRetry, historyVars
  <2> QED BY <1>0, <1>1, <1>3, <2>1, <2>2
<1>8. CASE FailPermanently(e, p)
  <2>1. row' = [row EXCEPT ![p] = [copy[e][p] EXCEPT !.status = "failed"]] /\ Conclude(e, p)
        /\ abandoned' = abandoned
    BY <1>8 DEF FailPermanently, historyVars
  <2>2. row'[p].status = "failed" /\ \A q \in PlatformPosts : q # p => row'[q] = row[q]
    BY <1>0, <2>1 DEF Row
  <2> QED BY <1>1, <1>3, <2>1, <2>2
<1>9. CASE RetryCheck(e, p)
  <2>1. row' = row /\ task[e][p] = "none" /\ abandoned' = abandoned
    BY <1>9 DEF RetryCheck, dbVars, Busy, historyVars
  <2>2. task' = task \/ task' = [task EXCEPT ![e][p] = "cleared"]
    BY <1>9 DEF RetryCheck
  <2> QED BY <1>0, <1>2, <2>1, <2>2 DEF Working
<1>10. CASE RetryClaim(e, p)
  <2>1. /\ \A q \in PlatformPosts : q # p => row'[q] = row[q]
        /\ \A d \in Engines, q \in PlatformPosts :
             <<d, q>> # <<e, p>> => task'[d][q] = task[d][q]
        /\ task'[e][p] \in Working
        /\ \A q \in PlatformPosts : q # p /\ q \in abandoned => q \in abandoned'
    BY <1>0, <1>10 DEF RetryClaim, Working
  <2> QED BY <1>0, <2>1, StillOwned
\* The row it works on is left behind.
<1>11. CASE ErrorLogFails(e, p)
  <2>1. /\ row' = row /\ Conclude(e, p)
        /\ abandoned \subseteq abandoned'
        /\ task[e][p] \in Working => p \in abandoned'
    BY <1>11 DEF ErrorLogFails, dbVars, Working
  <2> QED BY <1>0, <1>3, <2>1, StillOwned
<1> QED BY <1>4, <1>5, <1>6, <1>7, <1>8, <1>9, <1>10, <1>11 DEF ThreadStep

LEMMA OwnedNext ==
  ASSUME "crash" \notin Faults
  PROVE  OwnedInv /\ [Next]_vars => OwnedInv'
<1> SUFFICES ASSUME OwnedInv, [Next]_vars PROVE PublishingIsOwned'
  BY TypeNext DEF OwnedInv
<1>1. CASE Tick \/ UNCHANGED vars
  BY <1>1 DEF Tick, vars, OwnedInv, PublishingIsOwned, Owned, dbVars, engineVars, historyVars
<1>2. ASSUME NEW u \in Users, NEW p \in PlatformPosts, UserStep(u, p)
      PROVE  PublishingIsOwned'
  <2>1. /\ task' = task /\ abandoned \subseteq abandoned'
        /\ \A q \in PlatformPosts : q # p => row'[q] = row[q]
    BY <1>2, UserRow DEF OwnedInv, engineVars
  <2>2. row'[p].status = "publishing" =>
          row[p].status = "publishing" \/ Owned(p) \/ p \in abandoned'
    BY <1>2, UserWrites DEF OwnedInv
  <2> QED BY <2>1, <2>2 DEF OwnedInv, PublishingIsOwned, Owned
<1>3. \A e \in Engines : ~Crash(e)
  BY DEF Crash
<1> QED BY <1>1, <1>2, <1>3, OwnedCycle, OwnedThread DEF Next

\* As long as no process dies, a row in "publishing" is being worked on by a
\* thread that will write its outcome, for any number of processes and any
\* stale request, or it is one of two kinds of row that nothing resets: its
\* error log could not be written (engine.py:298 raises before the status is
\* saved), or a request put it there.  With crashes there is a third kind.
THEOREM PublishingHasAnOwner ==
  ASSUME "crash" \notin Faults
  PROVE  Spec => []PublishingIsOwned
<1>1. OwnedInv => PublishingIsOwned
  BY DEF OwnedInv
<1> QED BY <1>1, OwnedInit, OwnedNext, PTL DEF Spec

-----------------------------------------------------------------------------
(***************************************************************************)
(* The due path alone implements Publication, for any number of processes  *)
(* that may die, next to requests that hold and resume posts from stale    *)
(* reads: there the row lock of _publish_post_group and its second look at *)
(* the status are enough.  Nothing like it holds of the retry path, which  *)
(* claims a row (engine.py:583) without the lock and without a look: two   *)
(* processes that both hold it in their snapshots both publish it.         *)
(*                                                                         *)
(* The argument: a thread is the only one on its row from the claim to the *)
(* end, the row says so meanwhile, and each state of the thread knows      *)
(* whether the post has appeared.                                          *)
(***************************************************************************)

\* The instance on which the lock is all there is: no backoff elapses, so the
\* retry path, which claims without the lock, finds nothing; every reply
\* arrives and every log row is written; users only hold and resume.
LockedPath ==
  /\ Acts \subseteq {"hold"}
  /\ Faults \subseteq {"crash"}
  /\ \A n \in 0..(MaxRetries - 1) : RetryBackoff[n] > MaxTime

\* The row, or a copy of it, is not to be retried.
Beyond(r) == r.nextRetryAt = NoTime \/ r.nextRetryAt > MaxTime

Holdable == {"approved", "on_hold"}

\* A thread has its row to itself, and the row is in the state it left it in.
Exclusive(p) ==
  /\ \A d, e \in Engines : task[d][p] # "none" /\ task[e][p] # "none" => d = e
  /\ \A e \in Engines :
       /\ task[e][p] # "cleared"
       /\ task[e][p] \in Working => row[p].status = "publishing"
       /\ task[e][p] = "saved" => row[p].status = "published"

\* What the row and the thread say of the platform.  A row a dead process
\* left in "publishing" says nothing.
TruthTold(p) ==
  /\ live[p] \in {0, 1}
  /\ row[p].status \notin Protected => live[p] = 0
  /\ row[p].status = "published" => live[p] = 1
  /\ \A e \in Engines :
       /\ task[e][p] \in {"claimed", "refused", "rejected"} => live[p] = 0
       /\ task[e][p] = "accepted" => live[p] = 1

NotRetried(p) == Beyond(row[p]) /\ \A e \in Engines : Beyond(copy[e][p])

\* A request that may hold or resume a row cannot reach one that has left
\* these two statuses.
HoldsInPlace(p) ==
  \A u \in Users : request[u][p].status \in Holdable => row[p].status \in Holdable

Kept(p) == Exclusive(p) /\ TruthTold(p) /\ NotRetried(p) /\ HoldsInPlace(p)

KeptInv ==
  /\ TypeOK
  /\ \A e \in Engines : engine[e].retryQueue = {}
  /\ \A u \in Users, p \in PlatformPosts : open[u][p] \in {"none", "read"}
  /\ \A p \in PlatformPosts : Kept(p)

LEMMA KeptInit == Init => KeptInv
<1> SUFFICES ASSUME Init PROVE KeptInv
  OBVIOUS
<1>1. TypeOK
  BY TypeInit
<1>2. /\ \A e \in Engines : engine[e].retryQueue = {}
      /\ \A u \in Users, p \in PlatformPosts : open[u][p] \in {"none", "read"}
  BY DEF Init, IdleCycle
<1>3. ASSUME NEW p \in PlatformPosts PROVE Kept(p)
  <2>1. /\ row[p].status \in {"draft", "approved", "scheduled"}
        /\ row[p].nextRetryAt = NoTime
        /\ live[p] = 0
        /\ \A u \in Users : request[u][p] = NoRow
        /\ \A e \in Engines : task[e][p] = "none" /\ copy[e][p] = NoRow
    BY DEF Init, NewRow
  <2>2. NoRow.nextRetryAt = NoTime /\ NoRow.status = "draft"
    BY DEF NoRow, NewRow
  <2>3. Exclusive(p) /\ TruthTold(p)
    BY <2>1 DEF Exclusive, TruthTold, Working, Protected
  <2>4. NotRetried(p) /\ HoldsInPlace(p)
    BY <2>1, <2>2 DEF NotRetried, HoldsInPlace, Beyond, Holdable
  <2> QED BY <2>3, <2>4 DEF Kept
<1> QED BY <1>1, <1>2, <1>3 DEF KeptInv

-----------------------------------------------------------------------------
(* The abstract step each step is *)

Stage == [p \in PlatformPosts |-> StageOf(row[p].status)]

Simulates == [Promise!Next]_(Promise!vars)

LEMMA Stutters ==
  ASSUME \A p \in PlatformPosts : StageOf(row'[p].status) = StageOf(row[p].status),
         live' = live
  PROVE  Simulates
<1>1. Stage' = Stage
  BY DEF Stage
<1> QED BY <1>1 DEF Simulates, Promise!vars, Stage

\* A step on one row.
LEMMA OneStage ==
  ASSUME NEW p \in PlatformPosts,
         \A q \in PlatformPosts : q # p => row'[q] = row[q]
  PROVE  Stage' = [Stage EXCEPT ![p] = StageOf(row'[p].status)]
BY DEF Stage

LEMMA Untouched ==
  ASSUME NEW p \in PlatformPosts, Kept(p),
         row'[p] = row[p], live'[p] = live[p],
         \A u \in Users : request'[u][p] = request[u][p],
         \A e \in Engines : task'[e][p] = task[e][p] /\ copy'[e][p] = copy[e][p]
  PROVE  Kept(p)'
<1>1. Exclusive(p)'
  BY DEF Kept, Exclusive
<1>2. TruthTold(p)'
  BY DEF Kept, TruthTold
<1>3. NotRetried(p)' /\ HoldsInPlace(p)'
  BY DEF Kept, NotRetried, Beyond, HoldsInPlace
<1> QED BY <1>1, <1>2, <1>3 DEF Kept

-----------------------------------------------------------------------------
(* The cycle *)

LEMMA KeptTyping ==
  ASSUME KeptInv
  PROVE  /\ now \in Clock
         /\ row \in [PlatformPosts -> Row]
         /\ engine \in [Engines -> Cycle]
         /\ task \in [Engines -> [PlatformPosts -> TaskState]]
         /\ copy \in [Engines -> [PlatformPosts -> Row]]
         /\ request \in [Users -> [PlatformPosts -> Row]]
         /\ open \in [Users -> [PlatformPosts -> RequestStage]]
         /\ live \in [PlatformPosts -> Nat]
BY DEF KeptInv, TypeOK

\* A step that touches no row, no thread and no request.
LEMMA Aside ==
  ASSUME KeptInv, TypeOK', row' = row, live' = live, request' = request, open' = open,
         task' = task, copy' = copy, \A e \in Engines : engine'[e].retryQueue = {}
  PROVE  KeptInv' /\ Simulates
<1>1. \A p \in PlatformPosts : Kept(p)'
  BY Untouched DEF KeptInv
<1>2. Simulates
  BY Stutters
<1> QED BY <1>1, <1>2 DEF KeptInv

\* No row is due for a retry.
LEMMA NothingToRetry == ASSUME KeptInv PROVE DueRetries = {}
<1>1. ASSUME NEW p \in DueRetries PROVE FALSE
  <2>1. /\ p \in PlatformPosts /\ row[p].nextRetryAt # NoTime /\ row[p].nextRetryAt <= now
        /\ row[p] \in Row /\ now \in Clock
    BY <1>1, KeptTyping DEF DueRetries
  <2>2. row[p].nextRetryAt > MaxTime
    BY <2>1 DEF KeptInv, Kept, NotRetried, Beyond
  <2> QED BY <2>1, <2>2, Constants DEF Row, Clock, NoTime, ConstantAssumptions
<1> QED BY <1>1

\* The claim of a group takes its rows from waiting to taken, all at once.
LEMMA Claims ==
  ASSUME KeptInv, TypeOK', NEW e \in Engines, NEW x \in Posts, ClaimGroup(e, x)
  PROVE  KeptInv' /\ Simulates
<1> DEFINE mine == Claimable(e, x)
           waiting == engine[e].batch \ Children(x)
           claims == engine[e].claimed \cup mine
<1>0. /\ row \in [PlatformPosts -> Row]
      /\ engine \in [Engines -> Cycle]
      /\ task \in [Engines -> [PlatformPosts -> TaskState]]
      /\ copy \in [Engines -> [PlatformPosts -> Row]]
      /\ live' = live /\ request' = request /\ open' = open
      /\ \A d \in Engines : engine[d].retryQueue = {}
  BY KeptTyping DEF KeptInv, ClaimGroup, userVars, historyVars
<1>1. \A d \in Engines : engine'[d].retryQueue = {}
  <2>1. engine[e] \in Cycle
    BY <1>0
  <2>2. \/ engine' = [engine EXCEPT ![e] = [engine[e] EXCEPT !.batch = waiting]]
        \/ engine' = [engine EXCEPT ![e] = [engine[e] EXCEPT
                         !.batch = waiting, !.claimed = claims]]
    BY DEF ClaimGroup
  <2> HIDE DEF mine, waiting, claims
  <2>3. engine'[e].retryQueue = engine[e].retryQueue
    <3>1. CASE engine' = [engine EXCEPT ![e] = [engine[e] EXCEPT !.batch = waiting]]
      BY <1>0, <2>1, <3>1 DEF Cycle
    <3>2. CASE engine' = [engine EXCEPT ![e] = [engine[e] EXCEPT
                            !.batch = waiting, !.claimed = claims]]
      BY <1>0, <2>1, <3>2 DEF Cycle
    <3> QED BY <2>2, <3>1, <3>2
  <2>4. \A d \in Engines : d # e => engine'[d] = engine[d]
    BY <1>0, <2>2
  <2> QED BY <1>0, <2>3, <2>4
<1>2. CASE row' = row /\ task' = task /\ copy' = copy
  BY <1>0, <1>1, <1>2, Aside
<1>3. CASE /\ mine # {}
           /\ row' = [p \in PlatformPosts |->
                 IF p \in mine THEN [row[p] EXCEPT !.status = "publishing"] ELSE row[p]]
           /\ copy' = [copy EXCEPT ![e] = [p \in PlatformPosts |->
                 IF p \in mine THEN row[p] ELSE copy[e][p]]]
           /\ task' = [task EXCEPT ![e] = [p \in PlatformPosts |->
                 IF p \in mine THEN "claimed" ELSE task[e][p]]]
  <2>1. /\ mine \subseteq PlatformPosts
        /\ \A p \in mine : row[p].status = "scheduled"
    BY DEF Claimable, Children
  <2> HIDE DEF mine
  <2>2. \A d \in Engines, p \in PlatformPosts :
          /\ task'[d][p] = IF d = e /\ p \in mine THEN "claimed" ELSE task[d][p]
          /\ copy'[d][p] = IF d = e /\ p \in mine THEN row[p] ELSE copy[d][p]
    BY <1>0, <1>3
  <2>3. \A p \in PlatformPosts :
          /\ p \notin mine => row'[p] = row[p]
          /\ p \in mine => /\ row'[p].status = "publishing"
                           /\ row'[p].nextRetryAt = row[p].nextRetryAt
    BY <1>0, <1>3 DEF Row
  <2>4. ASSUME NEW p \in PlatformPosts, p \notin mine PROVE Kept(p)'
    BY <1>0, <2>2, <2>3, <2>4, Untouched DEF KeptInv
  <2>5. ASSUME NEW p \in PlatformPosts, p \in mine PROVE Kept(p)'
    <3>1. Kept(p) /\ row[p].status = "scheduled"
      BY <2>1, <2>5 DEF KeptInv
    <3>2. \A d \in Engines : task[d][p] = "none"
      BY <1>0, <3>1 DEF Kept, Exclusive, Working, TaskState
    <3>3. Exclusive(p)'
      BY <2>2, <2>3, <2>5, <3>2 DEF Exclusive, Working
    <3>4. TruthTold(p)'
      <4>1. live[p] = 0
        BY <3>1 DEF Kept, TruthTold, Protected
      <4> QED BY <1>0, <2>2, <2>3, <2>5, <3>2, <4>1 DEF TruthTold, Protected
    <3>5. NotRetried(p)'
      BY <2>2, <2>3, <2>5, <3>1 DEF Kept, NotRetried, Beyond
    <3>6. HoldsInPlace(p)'
      BY <1>0, <3>1 DEF Kept, HoldsInPlace, Holdable
    <3> QED BY <3>3, <3>4, <3>5, <3>6 DEF Kept
  <2>6. Promise!Take(mine)
    <3>1. \A p \in mine : Stage[p] = "waiting"
      BY <2>1 DEF Stage, StageOf
    <3>2. Stage' = [p \in PlatformPosts |-> IF p \in mine THEN "taken" ELSE Stage[p]]
      BY <2>3 DEF Stage, StageOf
    <3> QED BY <1>0, <3>1, <3>2 DEF Promise!Take, Stage
  <2>7. Simulates
    BY <1>3, <2>1, <2>6 DEF Simulates, Promise!Next
  <2> QED BY <1>0, <1>1, <2>4, <2>5, <2>7 DEF KeptInv
<1> QED BY <1>2, <1>3 DEF ClaimGroup

LEMMA KeptCycle ==
  ASSUME KeptInv, TypeOK', NEW e \in Engines, CycleStep(e) \/ Crash(e)
  PROVE  KeptInv' /\ Simulates
<1>0. /\ engine \in [Engines -> Cycle] /\ engine[e] \in Cycle
      /\ task \in [Engines -> [PlatformPosts -> TaskState]]
      /\ copy \in [Engines -> [PlatformPosts -> Row]]
      /\ \A d \in Engines : engine[d].retryQueue = {}
  BY KeptTyping DEF KeptInv
<1>1. CASE Poll(e)
  <2>1. \A d \in Engines : engine'[d].retryQueue = {}
    BY <1>0, <1>1 DEF Poll, IdleCycle
  <2> QED BY <1>1, <2>1, Aside DEF Poll, dbVars, userVars, historyVars
<1>2. ASSUME NEW x \in Posts, ClaimGroup(e, x) PROVE KeptInv' /\ Simulates
  BY <1>2, Claims
<1>3. ASSUME NEW x \in Posts, FinishGroup(e, x) PROVE KeptInv' /\ Simulates
  <2>1. \A d \in Engines : engine'[d].retryQueue = {}
    BY <1>0, <1>3 DEF FinishGroup, Cycle
  <2> QED BY <1>3, <2>1, Aside DEF FinishGroup, userVars
\* The copies a thread drops are of no thread's row.
<1>4. ASSUME \A d \in Engines : engine'[d].retryQueue = {},
             row' = row, live' = live, request' = request, open' = open,
             \A d \in Engines, p \in PlatformPosts :
               /\ task'[d][p] \in {task[d][p], "none"}
               /\ copy'[d][p] \in {copy[d][p], NoRow}
      PROVE  KeptInv' /\ Simulates
  <2>1. Beyond(NoRow)
    BY DEF Beyond, NoRow, NewRow
  <2>2. ASSUME NEW p \in PlatformPosts PROVE Kept(p)'
    <3>1. Kept(p)
      BY DEF KeptInv
    <3>2. Exclusive(p)'
      BY <1>4, <3>1 DEF Kept, Exclusive, Working
    <3>3. TruthTold(p)'
      BY <1>4, <3>1 DEF Kept, TruthTold
    <3>4. NotRetried(p)' /\ HoldsInPlace(p)'
      BY <1>4, <2>1, <3>1 DEF Kept, NotRetried, Beyond, HoldsInPlace
    <3> QED BY <3>2, <3>3, <3>4 DEF Kept
  <2>3. Simulates
    BY <1>4, Stutters
  <2> QED BY <1>4, <2>2, <2>3 DEF KeptInv
<1>5. CASE StartRetries(e)
  <2>1. \A d \in Engines : engine'[d].retryQueue = {}
    BY <1>0, <1>5, NothingToRetry DEF StartRetries, Cycle
  <2>2. \A d \in Engines, p \in PlatformPosts :
          /\ task'[d][p] = task[d][p]
          /\ copy'[d][p] \in {copy[d][p], NoRow}
    BY <1>0, <1>5, NothingToRetry DEF StartRetries
  <2> QED BY <1>4, <1>5, <2>1, <2>2 DEF StartRetries, dbVars, userVars, historyVars
<1>6. CASE EndCycle(e) \/ Crash(e)
  <2>1. \A d \in Engines : engine'[d].retryQueue = {}
    BY <1>0, <1>6 DEF EndCycle, Crash, IdleCycle
  <2>2. \A d \in Engines, p \in PlatformPosts :
          /\ task'[d][p] \in {task[d][p], "none"}
          /\ copy'[d][p] \in {copy[d][p], NoRow}
    BY <1>0, <1>6 DEF EndCycle, Crash
  <2> QED BY <1>4, <1>6, <2>1, <2>2 DEF EndCycle, Crash, dbVars, userVars, historyVars
<1> QED BY <1>1, <1>2, <1>3, <1>5, <1>6 DEF CycleStep

-----------------------------------------------------------------------------
(* A thread *)

\* A step of the thread of e on p leaves every other row, and what is known of
\* it, as it is.
LEMMA KeptElsewhere ==
  ASSUME KeptInv, TypeOK', NEW e \in Engines, NEW p \in PlatformPosts,
         engine' = engine, request' = request, open' = open,
         \A q \in PlatformPosts : q # p =>
           /\ row'[q] = row[q] /\ live'[q] = live[q]
           /\ \A d \in Engines : task'[d][q] = task[d][q] /\ copy'[d][q] = copy[d][q],
         Kept(p)'
  PROVE  KeptInv'
<1>1. ASSUME NEW q \in PlatformPosts, q # p PROVE Kept(q)'
  BY <1>1, Untouched DEF KeptInv
<1> QED BY <1>1 DEF KeptInv

\* The thread of e is the only one on p; its step shows on p alone.
LEMMA KeptHere ==
  ASSUME KeptInv, NEW e \in Engines, NEW p \in PlatformPosts,
         task[e][p] \in Working \cup {"saved"}, request' = request,
         \A d \in Engines : d # e => task'[d][p] = task[d][p] /\ copy'[d][p] = copy[d][p],
         task'[e][p] # "cleared",
         task'[e][p] \in Working => row'[p].status = "publishing",
         task'[e][p] = "saved" => row'[p].status = "published",
         live'[p] \in {0, 1},
         row'[p].status \notin Protected => live'[p] = 0,
         row'[p].status = "published" => live'[p] = 1,
         task'[e][p] \in {"claimed", "refused", "rejected"} => live'[p] = 0,
         task'[e][p] = "accepted" => live'[p] = 1,
         Beyond(row'[p]), Beyond(copy'[e][p])
  PROVE  Kept(p)'
<1>0. Kept(p) /\ task[e][p] # "none"
  BY DEF KeptInv, Working
<1>1. \A d \in Engines : d # e => task'[d][p] = "none"
  BY <1>0 DEF Kept, Exclusive
<1>2. Exclusive(p)'
  BY <1>1 DEF Exclusive, Working
<1>3. TruthTold(p)'
  BY <1>1 DEF TruthTold
<1>4. NotRetried(p)'
  BY <1>0 DEF Kept, NotRetried, Beyond
<1>5. HoldsInPlace(p)'
  <2>1. row[p].status \in Protected
    BY <1>0 DEF Kept, Exclusive, Protected
  <2>2. \A u \in Users : request[u][p].status \notin Holdable
    BY <1>0, <2>1 DEF Kept, HoldsInPlace, Holdable, Protected
  <2> QED BY <2>2 DEF HoldsInPlace
<1> QED BY <1>2, <1>3, <1>4, <1>5 DEF Kept

LEMMA BeyondAfterFailure ==
  ASSUME LockedPath, NEW c \in Row, now \in Clock, Beyond(c)
  PROVE  Beyond(AfterFailure(c))
<1>1. CASE c.retryCount >= MaxRetries
  BY <1>1 DEF AfterFailure, Row, Beyond
<1>2. CASE ~(c.retryCount >= MaxRetries)
  <2>1. c.retryCount \in 0..(MaxRetries - 1)
    BY <1>2, Constants DEF Row, ConstantAssumptions
  <2>2. now + RetryBackoff[c.retryCount] > MaxTime
    BY <2>1, Constants DEF LockedPath, Clock, ConstantAssumptions
  <2>3. AfterFailure(c).nextRetryAt = now + RetryBackoff[c.retryCount]
    BY <1>2 DEF AfterFailure, Row
  <2> QED BY <2>2, <2>3 DEF Beyond
<1> QED BY <1>1, <1>2

LEMMA KeptThread ==
  ASSUME LockedPath, KeptInv, TypeOK', NEW e \in Engines, NEW p \in PlatformPosts,
         ThreadStep(e, p)
  PROVE  KeptInv' /\ Simulates
<1>0. /\ now \in Clock
      /\ row \in [PlatformPosts -> Row] /\ row[p] \in Row
      /\ task \in [Engines -> [PlatformPosts -> TaskState]]
      /\ copy \in [Engines -> [PlatformPosts -> Row]] /\ copy[e][p] \in Row
      /\ live \in [PlatformPosts -> Nat]
      /\ Kept(p) /\ Beyond(row[p]) /\ Beyond(copy[e][p])
  BY KeptTyping DEF KeptInv, Kept, NotRetried
<1>1. Beyond(NoRow)
  BY DEF Beyond, NoRow, NewRow
<1>2. Conclude(e, p) =>
        /\ task'[e][p] = "none" /\ copy'[e][p] = NoRow
        /\ \A d \in Engines, q \in PlatformPosts :
             <<d, q>> # <<e, p>> => task'[d][q] = task[d][q] /\ copy'[d][q] = copy[d][q]
  BY <1>0 DEF Conclude
\* The end of a failed attempt gives the row back.
<1>3. ASSUME NEW r \in Row, r.status \in {"scheduled", "failed"}, Beyond(r),
             row' = [row EXCEPT ![p] = r], task[e][p] \in {"refused", "rejected"},
             Conclude(e, p), live' = live, engine' = engine, request' = request /\ open' = open
      PROVE  KeptInv' /\ Simulates
  <2>1. row'[p] = r /\ \A q \in PlatformPosts : q # p => row'[q] = row[q]
    BY <1>0, <1>3
  <2>2. live[p] = 0 /\ row[p].status = "publishing"
    BY <1>0, <1>3 DEF Kept, Exclusive, TruthTold, Working
  <2>3. Kept(p)'
    BY <1>1, <1>2, <1>3, <2>1, <2>2, KeptHere DEF Working, Protected
  <2>4. KeptInv'
    BY <1>2, <1>3, <2>1, <2>3, KeptElsewhere
  <2>5. Promise!GiveBack(p)
    <3>1. Stage[p] = "taken" /\ live[p] = 0
      BY <2>2 DEF Stage, StageOf
    <3>2. StageOf(row'[p].status) \in {"waiting", "failed"}
      BY <1>3, <2>1 DEF StageOf
    <3>3. Stage' = [Stage EXCEPT ![p] = StageOf(row'[p].status)]
      BY <2>1, OneStage
    <3> QED BY <1>3, <3>1, <3>2, <3>3 DEF Promise!GiveBack, Stage
  <2> QED BY <2>4, <2>5 DEF Simulates, Promise!Next
<1>4. CASE Dispatch(e, p)
  <2>1. PICK outcome \in {"accepted", "refused", "rejected"} :
          /\ task' = [task EXCEPT ![e][p] = outcome]
          /\ live' = [live EXCEPT ![p] = IF outcome = "accepted" THEN live[p] + 1 ELSE live[p]]
    <3>1. "lostReply" \notin Faults
      BY DEF LockedPath
    <3> QED BY <1>4, <3>1 DEF Dispatch, Outcomes
  <2>2. /\ task[e][p] = "claimed" /\ row' = row /\ copy' = copy
        /\ engine' = engine /\ request' = request /\ open' = open
    BY <1>4 DEF Dispatch, dbVars, userVars
  <2>3. live[p] = 0 /\ row[p].status = "publishing"
    BY <1>0, <2>2 DEF Kept, Exclusive, TruthTold, Working
  <2>4. /\ task'[e][p] = outcome
        /\ \A d \in Engines, q \in PlatformPosts :
             <<d, q>> # <<e, p>> => task'[d][q] = task[d][q]
        /\ live'[p] = IF outcome = "accepted" THEN 1 ELSE 0
        /\ \A q \in PlatformPosts : q # p => live'[q] = live[q]
    BY <1>0, <2>1, <2>3
  <2>5. Kept(p)'
    BY <1>0, <2>2, <2>3, <2>4, KeptHere DEF Working, Protected
  <2>6. KeptInv'
    BY <2>2, <2>4, <2>5, KeptElsewhere
  <2>7. CASE outcome = "accepted"
    <3>1. live' = [live EXCEPT ![p] = 1]
      BY <1>0, <2>1, <2>3, <2>7
    <3>2. Stage[p] = "taken" /\ Stage' = Stage
      BY <2>2, <2>3 DEF Stage, StageOf
    <3>3. Promise!Appear(p)
      BY <2>3, <3>1, <3>2 DEF Promise!Appear, Stage
    <3> QED BY <2>6, <3>3 DEF Simulates, Promise!Next
  <2>8. CASE outcome # "accepted"
    <3>1. live' = live
      BY <1>0, <2>1, <2>8
    <3> QED BY <2>2, <2>6, <3>1, Stutters
  <2> QED BY <2>7, <2>8
<1>5. CASE SaveSuccess(e, p)
  <2> DEFINE done == [copy[e][p] EXCEPT !.status = "published", !.publishedAt = now]
  <2>1. done.status = "published" /\ Beyond(done)
    BY <1>0 DEF Row, Beyond
  <2>2. /\ task[e][p] = "accepted" /\ row' = [row EXCEPT ![p] = done]
        /\ copy' = [copy EXCEPT ![e][p] = done] /\ task' = [task EXCEPT ![e][p] = "saved"]
        /\ live' = live /\ engine' = engine /\ request' = request /\ open' = open
    BY <1>5 DEF SaveSuccess, userVars, historyVars
  <2> HIDE DEF done
  <2>3. live[p] = 1 /\ row[p].status = "publishing"
    BY <1>0, <2>2 DEF Kept, Exclusive, TruthTold, Working
  <2>4. /\ row'[p] = done /\ \A q \in PlatformPosts : q # p => row'[q] = row[q]
        /\ task'[e][p] = "saved" /\ copy'[e][p] = done
        /\ \A d \in Engines, q \in PlatformPosts :
             <<d, q>> # <<e, p>> => task'[d][q] = task[d][q] /\ copy'[d][q] = copy[d][q]
    BY <1>0, <2>2
  <2>5. Kept(p)'
    BY <2>1, <2>2, <2>3, <2>4, KeptHere DEF Working, Protected
  <2>6. KeptInv'
    BY <2>2, <2>4, <2>5, KeptElsewhere
  <2>7. Promise!Report(p)
    <3>1. Stage[p] = "taken"
      BY <2>3 DEF Stage, StageOf
    <3>2. Stage' = [Stage EXCEPT ![p] = "published"]
      BY <2>1, <2>4, OneStage DEF StageOf
    <3> QED BY <2>2, <2>3, <3>1, <3>2 DEF Promise!Report, Stage
  <2> QED BY <2>6, <2>7 DEF Simulates, Promise!Next
<1>6. CASE LogSuccess(e, p)
  <2>1. /\ task[e][p] = "saved" /\ Conclude(e, p)
        /\ row' = row /\ live' = live /\ engine' = engine /\ request' = request /\ open' = open
    BY <1>6 DEF LogSuccess, userVars, historyVars
  <2>2. row[p].status = "published" /\ live[p] = 1
    BY <1>0, <2>1 DEF Kept, Exclusive, TruthTold
  <2>3. Kept(p)'
    BY <1>0, <1>1, <1>2, <2>1, <2>2, KeptHere DEF Working, Protected
  <2>4. KeptInv'
    BY <1>2, <2>1, <2>3, KeptElsewhere
  <2> QED BY <2>1, <2>4, Stutters
<1>7. CASE ScheduleRetry(e, p)
  <2> DEFINE r == AfterFailure(copy[e][p])
  <2>1. r \in Row /\ r.status \in {"scheduled", "failed"} /\ Beyond(r)
    BY <1>0, AfterFailureType, BeyondAfterFailure
  <2>2. /\ task[e][p] = "refused" /\ row' = [row EXCEPT ![p] = r] /\ Conclude(e, p)
        /\ live' = live /\ engine' = engine /\ request' = request /\ open' = open
    BY <1>7 DEF ScheduleRetry, userVars, historyVars
  <2> HIDE DEF r
  <2> QED BY <1>3, <2>1, <2>2
<1>8. CASE FailPermanently(e, p)
  <2> DEFINE r == [copy[e][p] EXCEPT !.status = "failed"]
  <2>1. r \in Row /\ r.status \in {"scheduled", "failed"} /\ Beyond(r)
    BY <1>0 DEF Row, Status, Beyond
  <2>2. /\ task[e][p] = "rejected" /\ row' = [row EXCEPT ![p] = r] /\ Conclude(e, p)
        /\ live' = live /\ engine' = engine /\ request' = request /\ open' = open
    BY <1>8 DEF FailPermanently, userVars, historyVars
  <2> HIDE DEF r
  <2> QED BY <1>3, <2>1, <2>2
\* What the locked path rules out.
<1>9. ~LogSuccessFails(e, p) /\ ~ErrorLogFails(e, p)
  BY DEF LogSuccessFails, ErrorLogFails, LockedPath
<1>10. ~RetryCheck(e, p)
  BY DEF RetryCheck, KeptInv
<1>11. ~RetryClaim(e, p)
  BY <1>0 DEF RetryClaim, Kept, Exclusive
<1> QED BY <1>4, <1>5, <1>6, <1>7, <1>8, <1>9, <1>10, <1>11 DEF ThreadStep

-----------------------------------------------------------------------------
(* Requests, and the specification *)

LEMMA KeptUser ==
  ASSUME LockedPath, KeptInv, TypeOK', NEW u \in Users, NEW p \in PlatformPosts,
         UserStep(u, p)
  PROVE  KeptInv' /\ Simulates
<1>0. /\ row \in [PlatformPosts -> Row] /\ row[p] \in Row
      /\ request \in [Users -> [PlatformPosts -> Row]]
      /\ open \in [Users -> [PlatformPosts -> RequestStage]]
      /\ open[u][p] \in {"none", "read"}
      /\ Kept(p)
  BY KeptTyping DEF KeptInv
<1>1. NoRow.status = "draft"
  BY DEF NoRow, NewRow
<1>2. CASE OpenRequest(u, p)
  <2>1. /\ row' = row /\ live' = live /\ task' = task /\ copy' = copy /\ engine' = engine
        /\ request'[u][p] = row[p] /\ open'[u][p] = "read"
        /\ \A v \in Users, q \in PlatformPosts :
             <<v, q>> # <<u, p>> => request'[v][q] = request[v][q] /\ open'[v][q] = open[v][q]
    BY <1>0, <1>2 DEF OpenRequest, dbVars, engineVars, historyVars
  <2>2. ASSUME NEW q \in PlatformPosts, q # p PROVE Kept(q)'
    BY <2>1, <2>2, Untouched DEF KeptInv
  <2>3. Kept(p)'
    <3>1. Exclusive(p)' /\ TruthTold(p)' /\ NotRetried(p)'
      BY <1>0, <2>1 DEF Kept, Exclusive, TruthTold, NotRetried, Beyond
    <3>2. HoldsInPlace(p)'
      BY <1>0, <2>1 DEF HoldsInPlace, Kept
    <3> QED BY <3>1, <3>2 DEF Kept
  <2>4. KeptInv'
    BY <2>1, <2>2, <2>3 DEF KeptInv
  <2> QED BY <2>1, <2>4, Stutters
<1>3. ASSUME NEW from \in Holdable, NEW to \in Holdable, ChangeHold(u, p, from, to)
      PROVE  KeptInv' /\ Simulates
  <2>1. /\ engine' = engine /\ task' = task /\ copy' = copy /\ live' = live
        /\ request'[u][p] \in {request[u][p], NoRow}
        /\ open'[u][p] \in {open[u][p], "none"}
        /\ \A v \in Users, q \in PlatformPosts :
             <<v, q>> # <<u, p>> => request'[v][q] = request[v][q] /\ open'[v][q] = open[v][q]
    BY <1>0, <1>3 DEF ChangeHold, Served, Counted, Close, engineVars
  <2>2. row[p].status \in Holdable
    <3>1. Seen(u, p).status \in Holdable
      BY <1>3 DEF ChangeHold
    <3> QED BY <1>0, <3>1 DEF Seen, Kept, HoldsInPlace
  <2>3. /\ row'[p].status \in Holdable /\ row'[p].nextRetryAt = row[p].nextRetryAt
        /\ \A q \in PlatformPosts : q # p => row'[q] = row[q]
    BY <1>0, <1>3 DEF ChangeHold, Row
  <2>4. ASSUME NEW q \in PlatformPosts, q # p PROVE Kept(q)'
    BY <2>1, <2>3, <2>4, Untouched DEF KeptInv
  <2>5. Kept(p)'
    <3>1. live[p] = 0 /\ \A e \in Engines : task[e][p] \notin Working \cup {"saved"}
      BY <1>0, <2>2 DEF Kept, Exclusive, TruthTold, Holdable, Protected
    <3>2. Exclusive(p)'
      BY <1>0, <2>1, <3>1 DEF Kept, Exclusive
    <3>3. TruthTold(p)'
      BY <2>1, <2>3, <3>1 DEF TruthTold, Working, Holdable
    <3>4. NotRetried(p)' /\ HoldsInPlace(p)'
      BY <1>0, <2>1, <2>3 DEF Kept, NotRetried, Beyond, HoldsInPlace
    <3> QED BY <3>2, <3>3, <3>4 DEF Kept
  <2>6. KeptInv'
    BY <1>0, <2>1, <2>4, <2>5 DEF KeptInv
  <2>7. \A q \in PlatformPosts : StageOf(row'[q].status) = StageOf(row[q].status)
    BY <2>2, <2>3 DEF StageOf, Holdable
  <2> QED BY <2>1, <2>6, <2>7, Stutters
\* The other requests are not among the acts of the locked path.
<1>4. RequestHold(u, p) \/ ResumeHold(u, p) \/ OpenRequest(u, p)
  <2>1. ASSUME NEW kind, Served(kind, u, p) PROVE kind = "hold"
    BY <2>1 DEF Served, LockedPath
  <2>2. ~WriteBack(u, p)
    BY DEF WriteBack, LockedPath
  <2>3. \A target \in Status : ~ChipTransition(u, p, target)
    BY <2>1 DEF ChipTransition
  <2>4. \A t \in Clock : ~Schedule(u, p, t) /\ ~Reschedule(u, p, t) /\ ~ComposeAtOnce(u, p, t)
    BY <2>1 DEF Schedule, Reschedule, ComposeAtOnce
  <2>5. ~Cancel(u, p)
    BY <2>1 DEF Cancel
  <2>6. ~ComposeSpread(u, p) /\ ~ComposeRead(u, p) /\ ~ComposeMove(u, p)
    BY <1>0 DEF ComposeSpread, ComposeRead, ComposeMove
  <2> QED BY <2>2, <2>3, <2>4, <2>5, <2>6 DEF UserStep, SaveDraft, ComposeSync
<1> QED BY <1>2, <1>3, <1>4 DEF RequestHold, ResumeHold, Holdable

LEMMA KeptNext ==
  ASSUME LockedPath, KeptInv, [Next]_vars
  PROVE  KeptInv' /\ Simulates
<1>1. TypeOK'
  BY TypeNext DEF KeptInv
<1>2. CASE Tick \/ UNCHANGED vars
  <2>1. /\ row' = row /\ engine' = engine /\ task' = task /\ copy' = copy
        /\ request' = request /\ open' = open /\ live' = live
    BY <1>2 DEF Tick, vars, dbVars, engineVars, userVars, historyVars, countVars
  <2>2. \A e \in Engines : engine'[e].retryQueue = {}
    BY <2>1 DEF KeptInv
  <2> QED BY <1>1, <2>1, <2>2, Aside
<1> QED BY <1>1, <1>2, KeptCycle, KeptThread, KeptUser DEF Next

\* Where LockedPath holds (the requests only hold and resume, the only fault is
\* a crash, no backoff ever elapses), any number of publisher processes, dying
\* and coming back, together do what one Publication does: each child is taken
\* by one of them at a time, appears once, and ends as what became of it.
THEOREM DuePathImplementsPublication ==
  ASSUME LockedPath
  PROVE  Spec => ImplementsPublication
<1>1. Init => Promise!Init
  <2> SUFFICES ASSUME Init PROVE Promise!Init
    OBVIOUS
  <2>1. \A p \in PlatformPosts : row[p].status \in {"draft", "approved", "scheduled"}
    BY DEF Init, NewRow
  <2>2. live = [p \in PlatformPosts |-> 0]
    BY DEF Init
  <2> QED BY <2>1, <2>2 DEF Promise!Init, StageOf
<1>2. KeptInv /\ [Next]_vars => KeptInv' /\ [Promise!Next]_(Promise!vars)
  BY KeptNext DEF Simulates
<1> QED BY <1>1, <1>2, KeptInit, PTL DEF Spec, ImplementsPublication, Promise!Spec

\* Where LockedPath holds nothing appears twice, for any number of processes.
THEOREM AppearsOnce ==
  ASSUME LockedPath
  PROVE  Spec => []AtMostOnce
<1>1. KeptInv => AtMostOnce
  BY DEF KeptInv, Kept, TruthTold, AtMostOnce
<1>2. KeptInv /\ [Next]_vars => KeptInv'
  BY KeptNext
<1> QED BY <1>1, <1>2, KeptInit, PTL DEF Spec

\* Where LockedPath holds, the lock of the claim covers the whole post: a
\* process takes no row while a sibling is on hold.
THEOREM HoldsAreHonoured ==
  ASSUME LockedPath
  PROVE  Spec => TakesNothingHeld
<1> DEFINE Step == \A e \in Engines, p \in PlatformPosts : Takes(e, p) => ~Held(PostOf[p])
<1>1. KeptInv /\ [Next]_vars => [Step]_vars
  <2> SUFFICES ASSUME KeptInv, [Next]_vars,
                      NEW e \in Engines, NEW p \in PlatformPosts, Takes(e, p)
               PROVE  ~Held(PostOf[p])
    OBVIOUS
  <2>0. /\ task \in [Engines -> [PlatformPosts -> TaskState]]
        /\ task[e][p] # "cleared"
        /\ task'[e][p] = "claimed" /\ task[e][p] # "claimed"
    BY KeptTyping DEF Takes, KeptInv, Kept, Exclusive
  <2>1. PICK d \in Engines, x \in Posts : ClaimGroup(d, x) /\ task' # task
    <3>1. ~Tick /\ ~UNCHANGED vars
      BY <2>0 DEF Tick, vars, engineVars
    <3>2. ASSUME NEW u \in Users, NEW q \in PlatformPosts, UserStep(u, q) PROVE FALSE
      BY <2>0, <3>2, UserRow DEF KeptInv, engineVars
    <3>3. ASSUME NEW d \in Engines, Crash(d) PROVE FALSE
      BY <2>0, <3>3 DEF Crash
    <3>4. ASSUME NEW d \in Engines, NEW q \in PlatformPosts, ThreadStep(d, q) PROVE FALSE
      <4>1. ~RetryCheck(d, q) /\ ~RetryClaim(d, q)
        BY KeptTyping DEF RetryCheck, RetryClaim, KeptInv, Kept, Exclusive
      <4>2. \E s \in {"accepted", "refused", "rejected", "saved", "none"} :
              task' = [task EXCEPT ![d][q] = s]
        BY <3>4, <4>1 DEF ThreadStep, Dispatch, Outcomes, SaveSuccess, LogSuccess,
           LogSuccessFails, ErrorLogFails, ScheduleRetry, FailPermanently, Conclude
      <4> QED BY <2>0, <4>2
    <3>5. ASSUME NEW d \in Engines, CycleStep(d)
          PROVE  \E x \in Posts : ClaimGroup(d, x) /\ task' # task
      BY <2>0, <3>5 DEF CycleStep, Poll, FinishGroup, StartRetries, EndCycle
    <3> QED BY <3>1, <3>2, <3>3, <3>4, <3>5 DEF Next
  <2>2. /\ ~GroupHeld(d, x)
        /\ task' = [task EXCEPT ![d] = [q \in PlatformPosts |->
                      IF q \in Claimable(d, x) THEN "claimed" ELSE task[d][q]]]
    BY <2>1 DEF ClaimGroup
  <2>3. p \in Claimable(d, x)
    BY <2>0, <2>2
  <2> QED BY <2>2, <2>3 DEF Claimable, Children, GroupHeld, Held
<1>2. KeptInv /\ [Next]_vars => KeptInv'
  BY KeptNext
<1> QED BY <1>1, <1>2, KeptInit, PTL DEF Spec, TakesNothingHeld

=============================================================================
