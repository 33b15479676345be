-------------------------- MODULE WorkspaceProofs --------------------------
(***************************************************************************)
(* What web requests and sweeps of a workspace keep, for any number of     *)
(* requests, rows and users and every bound: each part has an inductive    *)
(* invariant of its own, and a step of the joined specification is a step  *)
(* of one part.                                                            *)
(***************************************************************************)
EXTENDS MCWorkspace, FiniteSetTheorems, TLAPS

-----------------------------------------------------------------------------
(* Shooting sessions: what is saved was compared.                          *)

ShootInv == Shooting!TypeOK /\ Shooting!EndsAfterItBegins

LEMMA ShootInit == Shooting!Init => ShootInv
<1> SUFFICES ASSUME Shooting!Init PROVE ShootInv
  OBVIOUS
<1>1. Shooting!Nothing \in [begins : 0..MaxHour, ends : 0..MaxHour]
  BY BoundAssumption DEF Shooting!Nothing, Shooting!Open
<1>2. /\ booked = "none" /\ begins \in 0..MaxHour /\ ends \in 0..MaxHour
      /\ read \in [Requests -> [begins : 0..MaxHour, ends : 0..MaxHour]] /\ dragged = FALSE
  BY <1>1, BoundAssumption DEF Shooting!Init, Shooting!Open
<1> QED BY <1>2 DEF ShootInv, Shooting!TypeOK, Shooting!EndsAfterItBegins

LEMMA ShootNext == ShootInv /\ [Shooting!Next]_Shooting!vars => ShootInv'
<1> SUFFICES ASSUME ShootInv, [Shooting!Next]_Shooting!vars PROVE ShootInv'
  OBVIOUS
<1> DEFINE Copies == [begins : 0..MaxHour, ends : 0..MaxHour]
<1>1. /\ booked \in {"none", "row", "gone"}
      /\ begins \in 0..MaxHour /\ ends \in 0..MaxHour
      /\ read \in [Requests -> Copies] /\ dragged \in BOOLEAN
      /\ MaxHour \in Nat
  BY BoundAssumption DEF ShootInv, Shooting!TypeOK
<1>2. ASSUME NEW b \in Shooting!Times, Shooting!Drag(b) PROVE ShootInv'
  BY <1>1, <1>2 DEF Shooting!Drag, ShootInv, Shooting!TypeOK, Shooting!EndsAfterItBegins, Shooting!Times
<1>3. ASSUME NEW b \in Shooting!Times, NEW e \in Shooting!Times \cup {Shooting!Open}, Shooting!Create(b, e)
      PROVE  ShootInv'
  BY <1>1, <1>3 DEF Shooting!Create, ShootInv, Shooting!TypeOK, Shooting!EndsAfterItBegins,
     Shooting!Times, Shooting!Open
<1>4. ASSUME NEW r \in Requests, Shooting!Read(r) PROVE ShootInv'
  BY <1>1, <1>4 DEF Shooting!Read, ShootInv, Shooting!TypeOK, Shooting!EndsAfterItBegins,
     Shooting!Ordered, Shooting!Open
<1>5. ASSUME NEW r \in Requests, NEW sent \in SUBSET {"begins", "ends"}, Shooting!Update(r, sent)
      PROVE  ShootInv'
  <2>1. Shooting!Nothing \in Copies
    BY <1>1 DEF Shooting!Nothing, Shooting!Open
  <2>2. read' \in [Requests -> Copies]
    BY <1>1, <1>5, <2>1 DEF Shooting!Update
  <2>3. PICK b \in IF "begins" \in sent THEN Shooting!Times ELSE {read[r].begins},
             e \in IF "ends" \in sent THEN Shooting!Times \cup {Shooting!Open} ELSE {read[r].ends} :
          IF Shooting!Ordered(b, e)
          THEN booked' = "row" /\ begins' = b /\ ends' = e /\ dragged' = FALSE
          ELSE UNCHANGED <<booked, begins, ends, dragged>>
    BY <1>5 DEF Shooting!Update
  <2>4. b \in 0..MaxHour /\ e \in 0..MaxHour
    BY <1>1, <2>3 DEF Shooting!Times, Shooting!Open
  <2>5. CASE Shooting!Ordered(b, e)
    BY <1>1, <2>2, <2>3, <2>4, <2>5 DEF ShootInv, Shooting!TypeOK, Shooting!EndsAfterItBegins, Shooting!Ordered
  <2>6. CASE ~Shooting!Ordered(b, e)
    BY <1>1, <2>2, <2>3, <2>6 DEF ShootInv, Shooting!TypeOK, Shooting!EndsAfterItBegins, Shooting!Ordered
  <2> QED BY <2>5, <2>6
<1>6. CASE Shooting!Delete
  BY <1>1, <1>6 DEF Shooting!Delete, ShootInv, Shooting!TypeOK, Shooting!EndsAfterItBegins
<1>7. CASE UNCHANGED Shooting!vars
  BY <1>1, <1>7 DEF Shooting!vars, ShootInv, Shooting!TypeOK, Shooting!EndsAfterItBegins, Shooting!Ordered
<1> QED BY <1>2, <1>3, <1>4, <1>5, <1>6, <1>7 DEF Shooting!Next

-----------------------------------------------------------------------------
(* Posts of the dashboard.                                                 *)

\* What is out of an account, while it counts.
Once(a) ==
  /\ flying[a].row # "no" => MaxPosted > 0
  /\ flying[a].row = "child" => child[a].status # "none"
  /\ a \notin reset =>
       /\ flying[a].row # "orphan"
       /\ flying[a].row = "child" => post # "none" /\ child[a].status = "publishing" /\ out[a] = 0
       /\ out[a] <= 1
       /\ out[a] = 1 => child[a].status = "published"
\* The time of a child that was there when the post was last moved.
Together(a) == a \notin left /\ child[a].status # "none" => child[a].time = time
\* An approval at work has read that the post has a time, unless it was crossed.
Timed ==
  stale \/ /\ \A a \in Accounts : child[a].status = "scheduled" => child[a].time # 0 \/ time # 0
           /\ \A r \in Requests : doing[r].op = "approve" /\ doing[r].time # 0 => time # 0

DashInv ==
  /\ Posts!TypeOK
  /\ post = "none" => \A a \in Accounts : child[a] = Posts!NoChild /\ out[a] = 0 /\ flying[a].row = "no"
  /\ post = "none" => \A r \in Requests : doing[r] = Posts!Idle
  /\ \A a \in Accounts : Once(a) /\ Together(a)
  /\ Timed

Kids == [status : Posts!Waiting \cup {"none", "pending", "publishing", "published"}, time : Posts!Times]
Doings == [op : {"idle", "edit", "approve"}, time : Posts!Times, accounts : SUBSET Accounts]
Flights == [row : {"no", "child", "orphan"}, time : Posts!Times]

LEMMA DashTypes ==
  ASSUME DashInv
  PROVE  /\ post \in {"none", "row", "gone"} /\ time \in 0..MaxTime
         /\ child \in [Accounts -> Kids]
         /\ flying \in [Accounts -> Flights]
         /\ doing \in [Requests -> Doings]
         /\ out \in [Accounts -> 0..MaxPosted] /\ reset \subseteq Accounts /\ left \subseteq Accounts
         /\ stale \in BOOLEAN
         /\ MaxTime \in Nat /\ MaxPosted \in Nat
BY BoundAssumption DEF DashInv, Posts!TypeOK, Kids, Doings, Flights, Posts!Times

LEMMA DashInit == Posts!Init => DashInv
<1> SUFFICES ASSUME Posts!Init PROVE DashInv
  OBVIOUS
<1>1. Posts!NoChild \in Kids /\ Posts!Idle \in Doings /\ Posts!NoChild.status = "none"
      /\ Posts!Idle.op = "idle" /\ 0 \in 0..MaxTime /\ 0 \in 0..MaxPosted
  BY BoundAssumption DEF Posts!NoChild, Posts!Idle, Kids, Doings, Posts!Times, Posts!Unset
<1>6. Posts!Landed \in Flights /\ Posts!Landed.row = "no"
  BY <1>1 DEF Posts!Landed, Flights, Posts!Times, Posts!Unset
<1>2. Posts!TypeOK
  BY <1>1, <1>6 DEF Posts!Init, Posts!TypeOK, Kids, Doings, Flights, Posts!Times, Posts!Unset
<1>3. /\ \A a \in Accounts : child[a] = Posts!NoChild /\ out[a] = 0 /\ flying[a].row = "no"
      /\ \A r \in Requests : doing[r] = Posts!Idle
      /\ stale = FALSE
  BY <1>6 DEF Posts!Init
<1>4. \A a \in Accounts : Once(a) /\ Together(a)
  BY <1>1, <1>3 DEF Once, Together
<1>5. Timed
  BY <1>1, <1>3 DEF Timed
<1> QED BY <1>2, <1>3, <1>4, <1>5 DEF DashInv

\* What the dashboard makes of the accounts chosen.
LEMMA Chosen ==
  ASSUME MaxTime \in Nat, NEW t \in 0..MaxTime, NEW S \in SUBSET Accounts
  PROVE  /\ Posts!Children(t, S) \in [Accounts -> Kids]
         /\ \A a \in Accounts :
              /\ Posts!Children(t, S)[a].status \in {"none", "draft", "scheduled"}
              /\ Posts!Children(t, S)[a].status = "scheduled" => t # 0
              /\ Posts!Children(t, S)[a].status # "none" => Posts!Children(t, S)[a].time = t
<1> DEFINE kid == [status |-> IF t = Posts!Unset THEN "draft" ELSE "scheduled", time |-> t]
<1>1. kid \in Kids /\ Posts!NoChild \in Kids
  BY DEF Kids, Posts!Waiting, Posts!Times, Posts!NoChild, Posts!Unset
<1>2. kid.status \in {"draft", "scheduled"} /\ (kid.status = "scheduled" => t # 0) /\ kid.time = t
  BY DEF Posts!Unset
<1>3. Posts!NoChild.status = "none"
  BY DEF Posts!NoChild
<1>4. Posts!Children(t, S) = [a \in Accounts |-> IF a \in S THEN kid ELSE Posts!NoChild]
  BY DEF Posts!Children
<1> HIDE DEF kid
<1> QED BY <1>1, <1>2, <1>3, <1>4

\* Where children that are out are forgotten, the account starts afresh.
LEMMA Forgotten ==
  ASSUME DashInv, Posts!Forget
  PROVE  /\ out' \in [Accounts -> 0..MaxPosted] /\ reset' \subseteq Accounts
         /\ \A a \in Accounts : a \notin reset' => flying[a].row = "no" /\ out'[a] = 0
<1>1. reset' = reset \cup Posts!Out
  BY DEF Posts!Forget
<1>2. out' = [a \in Accounts |-> IF a \in reset' THEN 0 ELSE out[a]]
  BY DEF Posts!Forget
<1>3. reset' \subseteq Accounts
  BY <1>1, DashTypes DEF Posts!Out
<1>4. ASSUME NEW a \in Accounts, a \notin reset' PROVE flying[a].row = "no" /\ out'[a] = 0
  <2>1. a \notin reset /\ child[a].status # "published" /\ flying[a].row = "no"
    BY <1>1, <1>4 DEF Posts!Out
  <2>2. out[a] <= 1 /\ out[a] # 1 /\ out[a] \in Nat
    BY <2>1, DashTypes DEF DashInv, Once
  <2> QED BY <1>2, <1>4, <2>1, <2>2
<1>5. out' \in [Accounts -> 0..MaxPosted]
  BY <1>2, DashTypes
<1> QED BY <1>3, <1>4, <1>5

LEMMA OrphanFlights ==
  ASSUME DashInv, flying' = Posts!Orphans
  PROVE  /\ flying' \in [Accounts -> Flights]
         /\ \A a \in Accounts : (flying'[a].row # "no" <=> flying[a].row # "no") /\ flying'[a].row # "child"
<1> DEFINE orphan(a) == [flying[a] EXCEPT !.row = "orphan"]
<1>1. flying \in [Accounts -> Flights]
  BY DashTypes
<1>2. \A a \in Accounts : orphan(a) \in Flights /\ orphan(a).row = "orphan"
  BY <1>1 DEF Flights
<1>3. flying' = [a \in Accounts |-> IF flying[a].row = "child" THEN orphan(a) ELSE flying[a]]
  BY DEF Posts!Orphans
<1> HIDE DEF orphan
<1> QED BY <1>1, <1>2, <1>3

LEMMA DashNext == DashInv /\ [Posts!Next]_Posts!vars => DashInv'
<1> SUFFICES ASSUME DashInv, [Posts!Next]_Posts!vars PROVE DashInv'
  OBVIOUS
<1>0. /\ post \in {"none", "row", "gone"} /\ time \in 0..MaxTime
      /\ child \in [Accounts -> Kids]
      /\ flying \in [Accounts -> Flights]
      /\ doing \in [Requests -> Doings]
      /\ out \in [Accounts -> 0..MaxPosted] /\ reset \subseteq Accounts /\ left \subseteq Accounts
      /\ stale \in BOOLEAN
      /\ MaxTime \in Nat /\ MaxPosted \in Nat
  BY DashTypes
<1>a. /\ \A a \in Accounts : Once(a) /\ Together(a)
      /\ post = "none" => \A a \in Accounts : child[a] = Posts!NoChild /\ out[a] = 0 /\ flying[a].row = "no"
      /\ post = "none" => \A r \in Requests : doing[r] = Posts!Idle
      /\ Timed
  BY DEF DashInv
<1>b. Posts!NoChild \in Kids /\ Posts!NoChild.status = "none" /\ Posts!Idle \in Doings /\ Posts!Idle.op = "idle"
  BY <1>0 DEF Posts!NoChild, Posts!Idle, Kids, Doings, Posts!Times, Posts!Unset
<1>1. ASSUME NEW t \in Posts!Times, NEW S \in SUBSET Accounts, Posts!Create(t, S) PROVE DashInv'
  <2>1. /\ post = "none" /\ post' = "row" /\ time' = t /\ child' = Posts!Children(t, S)
        /\ UNCHANGED <<flying, doing, out, reset, left, stale>>
    BY <1>1 DEF Posts!Create
  <2>2. t \in 0..MaxTime
    BY DEF Posts!Times
  <2>3. /\ child' \in [Accounts -> Kids]
        /\ \A a \in Accounts : /\ child'[a].status = "scheduled" => t # 0
                               /\ child'[a].status # "none" => child'[a].time = t
    BY <1>0, <2>1, <2>2, Chosen
  <2>4. Posts!TypeOK'
    BY <1>0, <2>1, <2>2, <2>3 DEF Posts!TypeOK, Kids, Doings, Flights, Posts!Times
  <2>5. ASSUME NEW a \in Accounts PROVE Once(a)' /\ Together(a)'
    <3>1. out[a] = 0 /\ child[a].status = "none"
      BY <1>a, <1>b, <2>1
    <3> QED BY <1>a, <2>1, <2>3, <3>1 DEF Once, Together
  <2>6. Timed'
    BY <1>a, <1>b, <2>1, <2>3 DEF Timed
  <2> QED BY <2>1, <2>4, <2>5, <2>6 DEF DashInv
<1>2. ASSUME NEW r \in Requests, NEW op \in {"edit", "approve"}, NEW t \in 0..MaxTime, NEW S \in SUBSET Accounts,
             op = "approve" => t = time, Posts!Begin(r, op, t, S)
      PROVE  DashInv'
  <2>1. /\ post = "row" /\ doing' = [doing EXCEPT ![r] = [op |-> op, time |-> t, accounts |-> S]]
        /\ UNCHANGED <<post, time, child, flying, out, reset, left, stale>>
    BY <1>2 DEF Posts!Begin
  <2>2. [op |-> op, time |-> t, accounts |-> S] \in Doings
    BY DEF Doings, Posts!Times
  <2>3. doing' \in [Requests -> Doings]
    BY <1>0, <2>1, <2>2
  <2>4. Posts!TypeOK'
    BY <1>0, <2>1, <2>3 DEF Posts!TypeOK, Kids, Doings, Flights, Posts!Times
  <2>5. \A a \in Accounts : Once(a)' /\ Together(a)'
    BY <1>a, <2>1 DEF Once, Together
  <2>6. \A q \in Requests : doing'[q] = doing[q] \/ (q = r /\ doing'[q].op = op /\ doing'[q].time = t)
    BY <1>0, <2>1
  <2>7. Timed'
    BY <1>2, <1>a, <2>1, <2>6 DEF Timed
  <2> QED BY <2>1, <2>4, <2>5, <2>7 DEF DashInv
<1>3. ASSUME NEW r \in Requests, Posts!Edit(r) PROVE DashInv'
  <2>1. /\ doing[r].op = "edit" /\ doing' = [doing EXCEPT ![r] = Posts!Idle]
        /\ post' = "row" /\ time' = doing[r].time
        /\ child' = Posts!Children(doing[r].time, doing[r].accounts)
        /\ flying' = Posts!Orphans /\ Posts!Forget /\ left' = {}
        /\ stale' = (stale \/ \E q \in Requests : doing[q].op = "approve")
    BY <1>3 DEF Posts!Edit, Posts!End
  <2>2. doing[r].time \in 0..MaxTime /\ doing[r].accounts \in SUBSET Accounts
    BY <1>0 DEF Doings, Posts!Times
  <2>3. /\ child' \in [Accounts -> Kids]
        /\ \A a \in Accounts : /\ child'[a].status = "scheduled" => time' # 0
                               /\ child'[a].status # "none" => child'[a].time = time'
    BY <1>0, <2>1, <2>2, Chosen
  <2>4. /\ doing' \in [Requests -> Doings]
        /\ \A q \in Requests : doing'[q].op = "approve" => doing[q].op = "approve"
    BY <1>0, <1>b, <2>1
  <2>5. /\ out' \in [Accounts -> 0..MaxPosted] /\ reset' \subseteq Accounts
        /\ \A a \in Accounts : a \notin reset' => flying[a].row = "no" /\ out'[a] = 0
    BY <2>1, Forgotten
  <2>6. /\ flying' \in [Accounts -> Flights]
        /\ \A a \in Accounts : (flying'[a].row # "no" <=> flying[a].row # "no") /\ flying'[a].row # "child"
    BY <2>1, OrphanFlights
  <2>7. Posts!TypeOK'
    BY <1>0, <2>1, <2>2, <2>3, <2>4, <2>5, <2>6 DEF Posts!TypeOK, Kids, Doings, Flights, Posts!Times
  <2>8. ASSUME NEW a \in Accounts PROVE Once(a)' /\ Together(a)'
    BY <1>a, <2>3, <2>5, <2>6 DEF Once, Together
  <2>9. Timed'
    BY <2>1, <2>3, <2>4 DEF Timed
  <2> QED BY <2>1, <2>7, <2>8, <2>9 DEF DashInv
<1>4. ASSUME NEW r \in Requests, Posts!Refuse(r) PROVE DashInv'
  <2>1. /\ doing[r].op = "edit" /\ doing' = [doing EXCEPT ![r] = Posts!Idle]
        /\ UNCHANGED <<post, time, child, flying, out, reset, left, stale>>
    BY <1>4 DEF Posts!Refuse, Posts!End
  <2>2. /\ doing' \in [Requests -> Doings]
        /\ \A q \in Requests : doing'[q] = doing[q] \/ doing'[q] = Posts!Idle
    BY <1>0, <1>b, <2>1
  <2>3. Posts!TypeOK'
    BY <1>0, <2>1, <2>2 DEF Posts!TypeOK, Kids, Doings, Flights, Posts!Times
  <2>4. \A a \in Accounts : Once(a)' /\ Together(a)'
    BY <1>a, <2>1 DEF Once, Together
  <2>5. Timed'
    BY <1>a, <1>b, <2>1, <2>2 DEF Timed
  <2> QED BY <1>a, <2>1, <2>2, <2>3, <2>4, <2>5 DEF DashInv
<1>5. ASSUME NEW r \in Requests, Posts!Approve(r) PROVE DashInv'
  <2> DEFINE moved(a) == [child[a] EXCEPT !.status = IF doing[r].time = Posts!Unset THEN "draft" ELSE "scheduled"]
  <2>1. /\ doing[r].op = "approve" /\ doing' = [doing EXCEPT ![r] = Posts!Idle]
        /\ child' = [a \in Accounts |-> IF post = "row" /\ child[a].status = "pending" THEN moved(a) ELSE child[a]]
        /\ UNCHANGED <<post, time, flying, out, reset, left, stale>>
    BY <1>5 DEF Posts!Approve, Posts!End
  <2>2. ASSUME NEW a \in Accounts
        PROVE  /\ moved(a) \in Kids /\ moved(a).time = child[a].time
               /\ moved(a).status \in {"draft", "scheduled"}
               /\ moved(a).status = "scheduled" => doing[r].time # 0
    BY <1>0 DEF Kids, Posts!Waiting, Posts!Unset
  <2> HIDE DEF moved
  <2>3. /\ doing' \in [Requests -> Doings]
        /\ \A q \in Requests : doing'[q] = doing[q] \/ doing'[q] = Posts!Idle
    BY <1>0, <1>b, <2>1
  <2>4. child' \in [Accounts -> Kids]
    BY <1>0, <2>1, <2>2
  <2>5. Posts!TypeOK'
    BY <1>0, <2>1, <2>3, <2>4 DEF Posts!TypeOK, Kids, Doings, Flights, Posts!Times
  <2>6. ASSUME NEW a \in Accounts
        PROVE  \/ child'[a] = child[a]
               \/ /\ child[a].status = "pending" /\ child'[a].time = child[a].time /\ post = "row"
                  /\ child'[a].status # "none"
                  /\ child'[a].status = "scheduled" => doing[r].time # 0
    BY <2>1, <2>2
  <2>7. ASSUME NEW a \in Accounts PROVE Once(a)' /\ Together(a)'
    BY <1>a, <2>1, <2>6 DEF Once, Together
  <2>8. Timed'
    BY <1>a, <1>b, <2>1, <2>3, <2>6 DEF Timed
  <2> QED BY <1>a, <2>1, <2>3, <2>5, <2>6, <2>7, <2>8 DEF DashInv
<1>6. ASSUME NEW t \in Posts!Times, Posts!Reschedule(t) PROVE DashInv'
  <2> DEFINE moved == {a \in Accounts : child[a].status \in Posts!Waiting}
             to(a) == [child[a] EXCEPT !.time = t]
  <2>1. /\ post = "row" /\ t # 0 /\ time' = t
        /\ child' = [a \in Accounts |-> IF a \in moved THEN to(a) ELSE child[a]]
        /\ left' = Accounts \ moved
        /\ UNCHANGED <<post, flying, doing, out, reset, stale>>
    BY <1>6 DEF Posts!Reschedule, Posts!Unset
  <2>2. t \in 0..MaxTime
    BY DEF Posts!Times
  <2>3. ASSUME NEW a \in Accounts PROVE to(a) \in Kids /\ to(a).time = t /\ to(a).status = child[a].status
    BY <1>0, <2>2 DEF Kids, Posts!Times
  <2> HIDE DEF to
  <2>4. child' \in [Accounts -> Kids]
    BY <1>0, <2>1, <2>3
  <2>5. Posts!TypeOK'
    BY <1>0, <2>1, <2>2, <2>4 DEF Posts!TypeOK, Kids, Doings, Flights, Posts!Times
  <2>6. \A a \in Accounts : child'[a].status = child[a].status /\ (a \notin left' => child'[a].time = t)
    BY <2>1, <2>3
  <2>7. ASSUME NEW a \in Accounts PROVE Once(a)' /\ Together(a)'
    BY <1>a, <2>1, <2>6 DEF Once, Together
  <2>8. Timed'
    BY <2>1 DEF Timed
  <2> QED BY <2>1, <2>5, <2>7, <2>8 DEF DashInv
<1>7. ASSUME NEW a \in Accounts, Posts!Submit(a) PROVE DashInv'
  <2> DEFINE sent == [child[a] EXCEPT !.status = "pending"]
  <2>1. /\ child[a].status = "draft" /\ child' = [child EXCEPT ![a] = sent]
        /\ UNCHANGED <<post, time, flying, doing, out, reset, left, stale>>
    BY <1>7 DEF Posts!Submit
  <2>2. sent \in Kids /\ sent.time = child[a].time /\ sent.status = "pending"
    BY <1>0 DEF Kids
  <2> HIDE DEF sent
  <2>3. /\ child' \in [Accounts -> Kids]
        /\ \A b \in Accounts : child'[b] = child[b] \/ (b = a /\ child'[b] = sent)
    BY <1>0, <2>1, <2>2
  <2>4. Posts!TypeOK'
    BY <1>0, <2>1, <2>3 DEF Posts!TypeOK, Kids, Doings, Flights, Posts!Times
  <2>5. ASSUME NEW b \in Accounts PROVE Once(b)' /\ Together(b)'
    BY <1>a, <2>1, <2>2, <2>3 DEF Once, Together
  <2>6. Timed'
    BY <1>a, <2>1, <2>2, <2>3 DEF Timed
  <2>7. post # "none"
    BY <1>a, <1>b, <2>1
  <2> QED BY <2>1, <2>4, <2>5, <2>6, <2>7 DEF DashInv
<1>8. ASSUME NEW a \in Accounts, Posts!Claim(a) PROVE DashInv'
  <2> DEFINE sent == [child[a] EXCEPT !.status = "publishing"]
  <2>1. /\ child[a].status = "scheduled" /\ child' = [child EXCEPT ![a] = sent]
        /\ flying[a].row = "no" /\ out[a] < MaxPosted
        /\ flying' = [flying EXCEPT ![a] = [row |-> "child", time |-> child[a].time]]
        /\ UNCHANGED <<post, time, doing, out, reset, left, stale>>
    BY <1>8 DEF Posts!Claim
  <2>2. /\ sent \in Kids /\ sent.time = child[a].time /\ sent.status = "publishing"
        /\ [row |-> "child", time |-> child[a].time] \in Flights
    BY <1>0 DEF Kids, Flights
  <2> HIDE DEF sent
  <2>3. /\ child' \in [Accounts -> Kids] /\ flying' \in [Accounts -> Flights]
        /\ \A b \in Accounts : \/ child'[b] = child[b] /\ flying'[b] = flying[b]
                               \/ b = a /\ child'[b] = sent /\ flying'[b].row = "child"
    BY <1>0, <2>1, <2>2
  <2>4. Posts!TypeOK'
    BY <1>0, <2>1, <2>3 DEF Posts!TypeOK, Kids, Doings, Flights, Posts!Times
  <2>5. post # "none"
    BY <1>a, <1>b, <2>1
  <2>6. /\ MaxPosted > 0
        /\ a \notin reset => out[a] = 0
    <3>1. out[a] \in Nat
      BY <1>0
    <3>2. a \notin reset => out[a] <= 1 /\ out[a] # 1
      BY <1>a, <2>1 DEF Once
    <3> QED BY <1>0, <2>1, <3>1, <3>2
  <2>7. ASSUME NEW b \in Accounts PROVE Once(b)' /\ Together(b)'
    <3>1. CASE child'[b] = child[b] /\ flying'[b] = flying[b]
      BY <1>a, <2>1, <3>1 DEF Once, Together
    <3>2. CASE b = a /\ child'[b] = sent /\ flying'[b].row = "child"
      BY <1>a, <2>1, <2>2, <2>5, <2>6, <3>2 DEF Once, Together
    <3> QED BY <2>3, <3>1, <3>2
  <2>8. Timed'
    BY <1>a, <2>1, <2>2, <2>3 DEF Timed
  <2> QED BY <2>1, <2>4, <2>5, <2>7, <2>8 DEF DashInv
<1>9. ASSUME NEW a \in Accounts, Posts!Publish(a) PROVE DashInv'
  <2> DEFINE sent == [status |-> "published", time |-> flying[a].time]
  <2>1. /\ flying[a].row # "no" /\ flying' = [flying EXCEPT ![a] = Posts!Landed]
        /\ out' = [out EXCEPT ![a] = IF a \in reset THEN out[a] ELSE out[a] + 1]
        /\ \/ /\ flying[a].row = "child" \/ post = "row"
              /\ child' = [child EXCEPT ![a] = sent]
              /\ \/ left' = left \cup {a}
                 \/ left' = left /\ flying[a].row = "child" /\ flying[a].time = child[a].time
           \/ flying[a].row # "child" /\ UNCHANGED <<child, left>>
        /\ UNCHANGED <<post, time, doing, reset, stale>>
    BY <1>9 DEF Posts!Publish, Posts!Saves
  <2>2. /\ sent \in Kids /\ sent.time = flying[a].time /\ sent.status = "published"
        /\ Posts!Landed \in Flights /\ Posts!Landed.row = "no"
    BY <1>0 DEF Kids, Flights, Posts!Landed, Posts!Unset, Posts!Times
  <2> HIDE DEF sent
  <2>3. /\ MaxPosted > 0
        /\ a \notin reset => /\ flying[a].row = "child" /\ out[a] = 0 /\ post # "none"
                             /\ child[a].status = "publishing"
    BY <1>0, <1>a, <2>1 DEF Once, Flights
  <2>4. /\ child' \in [Accounts -> Kids] /\ flying' \in [Accounts -> Flights] /\ left' \subseteq Accounts
        /\ \A b \in Accounts :
             \/ b # a /\ child'[b] = child[b] /\ flying'[b] = flying[b]
             \/ /\ b = a /\ flying'[b].row = "no"
                /\ child'[b] = sent \/ (child'[b] = child[b] /\ flying[a].row # "child")
    BY <1>0, <2>1, <2>2
  <2>5. /\ out' \in [Accounts -> 0..MaxPosted]
        /\ \A b \in Accounts : \/ b # a /\ out'[b] = out[b]
                               \/ b = a /\ b \in reset /\ out'[b] = out[b]
                               \/ b = a /\ b \notin reset /\ out'[b] = 1
    <3>1. CASE a \in reset
      BY <1>0, <2>1, <3>1
    <3>2. CASE a \notin reset
      <4>1. out' = [out EXCEPT ![a] = 1] /\ 1 \in 0..MaxPosted
        BY <1>0, <2>1, <2>3, <3>2
      <4> QED BY <1>0, <3>2, <4>1
    <3> QED BY <3>1, <3>2
  <2>6. Posts!TypeOK'
    BY <1>0, <2>1, <2>4, <2>5 DEF Posts!TypeOK, Kids, Doings, Flights, Posts!Times
  <2>7. ASSUME NEW b \in Accounts PROVE Once(b)'
    <3>1. CASE b # a
      BY <1>a, <2>1, <2>4, <2>5, <3>1 DEF Once
    <3>2. CASE b = a
      BY <2>1, <2>2, <2>3, <2>4, <2>5, <3>2 DEF Once
    <3> QED BY <3>1, <3>2
  <2>8. ASSUME NEW b \in Accounts
        PROVE  /\ b \notin left' => b \notin left /\ child'[b].time = child[b].time
               /\ child'[b].status = "scheduled" => child'[b] = child[b]
    BY <1>0, <1>a, <2>1, <2>2, <2>4
  <2>9. ASSUME NEW b \in Accounts PROVE Together(b)'
    <3>1. CASE b # a
      BY <1>a, <2>1, <2>4, <2>8, <3>1 DEF Together
    <3>2. CASE b = a /\ b \notin left'
      <4>1. child'[b] = child[b] \/ (flying[a].row = "child" /\ child'[b].time = child[b].time)
        BY <1>0, <2>1, <2>2, <3>2
      <4>2. flying[a].row = "child" => child[a].status # "none"
        BY <1>a DEF Once
      <4> QED BY <1>a, <2>1, <2>8, <3>2, <4>1, <4>2 DEF Together
    <3> QED BY <3>1, <3>2 DEF Together
  <2>10. Timed'
    BY <1>a, <2>1, <2>8 DEF Timed
  <2>11. post # "none"
    BY <1>a, <2>1
  <2> QED BY <2>1, <2>6, <2>7, <2>9, <2>10, <2>11 DEF DashInv
<1>10. CASE Posts!Reject
  <2> DEFINE sent(a) == [child[a] EXCEPT !.status = "draft"]
  <2>1. /\ post = "row" /\ Posts!Forget
        /\ child' = [a \in Accounts |-> IF child[a].status = "none" THEN Posts!NoChild ELSE sent(a)]
        /\ UNCHANGED <<post, time, flying, doing, left, stale>>
    BY <1>10 DEF Posts!Reject
  <2>2. \A a \in Accounts : sent(a) \in Kids /\ sent(a).time = child[a].time /\ sent(a).status = "draft"
    BY <1>0 DEF Kids, Posts!Waiting
  <2> HIDE DEF sent
  <2>3. /\ out' \in [Accounts -> 0..MaxPosted] /\ reset' \subseteq Accounts
        /\ \A a \in Accounts : a \notin reset' => flying[a].row = "no" /\ out'[a] = 0
    BY <2>1, Forgotten
  <2>4. /\ child' \in [Accounts -> Kids]
        /\ \A a \in Accounts : \/ child[a].status = "none" /\ child'[a].status = "none"
                               \/ /\ child[a].status # "none" /\ child'[a].status = "draft"
                                  /\ child'[a].time = child[a].time
    BY <1>b, <2>1, <2>2
  <2>5. Posts!TypeOK'
    BY <1>0, <2>1, <2>3, <2>4 DEF Posts!TypeOK, Kids, Doings, Flights, Posts!Times
  <2>6. ASSUME NEW a \in Accounts PROVE Once(a)' /\ Together(a)'
    BY <1>a, <2>1, <2>3, <2>4 DEF Once, Together
  <2>7. Timed'
    BY <1>a, <2>1, <2>4 DEF Timed
  <2> QED BY <2>1, <2>5, <2>6, <2>7 DEF DashInv
<1>11. CASE Posts!Delete
  <2>1. /\ post = "row" /\ post' = "gone" /\ Posts!Forget
        /\ child' = [a \in Accounts |-> Posts!NoChild] /\ flying' = Posts!Orphans
        /\ UNCHANGED <<time, doing, left, stale>>
    BY <1>11 DEF Posts!Delete
  <2>2. /\ child' \in [Accounts -> Kids]
        /\ \A a \in Accounts : child'[a].status = "none"
    BY <1>b, <2>1
  <2>3. /\ out' \in [Accounts -> 0..MaxPosted] /\ reset' \subseteq Accounts
        /\ \A a \in Accounts : a \notin reset' => flying[a].row = "no" /\ out'[a] = 0
    BY <2>1, Forgotten
  <2>4. /\ flying' \in [Accounts -> Flights]
        /\ \A a \in Accounts : (flying'[a].row # "no" <=> flying[a].row # "no") /\ flying'[a].row # "child"
    BY <2>1, OrphanFlights
  <2>5. Posts!TypeOK'
    BY <1>0, <2>1, <2>2, <2>3, <2>4 DEF Posts!TypeOK, Kids, Doings, Flights, Posts!Times
  <2>6. ASSUME NEW a \in Accounts PROVE Once(a)' /\ Together(a)'
    BY <1>a, <2>1, <2>2, <2>3, <2>4 DEF Once, Together
  <2>7. Timed'
    BY <1>a, <2>1, <2>2 DEF Timed
  <2> QED BY <2>1, <2>5, <2>6, <2>7 DEF DashInv
<1>12. CASE UNCHANGED Posts!vars
  BY <1>12 DEF Posts!vars, DashInv, Posts!TypeOK, Once, Together, Timed
<1>13. ASSUME NEW r \in Requests, NEW t \in Posts!Times, NEW S \in SUBSET Accounts, Posts!BeginEdit(r, t, S)
       PROVE  DashInv'
  BY <1>2, <1>13 DEF Posts!BeginEdit, Posts!Times
<1>14. ASSUME NEW r \in Requests, Posts!BeginApprove(r) PROVE DashInv'
  <2>1. Posts!Begin(r, "approve", time, {})
    BY <1>14 DEF Posts!BeginApprove
  <2> QED BY <1>0, <1>2, <2>1
<1> QED BY <1>1, <1>3, <1>4, <1>5, <1>6, <1>7, <1>8, <1>9, <1>10, <1>11, <1>12, <1>13, <1>14 DEF Posts!Next

-----------------------------------------------------------------------------
(* Workspaces.                                                             *)

\* A request that works alone finds what it read.
Fresh(r) ==
  /\ asking[r].op = "create" => space[asking[r].space] = "active"
  /\ asking[r].op \in Places!Ops =>
       /\ asking[r].space \in owned
       /\ space[asking[r].space] = asking[r].seen
       /\ asking[r].seen \in {"active", "archived"}
       /\ asking[r].counted =>
            \/ asking[r].op = "delete" /\ asking[r].seen = "archived"
            \/ \E w \in Workspaces : w # asking[r].space /\ space[w] = "active"
Alone ==
  /\ \A r \in Requests : Fresh(r)
  /\ \A w \in Workspaces \ torn : space[w] = "active" => w \in owned
  /\ torn # {} \/ \E w \in owned : space[w] = "active"

PlacesInv ==
  /\ Places!TypeOK
  /\ \A r \in Requests : asking[r].op # "idle" => asking[r].space \in Workspaces
  /\ together \/ Alone

Askings == [op : Places!Ops \cup {"idle", "create"}, space : Workspaces \cup {"none"},
            seen : {"none", "active", "archived"}, counted : BOOLEAN]

LEMMA PlacesTypes ==
  ASSUME Places!TypeOK
  PROVE  /\ space \in [Workspaces -> {"none", "active", "archived", "gone"}]
         /\ owned \subseteq Workspaces /\ asking \in [Requests -> Askings]
         /\ torn \subseteq Workspaces /\ together \in BOOLEAN
BY DEF Places!TypeOK, Askings

LEMMA PlacesInit == Places!Init => PlacesInv
<1> SUFFICES ASSUME Places!Init PROVE PlacesInv
  OBVIOUS
<1>1. Places!Idle \in Askings /\ Places!Idle.op = "idle"
  BY DEF Places!Idle, Askings
<1>2. /\ space = [w \in Workspaces |-> IF w = First THEN "active" ELSE "none"]
      /\ owned = {First} /\ asking = [r \in Requests |-> Places!Idle] /\ torn = {} /\ together = FALSE
      /\ First \in Workspaces
  BY SetAssumption DEF Places!Init
<1>3. Places!TypeOK
  BY <1>1, <1>2 DEF Places!TypeOK, Askings
<1>4. \A r \in Requests : asking[r].op = "idle"
  BY <1>1, <1>2
<1>5. Alone
  BY <1>2, <1>4 DEF Alone, Fresh, Places!Ops
<1> QED BY <1>3, <1>4, <1>5 DEF PlacesInv

\* Who counts more than one active workspace leaves another behind.
LEMMA AnotherActive ==
  ASSUME NEW w \in Workspaces, ~(Cardinality(Places!Active) <= 1)
  PROVE  \E v \in Workspaces : v # w /\ space[v] = "active"
<1> SUFFICES ASSUME \A v \in Workspaces : space[v] = "active" => v = w PROVE FALSE
  OBVIOUS
<1>1. Places!Active \subseteq {w}
  BY DEF Places!Active
<1>2. IsFiniteSet({w}) /\ Cardinality({w}) = 1
  BY FS_Singleton
<1>3. Cardinality(Places!Active) <= 1 /\ Cardinality(Places!Active) \in Nat
  BY <1>1, <1>2, FS_Subset, FS_CardinalityType
<1> QED BY <1>3

LEMMA PlacesCount == ASSUME NEW S PROVE Places!Cardinality(S) = Cardinality(S)
BY SMT DEF Places!Cardinality, Cardinality

\* A request that stands still, or ends, says nothing new.
LEMMA PlacesEnd ==
  ASSUME PlacesInv, NEW r \in Requests, Places!End(r)
  PROVE  /\ asking' \in [Requests -> Askings]
         /\ asking'[r].op = "idle"
         /\ \A q \in Requests : q # r => asking'[q] = asking[q]
<1>1. Places!Idle \in Askings /\ Places!Idle.op = "idle"
  BY DEF Places!Idle, Askings
<1>2. asking \in [Requests -> Askings]
  BY PlacesTypes DEF PlacesInv
<1> QED BY <1>1, <1>2 DEF Places!End

\* A request that writes unseen finds every other idle.
LEMMA WritesAlone ==
  ASSUME PlacesInv, NEW r \in Requests, Places!Wrote(r), asking' \in [Requests -> Askings],
         \A q \in Requests : q # r => asking'[q] = asking[q]
  PROVE  /\ together' \in BOOLEAN
         /\ together' \/ /\ Alone /\ Fresh(r)
                         /\ \A q \in Requests : q # r => asking'[q].op = "idle"
<1>1. Places!Idle.op = "idle"
  BY DEF Places!Idle
<1>2. together' = (together \/ \E q \in Requests \ {r} : asking[q] # Places!Idle) /\ together \in BOOLEAN
  BY PlacesTypes DEF Places!Wrote, PlacesInv
<1>3. ASSUME ~together' PROVE ~together /\ \A q \in Requests : q # r => asking'[q].op = "idle"
  BY <1>1, <1>2, <1>3
<1>4. ASSUME ~together' PROVE Alone /\ Fresh(r)
  BY <1>3, <1>4 DEF PlacesInv, Alone
<1> QED BY <1>2, <1>3, <1>4

LEMMA PlacesNext == PlacesInv /\ [Places!Next]_Places!vars => PlacesInv'
<1> SUFFICES ASSUME PlacesInv, [Places!Next]_Places!vars PROVE PlacesInv'
  OBVIOUS
<1>0. /\ space \in [Workspaces -> {"none", "active", "archived", "gone"}]
      /\ owned \subseteq Workspaces /\ asking \in [Requests -> Askings]
      /\ torn \subseteq Workspaces /\ together \in BOOLEAN
  BY PlacesTypes DEF PlacesInv
<1>a. \A r \in Requests : asking[r].op # "idle" => asking[r].space \in Workspaces
  BY DEF PlacesInv
\* Reads: the rows stay.
<1>b. ASSUME NEW r \in Requests, UNCHANGED <<space, owned, torn, together>>,
             asking' \in [Requests -> Askings],
             asking'[r].op # "idle" => asking'[r].space \in Workspaces,
             \A q \in Requests : q # r => asking'[q] = asking[q],
             ~together => Fresh(r)'
      PROVE  PlacesInv'
  <2>1. Places!TypeOK'
    BY <1>0, <1>b DEF Places!TypeOK, Askings
  <2>2. \A q \in Requests : asking'[q].op # "idle" => asking'[q].space \in Workspaces
    BY <1>a, <1>b
  <2>3. ASSUME ~together, NEW q \in Requests PROVE Fresh(q)'
    <3>1. CASE q = r
      BY <1>b, <2>3, <3>1
    <3>2. CASE q # r
      <4>1. Fresh(q)
        BY <2>3 DEF PlacesInv, Alone
      <4>2. asking'[q] = asking[q] /\ space' = space /\ owned' = owned
        BY <1>b, <3>2
      <4> QED BY <4>1, <4>2 DEF Fresh
    <3> QED BY <3>1, <3>2
  <2>4. ASSUME ~together PROVE Alone'
    <3>1. Alone
      BY <2>4 DEF PlacesInv
    <3> QED BY <1>b, <2>3, <2>4, <3>1 DEF Alone
  <2> QED BY <1>b, <2>1, <2>2, <2>4 DEF PlacesInv
\* Writes: whoever wrote unseen is alone, and is done.
<1>c. ASSUME NEW r \in Requests, Places!Wrote(r), Places!End(r),
             space' \in [Workspaces -> {"none", "active", "archived", "gone"}],
             owned' \subseteq Workspaces, torn' \subseteq Workspaces,
             Alone /\ Fresh(r) =>
               /\ \A w \in Workspaces \ torn' : space'[w] = "active" => w \in owned'
               /\ torn' # {} \/ \E w \in owned' : space'[w] = "active"
      PROVE  PlacesInv'
  <2>1. /\ asking' \in [Requests -> Askings] /\ asking'[r].op = "idle"
        /\ \A q \in Requests : q # r => asking'[q] = asking[q]
    BY <1>c, PlacesEnd
  <2>2. /\ together' \in BOOLEAN
        /\ together' \/ /\ Alone /\ Fresh(r)
                        /\ \A q \in Requests : q # r => asking'[q].op = "idle"
    BY <1>c, <2>1, WritesAlone
  <2>3. Places!TypeOK'
    BY <1>c, <2>1, <2>2 DEF Places!TypeOK, Askings
  <2>4. \A q \in Requests : asking'[q].op # "idle" => asking'[q].space \in Workspaces
    BY <1>a, <2>1
  <2>5. ASSUME ~together' PROVE Alone'
    <3>1. \A q \in Requests : asking'[q].op = "idle"
      BY <2>1, <2>2, <2>5
    <3>2. \A q \in Requests : Fresh(q)'
      BY <3>1 DEF Fresh, Places!Ops
    <3> QED BY <1>c, <2>2, <2>5, <3>2 DEF Alone
  <2> QED BY <2>3, <2>4, <2>5 DEF PlacesInv
<1>1. ASSUME NEW r \in Requests, NEW w \in Workspaces, Places!Create(r, w) PROVE PlacesInv'
  <2> DEFINE made == [[Places!Idle EXCEPT !.op = "create"] EXCEPT !.space = w]
  <2>1. /\ space[w] = "none" /\ asking' = [asking EXCEPT ![r] = made]
        /\ space' = [space EXCEPT ![w] = "active"] /\ torn' = torn \cup {w}
        /\ Places!Wrote(r) /\ owned' = owned
    BY <1>1 DEF Places!Create
  <2>2. made \in Askings /\ made.op = "create" /\ made.space = w
    BY DEF Places!Idle, Askings
  <2> HIDE DEF made
  <2>3. /\ asking' \in [Requests -> Askings] /\ asking'[r] = made
        /\ \A q \in Requests : q # r => asking'[q] = asking[q]
    BY <1>0, <2>1, <2>2
  <2>4. /\ together' \in BOOLEAN
        /\ together' \/ /\ Alone /\ Fresh(r)
                        /\ \A q \in Requests : q # r => asking'[q].op = "idle"
    BY <2>1, <2>3, WritesAlone
  <2>5. space' \in [Workspaces -> {"none", "active", "archived", "gone"}] /\ torn' \subseteq Workspaces
    BY <1>0, <2>1
  <2>6. Places!TypeOK'
    BY <1>0, <2>1, <2>3, <2>4, <2>5 DEF Places!TypeOK, Askings
  <2>7. \A q \in Requests : asking'[q].op # "idle" => asking'[q].space \in Workspaces
    BY <1>a, <2>2, <2>3
  <2>8. ASSUME ~together' PROVE Alone'
    <3>1. ASSUME NEW q \in Requests PROVE Fresh(q)'
      <4>1. CASE q = r
        BY <1>0, <2>1, <2>2, <2>3, <4>1 DEF Fresh, Places!Ops
      <4>2. CASE q # r
        BY <2>4, <2>8, <4>2 DEF Fresh, Places!Ops
      <4> QED BY <4>1, <4>2
    <3>2. \A v \in Workspaces \ torn' : space'[v] = "active" => v \in owned'
      BY <1>0, <2>1, <2>4, <2>8 DEF Alone
    <3> QED BY <2>1, <3>1, <3>2 DEF Alone
  <2> QED BY <2>6, <2>7, <2>8 DEF PlacesInv
<1>2. ASSUME NEW r \in Requests, Places!Own(r) PROVE PlacesInv'
  <2>1. /\ asking[r].op = "create" /\ Places!End(r) /\ Places!Wrote(r) /\ space' = space
        /\ owned' = owned \cup {asking[r].space} /\ torn' = torn \ {asking[r].space}
    BY <1>2 DEF Places!Own, Places!Of
  <2>2. asking[r].space \in Workspaces
    BY <1>a, <2>1
  <2>3. Alone /\ Fresh(r) =>
          /\ \A w \in Workspaces \ torn' : space'[w] = "active" => w \in owned'
          /\ torn' # {} \/ \E w \in owned' : space'[w] = "active"
    BY <2>1 DEF Alone, Fresh
  <2> QED BY <1>0, <1>c, <2>1, <2>2, <2>3
<1>3. ASSUME NEW r \in Requests, NEW op \in Places!Ops, NEW w \in Workspaces, Places!Begin(r, op, w)
      PROVE  PlacesInv'
  <2> DEFINE begun == [op |-> op, space |-> w, seen |-> space[w], counted |-> FALSE]
  <2>1. /\ w \in owned /\ space[w] \in {"active", "archived"}
        /\ asking' = [asking EXCEPT ![r] = begun] /\ UNCHANGED <<space, owned, torn, together>>
    BY <1>3 DEF Places!Begin
  <2>2. begun \in Askings /\ begun.op = op /\ begun.space = w /\ begun.seen = space[w] /\ ~begun.counted
    BY <2>1 DEF Askings
  <2> HIDE DEF begun
  <2>3. /\ asking' \in [Requests -> Askings] /\ asking'[r] = begun
        /\ \A q \in Requests : q # r => asking'[q] = asking[q]
    BY <1>0, <2>1, <2>2
  <2>4. Fresh(r)'
    BY <2>1, <2>2, <2>3 DEF Fresh, Places!Ops
  <2> QED BY <1>b, <2>1, <2>2, <2>3, <2>4
<1>4. ASSUME NEW r \in Requests, Places!Count(r) PROVE PlacesInv'
  <2>1. /\ asking[r].op \in {"archive", "delete"} /\ UNCHANGED <<space, owned, torn, together>>
    BY <1>4 DEF Places!Count
  <2>2. CASE Places!End(r)
    <3>1. /\ asking' \in [Requests -> Askings] /\ asking'[r].op = "idle"
          /\ \A q \in Requests : q # r => asking'[q] = asking[q]
      BY <2>2, PlacesEnd
    <3>2. Fresh(r)'
      BY <3>1 DEF Fresh, Places!Ops
    <3> QED BY <1>b, <2>1, <3>1, <3>2
  <2>3. CASE ~Places!End(r)
    <3> DEFINE counted == [asking[r] EXCEPT !.counted = TRUE]
    <3>1. /\ asking' = [asking EXCEPT ![r] = counted]
          /\ ~(Places!Cardinality(Places!Active) <= 1) \/ (asking[r].op = "delete" /\ asking[r].seen = "archived")
      BY <1>4, <2>3 DEF Places!Count
    <3>2. /\ counted \in Askings /\ counted.op = asking[r].op /\ counted.space = asking[r].space
          /\ counted.seen = asking[r].seen
      BY <1>0 DEF Askings
    <3> HIDE DEF counted
    <3>3. /\ asking' \in [Requests -> Askings] /\ asking'[r] = counted
          /\ \A q \in Requests : q # r => asking'[q] = asking[q]
      BY <1>0, <3>1, <3>2
    <3>4. asking[r].space \in Workspaces
      BY <1>a, <2>1
    <3>5. \/ asking[r].op = "delete" /\ asking[r].seen = "archived"
          \/ \E v \in Workspaces : v # asking[r].space /\ space[v] = "active"
      BY <3>1, <3>4, AnotherActive, PlacesCount
    <3>6. ASSUME ~together PROVE Fresh(r)'
      <4>1. Fresh(r)
        BY <3>6 DEF PlacesInv, Alone
      <4> QED BY <2>1, <3>2, <3>3, <3>5, <4>1 DEF Fresh, Places!Ops
    <3> QED BY <1>b, <2>1, <3>2, <3>3, <3>4, <3>6
  <2> QED BY <2>2, <2>3
<1>5. ASSUME NEW r \in Requests, Places!Archive(r) PROVE PlacesInv'
  <2>1. /\ asking[r].op = "archive" /\ asking[r].counted /\ Places!End(r) /\ Places!Wrote(r)
        /\ space' = [space EXCEPT ![asking[r].space] = IF space[asking[r].space] = "gone" THEN "gone" ELSE "archived"]
        /\ UNCHANGED <<owned, torn>>
    BY <1>5 DEF Places!Archive, Places!Of
  <2>2. space' \in [Workspaces -> {"none", "active", "archived", "gone"}] /\ asking[r].space \in Workspaces
    BY <1>0, <1>a, <2>1
  <2>3. \A w \in Workspaces : /\ space'[w] = "active" => space[w] = "active"
                              /\ w # asking[r].space => space'[w] = space[w]
    BY <1>0, <2>1
  <2>4. Alone /\ Fresh(r) =>
          /\ \A w \in Workspaces \ torn' : space'[w] = "active" => w \in owned'
          /\ torn' # {} \/ \E w \in owned' : space'[w] = "active"
    BY <1>0, <2>1, <2>3 DEF Alone, Fresh, Places!Ops
  <2> QED BY <1>0, <1>c, <2>1, <2>2, <2>4
<1>6. ASSUME NEW r \in Requests, Places!Unarchive(r) PROVE PlacesInv'
  <2>1. /\ asking[r].op = "unarchive" /\ Places!End(r) /\ Places!Wrote(r)
        /\ space' = [space EXCEPT ![asking[r].space] = IF space[asking[r].space] = "gone" THEN "gone" ELSE "active"]
        /\ UNCHANGED <<owned, torn>>
    BY <1>6 DEF Places!Unarchive, Places!Of
  <2>2. space' \in [Workspaces -> {"none", "active", "archived", "gone"}] /\ asking[r].space \in Workspaces
    BY <1>0, <1>a, <2>1
  <2>3. \A w \in Workspaces : /\ space[w] = "active" => space'[w] = "active"
                              /\ w # asking[r].space => space'[w] = space[w]
    BY <1>0, <2>1
  <2>4. Alone /\ Fresh(r) =>
          /\ \A w \in Workspaces \ torn' : space'[w] = "active" => w \in owned'
          /\ torn' # {} \/ \E w \in owned' : space'[w] = "active"
    BY <1>0, <2>1, <2>3 DEF Alone, Fresh, Places!Ops
  <2> QED BY <1>0, <1>c, <2>1, <2>2, <2>4
<1>7. ASSUME NEW r \in Requests, Places!Delete(r) PROVE PlacesInv'
  <2>1. /\ asking[r].op = "delete" /\ asking[r].counted /\ Places!End(r) /\ Places!Wrote(r)
        /\ space' = [space EXCEPT ![asking[r].space] = "gone"] /\ owned' = owned \ {asking[r].space}
        /\ torn' = torn
    BY <1>7 DEF Places!Delete, Places!Of
  <2>2. space' \in [Workspaces -> {"none", "active", "archived", "gone"}] /\ asking[r].space \in Workspaces
    BY <1>0, <1>a, <2>1
  <2>3. \A w \in Workspaces : /\ space'[w] = "active" => space[w] = "active" /\ w # asking[r].space
                              /\ w # asking[r].space => space'[w] = space[w]
    BY <1>0, <2>1
  <2>4. Alone /\ Fresh(r) =>
          /\ \A w \in Workspaces \ torn' : space'[w] = "active" => w \in owned'
          /\ torn' # {} \/ \E w \in owned' : space'[w] = "active"
    BY <1>0, <2>1, <2>3 DEF Alone, Fresh, Places!Ops
  <2> QED BY <1>0, <1>c, <2>1, <2>2, <2>4
<1>8. ASSUME NEW r \in Requests, Places!Save(r) PROVE PlacesInv'
  <2>1. /\ asking[r].op = "save" /\ Places!End(r) /\ Places!Wrote(r)
        /\ space' = [space EXCEPT ![asking[r].space] = asking[r].seen]
        /\ UNCHANGED <<owned, torn>>
    BY <1>8 DEF Places!Save, Places!Of
  <2>2. space' \in [Workspaces -> {"none", "active", "archived", "gone"}] /\ asking[r].space \in Workspaces
    BY <1>0, <1>a, <2>1 DEF Askings
  <2>3. Fresh(r) => space' = space
    BY <1>0, <2>1 DEF Fresh, Places!Ops
  <2>4. Alone /\ Fresh(r) =>
          /\ \A w \in Workspaces \ torn' : space'[w] = "active" => w \in owned'
          /\ torn' # {} \/ \E w \in owned' : space'[w] = "active"
    BY <2>1, <2>3 DEF Alone
  <2> QED BY <1>0, <1>c, <2>1, <2>2, <2>4
<1>9. ASSUME NEW r \in Requests, Places!Kill(r) PROVE PlacesInv'
  <2>1. Places!End(r) /\ UNCHANGED <<space, owned, torn, together>>
    BY <1>9 DEF Places!Kill
  <2>2. /\ asking' \in [Requests -> Askings] /\ asking'[r].op = "idle"
        /\ \A q \in Requests : q # r => asking'[q] = asking[q]
    BY <2>1, PlacesEnd
  <2>3. Fresh(r)'
    BY <2>2 DEF Fresh, Places!Ops
  <2> QED BY <1>b, <2>1, <2>2, <2>3
<1>10. CASE UNCHANGED Places!vars
  BY <1>10 DEF Places!vars, PlacesInv, Places!TypeOK, Alone, Fresh
<1> QED BY <1>1, <1>2, <1>3, <1>4, <1>5, <1>6, <1>7, <1>8, <1>9, <1>10 DEF Places!Next

-----------------------------------------------------------------------------
(* The clients' links.                                                     *)

\* Whoever took a link is the only one, and logs in once.
Taken(l) ==
  /\ opened[l] <= 1
  /\ ~link[l].used => opened[l] = 0
  /\ \A r \in Requests : visit[r].step = "login" /\ visit[r].link = l =>
       /\ link[l].used /\ opened[l] = 0
       /\ \A q \in Requests : visit[q].step = "login" /\ visit[q].link = l => q = r
\* From the removal on nothing is open, and nothing is sent.
Closed ==
  crossing \/ (client /\ \A r \in Requests : visit[r].step # "remove")
           \/ /\ \A r \in Requests : visit[r].step \notin {"expire", "create"}
              /\ \A l \in Links : link[l].state = "valid" => link[l].used

PortalInv ==
  /\ Portal!TypeOK
  /\ \A r \in Requests : visit[r].step \in {"consume", "login"} => visit[r].link \in Links
  /\ \A l \in Links : Taken(l)
  /\ Closed

Letters == [state : {"absent", "valid", "expired"}, used : BOOLEAN]
Visits == [step : Portal!Steps, link : Links \cup {"none"}]

LEMMA PortalTypes ==
  ASSUME Portal!TypeOK
  PROVE  /\ client \in BOOLEAN /\ crossing \in BOOLEAN
         /\ link \in [Links -> Letters] /\ visit \in [Requests -> Visits]
         /\ opened \in [Links -> 0..2]
BY DEF Portal!TypeOK, Letters, Visits

LEMMA PortalInit == Portal!Init => PortalInv
<1> SUFFICES ASSUME Portal!Init PROVE PortalInv
  OBVIOUS
<1>1. Portal!Idle \in Visits /\ Portal!Idle.step = "idle"
  BY DEF Portal!Idle, Visits, Portal!Steps
<1>2. /\ client = TRUE /\ crossing = FALSE /\ opened = [l \in Links |-> 0]
      /\ link = [l \in Links |-> [state |-> "absent", used |-> FALSE]]
      /\ visit = [r \in Requests |-> Portal!Idle]
  BY DEF Portal!Init
<1>3. Portal!TypeOK
  <2>1. link \in [Links -> [state : {"absent", "valid", "expired"}, used : BOOLEAN]]
    BY <1>2
  <2>2. visit \in [Requests -> [step : Portal!Steps, link : Links \cup {"none"}]]
    BY <1>1, <1>2 DEF Visits
  <2>3. opened \in [Links -> 0..2]
    BY <1>2
  <2>4. client \in BOOLEAN /\ crossing \in BOOLEAN
    BY <1>2
  <2> QED BY <2>1, <2>2, <2>3, <2>4 DEF Portal!TypeOK
<1>4. \A r \in Requests : visit[r].step = "idle"
  BY <1>1, <1>2
<1>5. \A l \in Links : Taken(l)
  BY <1>2, <1>4 DEF Taken
<1> QED BY <1>2, <1>3, <1>4, <1>5 DEF PortalInv, Closed

\* What a step of one request makes of the others.
LEMMA PortalGo ==
  ASSUME Portal!TypeOK, NEW r \in Requests, NEW step \in Portal!Steps, NEW l \in Links \cup {"none"},
         Portal!Go(r, step, l)
  PROVE  /\ visit' \in [Requests -> Visits] /\ visit'[r].step = step /\ visit'[r].link = l
         /\ \A q \in Requests : q # r => visit'[q] = visit[q]
<1> DEFINE here == [step |-> step, link |-> l]
<1>1. here \in Visits /\ here.step = step /\ here.link = l
  BY DEF Visits
<1>2. visit' = [visit EXCEPT ![r] = here] /\ visit \in [Requests -> Visits]
  BY PortalTypes DEF Portal!Go
<1> HIDE DEF here
<1> QED BY <1>1, <1>2

LEMMA PortalEnd ==
  ASSUME Portal!TypeOK, NEW r \in Requests, Portal!End(r)
  PROVE  /\ visit' \in [Requests -> Visits] /\ visit'[r].step = "idle"
         /\ \A q \in Requests : q # r => visit'[q] = visit[q]
<1>1. Portal!Idle \in Visits /\ Portal!Idle.step = "idle"
  BY DEF Portal!Idle, Visits, Portal!Steps
<1>2. visit' = [visit EXCEPT ![r] = Portal!Idle] /\ visit \in [Requests -> Visits]
  BY PortalTypes DEF Portal!End
<1> QED BY <1>1, <1>2

\* Links that expire stay used or not.
LEMMA PortalExpired ==
  ASSUME Portal!TypeOK, NEW all \in BOOLEAN
  PROVE  /\ Portal!Expired(all) \in [Links -> Letters]
         /\ \A l \in Links : /\ Portal!Expired(all)[l].used = link[l].used
                             /\ Portal!Expired(all)[l].state = "valid" => link[l].state = "valid"
                             /\ all => Portal!Expired(all)[l].state # "valid"
<1> DEFINE shut(l) == [link[l] EXCEPT !.state = "expired"]
<1>1. link \in [Links -> Letters]
  BY PortalTypes
<1>2. \A l \in Links : shut(l) \in Letters /\ shut(l).used = link[l].used /\ shut(l).state = "expired"
  BY <1>1 DEF Letters
<1>3. Portal!Expired(all) = [l \in Links |-> IF link[l].state = "valid" /\ (all \/ ~link[l].used)
                                             THEN shut(l) ELSE link[l]]
  BY DEF Portal!Expired
<1> HIDE DEF shut
<1> QED BY <1>1, <1>2, <1>3

LEMMA PortalNext == PortalInv /\ [Portal!Next]_Portal!vars => PortalInv'
<1> SUFFICES ASSUME PortalInv, [Portal!Next]_Portal!vars PROVE PortalInv'
  OBVIOUS
<1>0. /\ client \in BOOLEAN /\ crossing \in BOOLEAN
      /\ link \in [Links -> Letters] /\ visit \in [Requests -> Visits]
      /\ opened \in [Links -> 0..2] /\ Portal!TypeOK
  BY PortalTypes DEF PortalInv
<1>a. /\ \A r \in Requests : visit[r].step \in {"consume", "login"} => visit[r].link \in Links
      /\ \A l \in Links : Taken(l)
      /\ Closed
  BY DEF PortalInv
\* A step of a request that takes no link: links that close stay used or not.
<1>b. ASSUME NEW r \in Requests, client' \in BOOLEAN, crossing' \in BOOLEAN, opened' = opened,
             link' \in [Links -> Letters], \A l \in Links : link'[l].used = link[l].used,
             visit' \in [Requests -> Visits],
             visit'[r].step # "login", visit'[r].step = "consume" => visit'[r].link \in Links,
             \A q \in Requests : q # r => visit'[q] = visit[q],
             Closed'
      PROVE  PortalInv'
  <2>1. Portal!TypeOK'
    BY <1>0, <1>b DEF Portal!TypeOK, Letters, Visits
  <2>2. \A q \in Requests : visit'[q].step \in {"consume", "login"} => visit'[q].link \in Links
    BY <1>a, <1>b
  <2>3. \A q \in Requests : visit'[q].step = "login" => visit[q].step = "login" /\ visit'[q].link = visit[q].link
    BY <1>b
  <2>4. ASSUME NEW l \in Links PROVE Taken(l)'
    BY <1>a, <1>b, <2>3 DEF Taken
  <2> QED BY <1>b, <2>1, <2>2, <2>4 DEF PortalInv
<1>1. ASSUME NEW r \in Requests, Portal!Generate(r) PROVE PortalInv'
  <2>1. /\ client /\ Portal!Go(r, "expire", "none") /\ UNCHANGED <<client, link, opened>>
        /\ crossing' = (crossing \/ Portal!Sending \/ Portal!Removing)
    BY <1>1 DEF Portal!Generate
  <2>2. /\ visit' \in [Requests -> Visits] /\ visit'[r].step = "expire"
        /\ \A q \in Requests : q # r => visit'[q] = visit[q]
    BY <1>0, <2>1, PortalGo DEF Portal!Steps
  <2>3. crossing' \in BOOLEAN /\ (~crossing' => \A q \in Requests : visit[q].step # "remove")
    BY <1>0, <2>1 DEF Portal!Removing, Portal!At
  <2>4. Closed'
    BY <2>1, <2>2, <2>3 DEF Closed
  <2> QED BY <1>0, <1>b, <2>1, <2>2, <2>3, <2>4
<1>2. ASSUME NEW r \in Requests, Portal!ExpireEarlier(r) PROVE PortalInv'
  <2>1. /\ visit[r].step = "expire" /\ Portal!Go(r, "create", "none") /\ UNCHANGED <<client, opened, crossing>>
        /\ link' = Portal!Expired(FALSE)
    BY <1>2 DEF Portal!ExpireEarlier, Portal!At
  <2>2. /\ visit' \in [Requests -> Visits] /\ visit'[r].step = "create"
        /\ \A q \in Requests : q # r => visit'[q] = visit[q]
    BY <1>0, <2>1, PortalGo DEF Portal!Steps
  <2>3. /\ link' \in [Links -> Letters] /\ \A l \in Links : link'[l].used = link[l].used
    BY <1>0, <2>1, PortalExpired
  <2>4. Closed'
    BY <1>a, <2>1, <2>2 DEF Closed
  <2> QED BY <1>0, <1>b, <2>1, <2>2, <2>3, <2>4
<1>3. ASSUME NEW r \in Requests, NEW l \in Links, Portal!CreateLink(r, l) PROVE PortalInv'
  <2> DEFINE valid == [link[l] EXCEPT !.state = "valid"]
  <2>1. /\ visit[r].step = "create" /\ Portal!End(r) /\ UNCHANGED <<client, opened, crossing>>
        /\ link' = [link EXCEPT ![l] = valid]
    BY <1>3 DEF Portal!CreateLink, Portal!At
  <2>2. /\ visit' \in [Requests -> Visits] /\ visit'[r].step = "idle"
        /\ \A q \in Requests : q # r => visit'[q] = visit[q]
    BY <1>0, <2>1, PortalEnd
  <2>3. valid \in Letters /\ valid.used = link[l].used
    BY <1>0 DEF Letters
  <2> HIDE DEF valid
  <2>4. /\ link' \in [Links -> Letters] /\ \A k \in Links : link'[k].used = link[k].used
    BY <1>0, <2>1, <2>3
  <2>5. Closed'
    BY <1>a, <2>1, <2>2 DEF Closed
  <2> QED BY <1>0, <1>b, <2>1, <2>2, <2>4, <2>5
<1>4. ASSUME NEW l \in Links, Portal!Revoke(l) PROVE PortalInv'
  <2> DEFINE shut == [link[l] EXCEPT !.state = "expired"]
  <2>1. link' = [link EXCEPT ![l] = shut] /\ UNCHANGED <<client, visit, opened, crossing>>
    BY <1>4 DEF Portal!Revoke
  <2>2. shut \in Letters /\ shut.used = link[l].used /\ shut.state = "expired"
    BY <1>0 DEF Letters
  <2> HIDE DEF shut
  <2>3. /\ link' \in [Links -> Letters]
        /\ \A k \in Links : /\ link'[k].used = link[k].used
                            /\ link'[k].state = "valid" => link[k].state = "valid"
    BY <1>0, <2>1, <2>2
  <2>4. Portal!TypeOK'
    BY <1>0, <2>1, <2>3 DEF Portal!TypeOK, Letters, Visits
  <2>5. \A k \in Links : Taken(k)'
    BY <1>a, <2>1, <2>3 DEF Taken
  <2>6. Closed'
    BY <1>a, <2>1, <2>3 DEF Closed
  <2> QED BY <1>a, <2>1, <2>4, <2>5, <2>6 DEF PortalInv
<1>5. ASSUME NEW r \in Requests, NEW l \in Links, Portal!Enter(r, l) PROVE PortalInv'
  <2>1. Portal!Go(r, "consume", l) /\ UNCHANGED <<client, link, opened, crossing>>
    BY <1>5 DEF Portal!Enter
  <2>2. /\ visit' \in [Requests -> Visits] /\ visit'[r].step = "consume" /\ visit'[r].link = l
        /\ \A q \in Requests : q # r => visit'[q] = visit[q]
    BY <1>0, <2>1, PortalGo DEF Portal!Steps
  <2>3. Closed'
    BY <1>a, <2>1, <2>2 DEF Closed
  <2> QED BY <1>0, <1>b, <2>1, <2>2, <2>3
<1>6. ASSUME NEW r \in Requests, Portal!Consume(r) PROVE PortalInv'
  <2> DEFINE l == visit[r].link
             taken == [link[l] EXCEPT !.used = TRUE]
  <2>1. visit[r].step = "consume" /\ UNCHANGED <<client, opened, crossing>> /\ l \in Links
    BY <1>6, <1>a DEF Portal!Consume, Portal!At
  <2>2. CASE link[l].used
    <3>1. Portal!End(r) /\ UNCHANGED link
      BY <1>6, <2>2 DEF Portal!Consume
    <3>2. /\ visit' \in [Requests -> Visits] /\ visit'[r].step = "idle"
          /\ \A q \in Requests : q # r => visit'[q] = visit[q]
      BY <1>0, <3>1, PortalEnd
    <3>3. Closed'
      BY <1>a, <2>1, <3>1, <3>2 DEF Closed
    <3> QED BY <1>0, <1>b, <2>1, <3>1, <3>2, <3>3
  <2>3. CASE ~link[l].used
    <3>1. Portal!Go(r, "login", l) /\ link' = [link EXCEPT ![l] = taken]
      BY <1>6, <2>3 DEF Portal!Consume
    <3>2. /\ visit' \in [Requests -> Visits] /\ visit'[r].step = "login" /\ visit'[r].link = l
          /\ \A q \in Requests : q # r => visit'[q] = visit[q]
      BY <1>0, <2>1, <3>1, PortalGo DEF Portal!Steps
    <3>3. taken \in Letters /\ taken.used /\ taken.state = link[l].state
      BY <1>0, <2>1 DEF Letters
    <3> HIDE DEF taken, l
    <3>4. /\ link' \in [Links -> Letters] /\ link'[l] = taken
          /\ \A k \in Links : k # l => link'[k] = link[k]
      BY <1>0, <2>1, <3>1, <3>3
    <3>5. Portal!TypeOK'
      BY <1>0, <2>1, <3>2, <3>4 DEF Portal!TypeOK, Letters, Visits
    <3>6. ASSUME NEW k \in Links PROVE Taken(k)'
      <4>1. CASE k = l
        <5>1. opened[l] = 0 /\ \A q \in Requests : ~(visit[q].step = "login" /\ visit[q].link = l)
          BY <1>a, <2>1, <2>3 DEF Taken
        <5>2. \A q \in Requests : visit'[q].step = "login" /\ visit'[q].link = l => q = r
          BY <3>2, <5>1
        <5> QED BY <2>1, <3>3, <3>4, <4>1, <5>1, <5>2 DEF Taken
      <4>2. CASE k # l
        <5>1. \A q \in Requests : visit'[q].step = "login" /\ visit'[q].link = k
                => visit[q].step = "login" /\ visit[q].link = k
          BY <3>2, <4>2
        <5> QED BY <1>a, <2>1, <3>4, <4>2, <5>1 DEF Taken
      <4> QED BY <4>1, <4>2
    <3>7. \A q \in Requests : visit'[q].step \in {"consume", "login"} => visit'[q].link \in Links
      BY <1>a, <2>1, <3>2
    <3>8. Closed'
      BY <1>a, <2>1, <3>2, <3>3, <3>4 DEF Closed
    <3> QED BY <3>5, <3>6, <3>7, <3>8 DEF PortalInv
  <2> QED BY <2>2, <2>3
<1>7. ASSUME NEW r \in Requests, Portal!Login(r) PROVE PortalInv'
  <2> DEFINE l == visit[r].link
  <2>1. /\ visit[r].step = "login" /\ Portal!End(r) /\ UNCHANGED <<client, link, crossing>> /\ l \in Links
        /\ opened' = [opened EXCEPT ![l] = IF opened[l] < 2 THEN opened[l] + 1 ELSE opened[l]]
    BY <1>7, <1>a DEF Portal!Login, Portal!At
  <2>2. /\ visit' \in [Requests -> Visits] /\ visit'[r].step = "idle"
        /\ \A q \in Requests : q # r => visit'[q] = visit[q]
    BY <1>0, <2>1, PortalEnd
  <2>3. /\ link[l].used /\ opened[l] = 0
        /\ \A q \in Requests : visit[q].step = "login" /\ visit[q].link = l => q = r
    BY <1>a, <2>1 DEF Taken
  <2> HIDE DEF l
  <2>4. opened' = [opened EXCEPT ![l] = 1]
    BY <2>1, <2>3
  <2>5. /\ opened' \in [Links -> 0..2] /\ opened'[l] = 1 /\ \A k \in Links : k # l => opened'[k] = opened[k]
    BY <1>0, <2>1, <2>4
  <2>6. Portal!TypeOK'
    BY <1>0, <2>1, <2>2, <2>5 DEF Portal!TypeOK, Letters, Visits
  <2>7. ASSUME NEW k \in Links PROVE Taken(k)'
    <3>1. CASE k = l
      <4>1. \A q \in Requests : ~(visit'[q].step = "login" /\ visit'[q].link = l)
        BY <2>2, <2>3
      <4> QED BY <2>1, <2>3, <2>5, <3>1, <4>1 DEF Taken
    <3>2. CASE k # l
      BY <1>a, <2>1, <2>2, <2>5, <3>2 DEF Taken
    <3> QED BY <3>1, <3>2
  <2>8. \A q \in Requests : visit'[q].step \in {"consume", "login"} => visit'[q].link \in Links
    BY <1>a, <2>2
  <2>9. Closed'
    BY <1>a, <2>1, <2>2 DEF Closed
  <2> QED BY <2>6, <2>7, <2>8, <2>9 DEF PortalInv
<1>8. ASSUME NEW r \in Requests, Portal!RemoveClient(r) PROVE PortalInv'
  <2>1. /\ link' = Portal!Expired(TRUE) /\ Portal!Go(r, "remove", "none") /\ visit[r].step = "idle"
        /\ UNCHANGED <<client, opened>> /\ crossing' = (crossing \/ Portal!Sending)
    BY <1>8 DEF Portal!RemoveClient, Portal!At
  <2>2. /\ visit' \in [Requests -> Visits] /\ visit'[r].step = "remove"
        /\ \A q \in Requests : q # r => visit'[q] = visit[q]
    BY <1>0, <2>1, PortalGo DEF Portal!Steps
  <2>3. /\ link' \in [Links -> Letters]
        /\ \A l \in Links : link'[l].used = link[l].used /\ link'[l].state # "valid"
    BY <1>0, <2>1, PortalExpired
  <2>4. crossing' \in BOOLEAN /\ (~crossing' => \A q \in Requests : visit[q].step \notin {"expire", "create"})
    BY <1>0, <2>1 DEF Portal!Sending
  <2>5. Closed'
    BY <2>2, <2>3, <2>4 DEF Closed
  <2> QED BY <1>0, <1>b, <2>1, <2>2, <2>3, <2>4, <2>5
<1>9. ASSUME NEW r \in Requests, Portal!DeleteMembership(r) PROVE PortalInv'
  <2>1. /\ visit[r].step = "remove" /\ Portal!End(r) /\ client' = FALSE /\ UNCHANGED <<link, opened, crossing>>
    BY <1>9 DEF Portal!DeleteMembership, Portal!At
  <2>2. /\ visit' \in [Requests -> Visits] /\ visit'[r].step = "idle"
        /\ \A q \in Requests : q # r => visit'[q] = visit[q]
    BY <1>0, <2>1, PortalEnd
  <2>3. Closed'
    BY <1>a, <2>1, <2>2 DEF Closed
  <2> QED BY <1>0, <1>b, <2>1, <2>2, <2>3
<1>10. CASE Portal!Rejoin
  <2>1. client' = TRUE /\ UNCHANGED <<link, visit, opened, crossing>>
    BY <1>10 DEF Portal!Rejoin
  <2>2. Portal!TypeOK'
    BY <1>0, <2>1 DEF Portal!TypeOK, Letters, Visits
  <2>3. \A l \in Links : Taken(l)'
    BY <1>a, <2>1 DEF Taken
  <2>4. Closed'
    BY <1>a, <2>1 DEF Closed
  <2> QED BY <1>a, <2>1, <2>2, <2>3, <2>4 DEF PortalInv
<1>11. ASSUME NEW r \in Requests, Portal!Kill(r) PROVE PortalInv'
  <2>1. Portal!End(r) /\ UNCHANGED <<client, link, opened, crossing>>
    BY <1>11 DEF Portal!Kill
  <2>2. /\ visit' \in [Requests -> Visits] /\ visit'[r].step = "idle"
        /\ \A q \in Requests : q # r => visit'[q] = visit[q]
    BY <1>0, <2>1, PortalEnd
  <2>3. Closed'
    BY <1>a, <2>1, <2>2 DEF Closed
  <2> QED BY <1>0, <1>b, <2>1, <2>2, <2>3
<1>12. CASE UNCHANGED Portal!vars
  BY <1>12 DEF Portal!vars, PortalInv, Portal!TypeOK, Taken, Closed
<1> QED BY <1>1, <1>2, <1>3, <1>4, <1>5, <1>6, <1>7, <1>8, <1>9, <1>10, <1>11, <1>12 DEF Portal!Next

-----------------------------------------------------------------------------
(* The agents' keys.                                                       *)

\* What is cached expires within the TTL of its change; what a request found
\* is younger than the TTL, and what it read is as good as new.
AccessInv ==
  /\ Access!TypeOK
  /\ \A v \in Access!Versions : v >= key.version => superseded[v] = 0
  /\ \A w \in Workers :
       /\ cache[w].left > 0 => superseded[cache[w].version] + cache[w].left <= TTL
       /\ verifying[w] = "read" => superseded[copy[w].version] = 0
       /\ verifying[w] \in {"found", "admitted"} => superseded[copy[w].version] < TTL

Entries == [version : Access!Versions, active : BOOLEAN, left : 0..TTL]

LEMMA AccessTypes ==
  ASSUME Access!TypeOK
  PROVE  /\ key \in Access!Row /\ key.version \in Access!Versions /\ key.active \in BOOLEAN
         /\ superseded \in [Access!Versions -> 0..TTL + 1]
         /\ issuer \in BOOLEAN /\ home \in [Workers -> Workers]
         /\ cache \in [Workers -> Entries]
         /\ verifying \in [Workers -> {"idle", "read", "found", "admitted"}]
         /\ copy \in [Workers -> Access!Row] /\ editing \in BOOLEAN /\ revoking \in BOOLEAN
         /\ \A w \in Workers : /\ cache[w].version \in Access!Versions /\ cache[w].left \in 0..TTL
                               /\ copy[w].version \in Access!Versions /\ home[w] \in Workers
BY DEF Access!TypeOK, Access!Row, Entries

LEMMA NoEntryType == Access!NoEntry \in Entries /\ Access!NoEntry.left = 0
<1>1. 0 \in 0..MaxEdits /\ 0 \in 0..TTL
  BY BoundAssumption
<1> QED BY <1>1 DEF Access!NoEntry, Entries, Access!Versions

\* What the conditions of one worker depend on.
LEMMA AccessFrame ==
  ASSUME AccessInv, Access!TypeOK', superseded' = superseded, key'.version >= key.version,
         \A w \in Workers :
           /\ cache'[w].left > 0 =>
                cache'[w] = cache[w] \/ superseded[cache'[w].version] + cache'[w].left <= TTL
           /\ verifying'[w] = "read" =>
                \/ verifying[w] = "read" /\ copy'[w] = copy[w]
                \/ superseded[copy'[w].version] = 0
           /\ verifying'[w] \in {"found", "admitted"} =>
                \/ verifying[w] \in {"found", "admitted"} /\ copy'[w] = copy[w]
                \/ superseded[copy'[w].version] < TTL
  PROVE  AccessInv'
<1>1. \A v \in Access!Versions : v >= key'.version => superseded[v] = 0
  <2>1. key.version \in Nat /\ key'.version \in Nat /\ Access!Versions \subseteq Nat
    BY AccessTypes, BoundAssumption DEF AccessInv, Access!Versions, Access!TypeOK, Access!Row
  <2> SUFFICES ASSUME NEW v \in Access!Versions, v >= key'.version PROVE superseded[v] = 0
    OBVIOUS
  <2>2. v \in Nat /\ key'.version >= key.version
    BY <2>1
  <2>3. v >= key.version
    BY <2>1, <2>2
  <2> QED BY <2>3 DEF AccessInv
<1>2. Access!Versions' = Access!Versions
  OBVIOUS
<1>3. ASSUME NEW w \in Workers
      PROVE  /\ cache'[w].left > 0 => superseded[cache'[w].version] + cache'[w].left <= TTL
             /\ verifying'[w] = "read" => superseded[copy'[w].version] = 0
             /\ verifying'[w] \in {"found", "admitted"} => superseded[copy'[w].version] < TTL
  BY DEF AccessInv
<1> QED BY <1>1, <1>3 DEF AccessInv

LEMMA AccessInit == Access!Init => AccessInv
<1> SUFFICES ASSUME Access!Init PROVE AccessInv
  OBVIOUS
<1>1. 0 \in Access!Versions /\ 0 \in 0..TTL + 1
  BY BoundAssumption DEF Access!Versions
<1>2. /\ key = [version |-> 0, active |-> TRUE] /\ superseded = [v \in Access!Versions |-> 0]
      /\ issuer = TRUE /\ cache = [w \in Workers |-> Access!NoEntry]
      /\ verifying = [w \in Workers |-> "idle"] /\ copy = [w \in Workers |-> key]
      /\ editing = FALSE /\ revoking = FALSE
  BY DEF Access!Init
<1>3. home \in [Workers -> Workers]
  <2>1. home \in {[w \in Workers |-> w]} \cup {[w \in Workers |-> c] : c \in Workers}
    BY DEF Access!Init
  <2>2. CASE home = [w \in Workers |-> w]
    BY <2>2
  <2>3. CASE home \in {[w \in Workers |-> c] : c \in Workers}
    BY <2>3
  <2> QED BY <2>1, <2>2, <2>3
<1>4. key \in Access!Row
  BY <1>1, <1>2 DEF Access!Row
<1>5. cache \in [Workers -> Entries] /\ \A w \in Workers : cache[w].left = 0
  BY <1>2, NoEntryType
<1>6. Access!TypeOK
  BY <1>1, <1>2, <1>3, <1>4, <1>5 DEF Access!TypeOK, Entries
<1> QED BY <1>2, <1>5, <1>6 DEF AccessInv

\* Clearing a cache.
LEMMA CacheCleared ==
  ASSUME Access!TypeOK, NEW w \in Workers, cache' = [cache EXCEPT ![home[w]] = Access!NoEntry]
  PROVE  /\ cache' \in [Workers -> Entries]
         /\ \A v \in Workers : cache'[v] = cache[v] \/ cache'[v].left = 0
BY AccessTypes, NoEntryType

LEMMA AccessNext == AccessInv /\ [Access!Next]_Access!vars => AccessInv'
<1> SUFFICES ASSUME AccessInv, [Access!Next]_Access!vars PROVE AccessInv'
  OBVIOUS
<1>0. /\ key \in Access!Row /\ key.version \in Access!Versions /\ key.active \in BOOLEAN
      /\ superseded \in [Access!Versions -> 0..TTL + 1]
      /\ issuer \in BOOLEAN /\ home \in [Workers -> Workers]
      /\ cache \in [Workers -> Entries]
      /\ verifying \in [Workers -> {"idle", "read", "found", "admitted"}]
      /\ copy \in [Workers -> Access!Row] /\ editing \in BOOLEAN /\ revoking \in BOOLEAN
      /\ \A w \in Workers : /\ cache[w].version \in Access!Versions /\ cache[w].left \in 0..TTL
                            /\ copy[w].version \in Access!Versions /\ home[w] \in Workers
      /\ Access!TypeOK
  BY AccessTypes DEF AccessInv
<1>a. /\ key.version \in Nat /\ MaxEdits \in Nat /\ TTL \in Nat /\ TTL > 0
      /\ Access!Versions = 0..MaxEdits /\ superseded[key.version] = 0
      /\ \A v \in Access!Versions : superseded[v] \in Nat
  <2>1. Access!Versions = 0..MaxEdits /\ MaxEdits \in Nat /\ TTL \in Nat /\ TTL > 0
    BY BoundAssumption DEF Access!Versions
  <2>2. key.version \in Nat
    BY <1>0, <2>1
  <2>3. superseded[key.version] = 0
    BY <1>0, <2>2 DEF AccessInv
  <2>4. \A v \in Access!Versions : superseded[v] \in Nat
    BY <1>0, <2>1
  <2> QED BY <2>1, <2>2, <2>3, <2>4
<1>1. ASSUME NEW w \in Workers, Access!Look(w) PROVE AccessInv'
  <2> DEFINE known == [version |-> Access!Cached(w).version, active |-> TRUE]
  <2>1. UNCHANGED <<key, superseded, issuer, home, cache, editing, revoking>>
    BY <1>1 DEF Access!Look, Access!writerVars
  <2>2. Access!Cached(w) = cache[home[w]] /\ home[w] \in Workers
    BY <1>0 DEF Access!Cached
  <2>3. CASE Access!Cached(w).left > 0
    <3>1. copy' = [copy EXCEPT ![w] = known] /\ verifying' = [verifying EXCEPT ![w] = "found"]
      BY <1>1, <2>3 DEF Access!Look
    <3>2. known \in Access!Row /\ known.version = cache[home[w]].version
      BY <1>0, <2>2 DEF Access!Row
    <3>3. superseded[cache[home[w]].version] < TTL
      <4>1. superseded[cache[home[w]].version] + cache[home[w]].left <= TTL
        BY <2>2, <2>3 DEF AccessInv
      <4>2. cache[home[w]].left \in Nat /\ cache[home[w]].left > 0 /\ superseded[cache[home[w]].version] \in Nat
        BY <1>0, <1>a, <2>2, <2>3
      <4> QED BY <1>a, <4>1, <4>2
    <3> HIDE DEF known
    <3>4. /\ copy' \in [Workers -> Access!Row] /\ copy'[w] = known /\ verifying'[w] = "found"
          /\ verifying' \in [Workers -> {"idle", "read", "found", "admitted"}]
          /\ \A v \in Workers : v # w => copy'[v] = copy[v] /\ verifying'[v] = verifying[v]
      BY <1>0, <3>1, <3>2
    <3>5. Access!TypeOK'
      BY <1>0, <2>1, <3>4 DEF Access!TypeOK, Entries
    <3> QED BY <1>a, <2>1, <3>2, <3>3, <3>4, <3>5, AccessFrame
  <2>4. CASE ~(Access!Cached(w).left > 0)
    <3>1. copy' = [copy EXCEPT ![w] = key]
          /\ verifying' = [verifying EXCEPT ![w] = IF key.active THEN "read" ELSE "idle"]
      BY <1>1, <2>4 DEF Access!Look
    <3>2. /\ copy' \in [Workers -> Access!Row] /\ copy'[w] = key /\ verifying'[w] \in {"read", "idle"}
          /\ verifying' \in [Workers -> {"idle", "read", "found", "admitted"}]
          /\ \A v \in Workers : v # w => copy'[v] = copy[v] /\ verifying'[v] = verifying[v]
      BY <1>0, <3>1
    <3>3. Access!TypeOK'
      BY <1>0, <2>1, <3>2 DEF Access!TypeOK, Entries
    <3> QED BY <1>a, <2>1, <3>2, <3>3, AccessFrame
  <2> QED BY <2>3, <2>4
<1>2. ASSUME NEW w \in Workers, Access!Store(w) PROVE AccessInv'
  <2> DEFINE stored_ == Access!Entry(copy[w])
  <2>1. /\ verifying[w] = "read" /\ cache' = [cache EXCEPT ![home[w]] = stored_]
        /\ verifying' = [verifying EXCEPT ![w] = "found"]
        /\ UNCHANGED <<key, superseded, issuer, home, copy, editing, revoking>>
    BY <1>2 DEF Access!Store, Access!writerVars
  <2>2. stored_ \in Entries /\ stored_.version = copy[w].version /\ stored_.left = TTL
    BY <1>0, <1>a DEF Access!Entry, Access!Row, Entries
  <2>3. superseded[copy[w].version] = 0
    BY <2>1 DEF AccessInv
  <2> HIDE DEF stored_
  <2>4. /\ cache' \in [Workers -> Entries]
        /\ \A v \in Workers : cache'[v] = cache[v] \/ cache'[v] = stored_
        /\ verifying' \in [Workers -> {"idle", "read", "found", "admitted"}]
        /\ verifying'[w] = "found" /\ \A v \in Workers : v # w => verifying'[v] = verifying[v]
    BY <1>0, <2>1, <2>2
  <2>5. Access!TypeOK'
    BY <1>0, <2>1, <2>4 DEF Access!TypeOK, Entries
  <2>6. superseded[stored_.version] + stored_.left <= TTL
    BY <1>a, <2>2, <2>3
  <2> QED BY <1>a, <2>1, <2>3, <2>4, <2>5, <2>6, AccessFrame
<1>3. ASSUME NEW w \in Workers, Access!Admit(w) PROVE AccessInv'
  <2>1. verifying[w] = "found" /\ UNCHANGED <<key, superseded, issuer, home, copy, editing, revoking>>
    BY <1>3 DEF Access!Admit, Access!writerVars
  <2>2. /\ cache' \in [Workers -> Entries]
        /\ \A v \in Workers : cache'[v] = cache[v] \/ cache'[v].left = 0
    <3>1. CASE issuer
      BY <1>0, <1>3, <3>1 DEF Access!Admit
    <3>2. CASE ~issuer
      BY <1>0, <1>3, <3>2, CacheCleared DEF Access!Admit
    <3> QED BY <3>1, <3>2
  <2>3. /\ verifying' \in [Workers -> {"idle", "read", "found", "admitted"}]
        /\ verifying'[w] \in {"admitted", "idle"}
        /\ \A v \in Workers : v # w => verifying'[v] = verifying[v]
    BY <1>0, <1>3 DEF Access!Admit
  <2>4. Access!TypeOK'
    BY <1>0, <2>1, <2>2, <2>3 DEF Access!TypeOK, Entries
  <2> QED BY <1>a, <2>1, <2>2, <2>3, <2>4, AccessFrame
<1>4. ASSUME NEW w \in Workers, Access!Serve(w) PROVE AccessInv'
  <2>1. /\ verifying' = [verifying EXCEPT ![w] = "idle"]
        /\ UNCHANGED <<key, superseded, issuer, home, cache, copy, editing, revoking>>
    BY <1>4 DEF Access!Serve, Access!writerVars
  <2>2. /\ verifying' \in [Workers -> {"idle", "read", "found", "admitted"}] /\ verifying'[w] = "idle"
        /\ \A v \in Workers : v # w => verifying'[v] = verifying[v]
    BY <1>0, <2>1
  <2>3. Access!TypeOK'
    BY <1>0, <2>1, <2>2 DEF Access!TypeOK, Entries
  <2> QED BY <1>a, <2>1, <2>2, <2>3, AccessFrame
<1>5. ASSUME NEW w \in Workers, Access!Save(w) PROVE AccessInv'
  <2>1. /\ cache' = [cache EXCEPT ![home[w]] = Access!NoEntry] /\ editing' = TRUE
        /\ UNCHANGED <<key, superseded, issuer, home, verifying, copy, revoking>>
    BY <1>5 DEF Access!Save, Access!verifyVars
  <2>2. cache' \in [Workers -> Entries] /\ \A v \in Workers : cache'[v] = cache[v] \/ cache'[v].left = 0
    BY <1>0, <2>1, CacheCleared
  <2>3. Access!TypeOK'
    BY <1>0, <2>1, <2>2 DEF Access!TypeOK, Entries
  <2> QED BY <1>a, <2>1, <2>2, <2>3, AccessFrame
<1>6. ASSUME NEW w \in Workers, Access!Invalidate(w) PROVE AccessInv'
  <2>1. /\ cache' = [cache EXCEPT ![home[w]] = Access!NoEntry] /\ revoking' = FALSE
        /\ UNCHANGED <<key, superseded, issuer, home, verifying, copy, editing>>
    BY <1>6 DEF Access!Invalidate, Access!verifyVars
  <2>2. cache' \in [Workers -> Entries] /\ \A v \in Workers : cache'[v] = cache[v] \/ cache'[v].left = 0
    BY <1>0, <2>1, CacheCleared
  <2>3. Access!TypeOK'
    BY <1>0, <2>1, <2>2 DEF Access!TypeOK, Entries
  <2> QED BY <1>a, <2>1, <2>2, <2>3, AccessFrame
<1>7. CASE Access!Commit
  <2> DEFINE next == [key EXCEPT !.version = key.version + 1]
  <2>1. /\ key.version < MaxEdits /\ key' = next /\ editing' = FALSE
        /\ UNCHANGED <<superseded, issuer, home, cache, verifying, copy, revoking>>
    BY <1>7 DEF Access!Commit, Access!verifyVars
  <2>2. key.version + 1 \in 0..MaxEdits
    BY <1>a, <2>1
  <2>3. next \in Access!Row /\ next.version = key.version + 1
    BY <1>0, <1>a, <2>2 DEF Access!Row
  <2> HIDE DEF next
  <2>4. Access!TypeOK'
    BY <1>0, <2>1, <2>3 DEF Access!TypeOK, Entries
  <2> QED BY <1>a, <2>1, <2>3, <2>4, AccessFrame
<1>8. CASE Access!Revoke
  <2> DEFINE next == [version |-> key.version + 1, active |-> FALSE]
  <2>1. /\ key.version < MaxEdits /\ key' = next /\ revoking' = TRUE
        /\ UNCHANGED <<superseded, issuer, home, cache, verifying, copy, editing>>
    BY <1>8 DEF Access!Revoke, Access!verifyVars
  <2>2. key.version + 1 \in 0..MaxEdits
    BY <1>a, <2>1
  <2>3. next \in Access!Row /\ next.version = key.version + 1
    BY <1>a, <2>2 DEF Access!Row
  <2> HIDE DEF next
  <2>4. Access!TypeOK'
    BY <1>0, <2>1, <2>3 DEF Access!TypeOK, Entries
  <2> QED BY <1>a, <2>1, <2>3, <2>4, AccessFrame
<1>9. CASE Access!LoseIssuer
  <2>1. issuer' = FALSE /\ UNCHANGED <<key, superseded, home, cache, verifying, copy, editing, revoking>>
    BY <1>9 DEF Access!LoseIssuer, Access!verifyVars, Access!writerVars
  <2>2. Access!TypeOK'
    BY <1>0, <2>1 DEF Access!TypeOK, Entries
  <2> QED BY <1>a, <2>1, <2>2, AccessFrame
<1>10. CASE Access!Tick
  <2> DEFINE older(w) == [cache[w] EXCEPT !.left = cache[w].left - 1]
  <2>1. /\ \A w \in Workers : verifying[w] = "idle"
        /\ cache' = [w \in Workers |-> IF cache[w].left <= 1 THEN Access!NoEntry ELSE older(w)]
        /\ superseded' = [v \in Access!Versions |->
              IF v < key.version /\ superseded[v] <= TTL THEN superseded[v] + 1 ELSE superseded[v]]
        /\ UNCHANGED <<key, issuer, home, verifying, copy, editing, revoking>>
    BY <1>10 DEF Access!Tick, Access!verifyVars, Access!writerVars
  <2>2. ASSUME NEW w \in Workers, ~(cache[w].left <= 1)
        PROVE  older(w) \in Entries /\ older(w).left = cache[w].left - 1 /\ older(w).version = cache[w].version
    <3>1. cache[w].left - 1 \in 0..TTL
      BY <1>0, <1>a, <2>2
    <3> QED BY <1>0, <3>1 DEF Entries
  <2> HIDE DEF older
  <2>3. /\ cache' \in [Workers -> Entries]
        /\ \A w \in Workers : cache'[w].left > 0 =>
             /\ cache'[w].version = cache[w].version
             /\ cache'[w].left = cache[w].left - 1 /\ cache[w].left > 1
    BY <1>0, <2>1, <2>2, NoEntryType
  <2>4. superseded' \in [Access!Versions -> 0..TTL + 1]
    BY <1>0, <1>a, <2>1
  <2>5. \A v \in Access!Versions : superseded'[v] <= superseded[v] + 1 /\ superseded'[v] \in Nat
    BY <1>a, <2>1
  <2>6. Access!TypeOK'
    BY <1>0, <2>1, <2>3, <2>4 DEF Access!TypeOK, Entries
  <2>7. ASSUME NEW v \in Access!Versions, v >= key'.version PROVE superseded'[v] = 0
    <3>1. superseded[v] = 0 /\ ~(v < key.version)
      BY <1>a, <2>1, <2>7 DEF AccessInv
    <3> QED BY <2>1, <3>1
  <2>8. ASSUME NEW w \in Workers, cache'[w].left > 0
        PROVE  superseded'[cache'[w].version] + cache'[w].left <= TTL
    <3> DEFINE v == cache[w].version
               n == cache[w].left
    <3>1. n \in Nat /\ v \in Access!Versions /\ superseded[v] \in Nat
      BY <1>0, <1>a
    <3>2. n > 1 /\ cache'[w].version = v /\ cache'[w].left = n - 1
      BY <2>3, <2>8
    <3>3. n > 0 => superseded[v] + n <= TTL
      BY DEF AccessInv
    <3>4. superseded'[v] <= superseded[v] + 1 /\ superseded'[v] \in Nat
      BY <2>5, <3>1
    <3> HIDE DEF v, n
    <3>5. superseded'[v] + (n - 1) <= TTL
      BY <1>a, <3>1, <3>2, <3>3, <3>4
    <3> QED BY <3>2, <3>5
  <2> QED BY <2>1, <2>6, <2>7, <2>8 DEF AccessInv
<1>11. CASE UNCHANGED Access!vars
  BY <1>11 DEF Access!vars, AccessInv, Access!TypeOK
<1> QED BY <1>1, <1>2, <1>3, <1>4, <1>5, <1>6, <1>7, <1>8, <1>9, <1>10, <1>11 DEF Access!Next

-----------------------------------------------------------------------------
(* Members.                                                                *)

Granting(r) == request[r].step \in {"assign", "manage"} \/ (request[r].step = "direct" /\ request[r].seen)
\* Who is let into the workspace is a member, and who leaves it was removed
\* from it, or a removal ran beside.
Entering ==
  /\ \A r \in Requests : Granting(r) => request[r].user \in org \cup crossed
  /\ \A r \in Requests : request[r].step = "remove_org" => request[r].user \notin workspace \ crossed
  /\ \A r, q \in Requests :
       request[r].step \in People!Removals /\ request[q].step \in People!Grants
         /\ request[r].user = request[q].user => request[r].user \in crossed
\* Who joined by an invitation, and through whom.
Joining(i) ==
  i \in shared \/
    /\ \A r, q \in Requests : request[r].inv = i /\ request[q].inv = i => r = q
    /\ \A r \in Requests : request[r].inv = i /\ request[r].step = "join" => admitted[i] = {}
    /\ admitted[i] # {} => \/ invitation[i].state = "accepted"
                           \/ \E r \in Requests : request[r].inv = i
    /\ \A u, v \in admitted[i] : u = v
Signing(r) ==
  /\ request[r].step \in {"assign", "stamp", "leave_own"} => request[r].user \in org \cup removed
  /\ request[r].signup => request[r].user \in org \cup own \cup removed
\* A request at work knows for whom, and by which invitation.
Knowing(r) ==
  /\ request[r].step = "idle" => request[r] = People!Idle
  /\ request[r].step # "idle" => request[r].user \in Users
  /\ request[r].step \in {"join", "assign", "stamp", "leave_own"} <=> request[r].inv # "none"
  /\ request[r].signup => request[r].inv # "none"
  /\ request[r].step = "leave_own" => invitation[request[r].inv].state = "accepted"

PeopleInv ==
  /\ People!TypeOK
  /\ workspace \subseteq org \cup crossed
  /\ Entering
  /\ \A i \in Invitations : Joining(i)
  /\ \A r \in Requests : Knowing(r) /\ Signing(r)
Asks == [step : People!Steps, user : Users \cup {"none"}, inv : Invitations \cup {"none"},
         signup : BOOLEAN, seen : BOOLEAN]
Invited == [state : {"none", "open", "closed", "accepted"}, to : Users \cup {"none"}]

LEMMA PeopleTypes ==
  ASSUME People!TypeOK
  PROVE  /\ org \subseteq Users /\ workspace \subseteq Users /\ own \subseteq Users
         /\ invitation \in [Invitations -> Invited] /\ request \in [Requests -> Asks]
         /\ removed \subseteq Users /\ crossed \subseteq Users
         /\ admitted \in [Invitations -> SUBSET Users] /\ shared \subseteq Invitations
BY DEF People!TypeOK, Asks, Invited

LEMMA PeopleIdle ==
  /\ People!Idle \in Asks /\ People!Idle.step = "idle" /\ People!Idle.inv = "none"
  /\ People!Idle.user = "none" /\ ~People!Idle.signup /\ ~People!Idle.seen
BY DEF People!Idle, Asks, People!Steps

LEMMA PeopleInit == People!Init => PeopleInv
<1> SUFFICES ASSUME People!Init PROVE PeopleInv
  OBVIOUS
<1>1. /\ org = {} /\ workspace = {} /\ own \in SUBSET Users
      /\ invitation = [i \in Invitations |-> [state |-> "none", to |-> "none"]]
      /\ request = [r \in Requests |-> People!Idle]
      /\ removed = {} /\ crossed = {} /\ shared = {} /\ admitted = [i \in Invitations |-> {}]
  BY DEF People!Init
<1>2. People!TypeOK
  <2>1. request \in [Requests -> Asks]
    BY <1>1, PeopleIdle
  <2>2. invitation \in [Invitations -> Invited]
    BY <1>1 DEF Invited
  <2> QED BY <1>1, <2>1, <2>2 DEF People!TypeOK, Asks, Invited
<1>3. \A r \in Requests : request[r] = People!Idle
  BY <1>1
<1>4. Entering
  BY <1>3, PeopleIdle DEF Entering, Granting, People!Removals
<1>5. \A i \in Invitations : Joining(i)
  BY <1>1, <1>3, PeopleIdle, NoneAssumption DEF Joining
<1>6. \A r \in Requests : Knowing(r) /\ Signing(r)
  BY <1>3, PeopleIdle DEF Knowing, Signing
<1> QED BY <1>1, <1>2, <1>4, <1>5, <1>6 DEF PeopleInv

\* A request starts, goes on, or ends: the others are as they were.
Others(r) == \A q \in Requests : q # r => request'[q] = request[q]

LEMMA PeopleGo ==
  ASSUME People!TypeOK, NEW r \in Requests, NEW step \in People!Steps, People!Go(r, step)
  PROVE  /\ request' \in [Requests -> Asks] /\ request'[r].step = step
         /\ request'[r].user = request[r].user /\ request'[r].inv = request[r].inv
         /\ request'[r].signup = request[r].signup /\ request'[r].seen = request[r].seen
         /\ Others(r)
<1> DEFINE here == [request[r] EXCEPT !.step = step]
<1>1. request' = [request EXCEPT ![r] = here] /\ request \in [Requests -> Asks]
  BY PeopleTypes DEF People!Go
<1>2. /\ here \in Asks /\ here.step = step /\ here.user = request[r].user /\ here.inv = request[r].inv
      /\ here.signup = request[r].signup /\ here.seen = request[r].seen
  BY <1>1 DEF Asks
<1> HIDE DEF here
<1> QED BY <1>1, <1>2 DEF Others

LEMMA PeopleEnd ==
  ASSUME People!TypeOK, NEW r \in Requests, People!End(r)
  PROVE  request' \in [Requests -> Asks] /\ request'[r] = People!Idle /\ Others(r)
<1>1. request' = [request EXCEPT ![r] = People!Idle] /\ request \in [Requests -> Asks]
  BY PeopleTypes DEF People!End
<1> QED BY <1>1, PeopleIdle DEF Others

LEMMA PeopleStart ==
  ASSUME People!TypeOK, NEW r \in Requests, NEW a \in Asks, request' = [request EXCEPT ![r] = a]
  PROVE  request' \in [Requests -> Asks] /\ request'[r] = a /\ Others(r)
<1>1. request \in [Requests -> Asks]
  BY PeopleTypes
<1> QED BY <1>1 DEF Others

\* Who begins to remove or to grant beside the other is noted; nobody turns
\* from one to the other.
Mixed == \A r, q \in Requests :
  request[r].step \in People!Removals /\ request[q].step \in People!Grants
    /\ request[r].user = request[q].user => request[r].user \in crossed

LEMMA MixedStays ==
  ASSUME PeopleInv, NEW r \in Requests, Others(r), crossed \subseteq crossed',
         request'[r].step \in People!Removals =>
           request[r].step \in People!Removals /\ request'[r].user = request[r].user,
         request'[r].step \in People!Grants =>
           request[r].step \in People!Grants /\ request'[r].user = request[r].user
  PROVE  Mixed'
<1>1. Mixed
  BY DEF PeopleInv, Entering, Mixed
<1>2. \A q \in Requests :
        /\ request'[q].step \in People!Removals =>
             request[q].step \in People!Removals /\ request'[q].user = request[q].user
        /\ request'[q].step \in People!Grants =>
             request[q].step \in People!Grants /\ request'[q].user = request[q].user
  BY DEF Others
<1> QED BY <1>1, <1>2 DEF Mixed

LEMMA MixedStarts ==
  ASSUME PeopleInv, NEW r \in Requests, Others(r), NEW u \in Users, request'[r].user = u,
         \/ request'[r].step \in People!Removals /\ request'[r].step \notin People!Grants
            /\ crossed' = IF People!Busy(u, People!Grants) THEN crossed \cup {u} ELSE crossed
         \/ request'[r].step \in People!Grants /\ request'[r].step \notin People!Removals
            /\ crossed' = IF People!Busy(u, People!Removals) THEN crossed \cup {u} ELSE crossed
  PROVE  Mixed' /\ crossed \subseteq crossed' /\ crossed' \subseteq crossed \cup {u}
<1>1. Mixed
  BY DEF PeopleInv, Entering, Mixed
<1>2. crossed \subseteq crossed' /\ crossed' \subseteq crossed \cup {u}
  OBVIOUS
<1>3. ASSUME NEW p \in Requests, NEW q \in Requests,
             request'[p].step \in People!Removals, request'[q].step \in People!Grants,
             request'[p].user = request'[q].user
      PROVE  request'[p].user \in crossed'
  <2>1. CASE p # r /\ q # r
    BY <1>1, <1>2, <1>3, <2>1 DEF Others, Mixed
  <2>2. CASE p = r
    <3>1. q # r
      BY <1>3, <2>2 DEF People!Removals, People!Grants
    <3>2. People!Busy(u, People!Grants)
      BY <1>3, <2>2, <3>1 DEF Others, People!Busy, People!User
    <3> QED BY <1>3, <2>2, <3>2
  <2>3. CASE q = r /\ p # r
    <3>1. People!Busy(u, People!Removals)
      BY <1>3, <2>3 DEF Others, People!Busy, People!User
    <3> QED BY <1>3, <2>3, <3>1
  <2> QED BY <2>1, <2>2, <2>3
<1> QED BY <1>2, <1>3 DEF Mixed

\* The workspace is entered by who may, and nobody leaves the organization.
LEMMA EnteringStays ==
  ASSUME PeopleInv, NEW r \in Requests, Others(r), Mixed', org \subseteq org', crossed \subseteq crossed',
         workspace' \subseteq workspace,
         request'[r].step # "remove_org",
         \/ request'[r].step \notin {"assign", "manage", "direct"}
         \/ request'[r].user \in org'
         \/ request'[r].step = "direct" /\ ~request'[r].seen
  PROVE  Entering' /\ workspace' \subseteq org' \cup crossed'
<1>1. \A q \in Requests : Granting(q)' => request'[q].user \in org' \cup crossed'
  BY DEF PeopleInv, Entering, Granting, Others
<1>2. \A q \in Requests : request'[q].step = "remove_org" => request'[q].user \notin workspace' \ crossed'
  BY DEF PeopleInv, Entering, Others
<1>3. workspace' \subseteq org' \cup crossed'
  BY DEF PeopleInv
<1> QED BY <1>1, <1>2, <1>3 DEF Entering, Mixed

\* A step that uses no invitation up.
LEMMA JoiningStays ==
  ASSUME PeopleInv, NEW r \in Requests, Others(r), shared \subseteq shared', admitted' = admitted,
         \A i \in Invitations : invitation[i].state = "accepted" => invitation'[i].state = "accepted",
         \/ request'[r].inv = "none"
         \/ request'[r].inv = request[r].inv /\ request'[r].step # "join",
         \/ request'[r].inv = request[r].inv
         \/ request[r].inv = "none"
         \/ request[r].inv \in shared'
         \/ request[r].inv \in Invitations /\ invitation'[request[r].inv].state = "accepted"
  PROVE  \A i \in Invitations : Joining(i)'
<1> SUFFICES ASSUME NEW i \in Invitations, i \notin shared' PROVE Joining(i)'
  BY DEF Joining
<1>0. i # "none"
  BY NoneAssumption
<1>1. /\ \A p, q \in Requests : request[p].inv = i /\ request[q].inv = i => p = q
      /\ \A q \in Requests : request[q].inv = i /\ request[q].step = "join" => admitted[i] = {}
      /\ admitted[i] # {} => \/ invitation[i].state = "accepted"
                             \/ \E q \in Requests : request[q].inv = i
      /\ \A u, v \in admitted[i] : u = v
  <2>1. Joining(i) /\ i \notin shared
    BY DEF PeopleInv
  <2> QED BY <2>1 DEF Joining
<1>2. \A q \in Requests : request'[q].inv = i =>
        request[q].inv = i /\ (request'[q].step = "join" => request[q].step = "join")
  BY <1>0 DEF Others
<1>3. \A q \in Requests : request[q].inv = i => request'[q].inv = i \/ invitation'[i].state = "accepted"
  BY <1>0 DEF Others
<1> QED BY <1>1, <1>2, <1>3 DEF Joining

\* A request knows what it did, and its user is somewhere.
LEMMA KnowingStays ==
  ASSUME PeopleInv, NEW r \in Requests, Others(r), Knowing(r)', Signing(r)',
         \A i \in Invitations : invitation[i].state = "accepted" => invitation'[i].state = "accepted",
         org \cup removed \subseteq org' \cup removed',
         own \subseteq own' \cup org' \cup removed', People!TypeOK
  PROVE  \A q \in Requests : Knowing(q)' /\ Signing(q)'
<1> SUFFICES ASSUME NEW q \in Requests, q # r PROVE Knowing(q)' /\ Signing(q)'
  OBVIOUS
<1>1. request'[q] = request[q] /\ Knowing(q) /\ Signing(q)
  BY DEF PeopleInv, Others
<1>2. request[q].inv \in Invitations \cup {"none"}
  BY PeopleTypes DEF Asks
<1>3. Knowing(q)'
  BY <1>1, <1>2 DEF Knowing
<1>4. Signing(q)'
  BY <1>1 DEF Signing
<1> QED BY <1>3, <1>4

\* A request that is at rest knows nothing.
LEMMA IdleKnows ==
  ASSUME NEW r, request'[r] = People!Idle
  PROVE  Knowing(r)' /\ Signing(r)'
BY PeopleIdle DEF Knowing, Signing

LEMMA PeopleNext == PeopleInv /\ [People!Next]_People!vars => PeopleInv'
<1> SUFFICES ASSUME PeopleInv, [People!Next]_People!vars PROVE PeopleInv'
  OBVIOUS
<1>0. /\ org \subseteq Users /\ workspace \subseteq Users /\ own \subseteq Users
      /\ invitation \in [Invitations -> Invited] /\ request \in [Requests -> Asks]
      /\ removed \subseteq Users /\ crossed \subseteq Users
      /\ admitted \in [Invitations -> SUBSET Users] /\ shared \subseteq Invitations
      /\ People!TypeOK
  BY PeopleTypes DEF PeopleInv
<1>a. /\ \A r \in Requests : Knowing(r) /\ Signing(r)
      /\ \A i \in Invitations : Joining(i)
      /\ workspace \subseteq org \cup crossed
      /\ Entering
  BY DEF PeopleInv
<1>b. "none" \notin Users /\ "none" \notin Invitations
  BY NoneAssumption
\* A request starts for a user who is no invited one.
<1>s. ASSUME NEW r \in Requests, NEW a \in Asks, request[r].step = "idle", a.user \in Users,
             a.inv = "none", ~a.signup, a.step \notin {"idle", "join", "assign", "stamp", "leave_own", "remove_org"},
             a.step = "manage" => a.user \in org,
             a.step = "direct" /\ a.seen => a.user \in org,
             request' = [request EXCEPT ![r] = a],
             \/ a.step = "invite" /\ crossed' = crossed
             \/ a.step \in People!Removals /\ a.step \notin People!Grants
                /\ crossed' = IF People!Busy(a.user, People!Grants) THEN crossed \cup {a.user} ELSE crossed
             \/ a.step \in People!Grants /\ a.step \notin People!Removals
                /\ crossed' = IF People!Busy(a.user, People!Removals) THEN crossed \cup {a.user} ELSE crossed,
             UNCHANGED <<org, workspace, own, invitation, removed, admitted, shared>>
      PROVE  PeopleInv'
  <2>1. request' \in [Requests -> Asks] /\ request'[r] = a /\ Others(r)
    BY <1>0, <1>s, PeopleStart
  <2>2. request[r].inv = "none"
    BY <1>a, <1>s DEF Knowing
  <2>3. Mixed' /\ crossed \subseteq crossed' /\ crossed' \subseteq Users
    <3>1. CASE a.step = "invite" /\ crossed' = crossed
      BY <1>0, <2>1, <3>1, MixedStays DEF People!Removals, People!Grants
    <3>2. CASE ~(a.step = "invite" /\ crossed' = crossed)
      BY <1>0, <1>s, <2>1, <3>2, MixedStarts
    <3> QED BY <3>1, <3>2
  <2>4. People!TypeOK'
    BY <1>0, <1>s, <2>1, <2>3 DEF People!TypeOK, Asks, Invited
  <2>5. Entering' /\ workspace' \subseteq org' \cup crossed'
    BY <1>s, <2>1, <2>3, EnteringStays
  <2>6. \A i \in Invitations : Joining(i)'
    BY <1>s, <2>1, <2>2, JoiningStays
  <2>7. Knowing(r)' /\ Signing(r)'
    BY <1>s, <2>1 DEF Knowing, Signing
  <2>8. \A q \in Requests : Knowing(q)' /\ Signing(q)'
    BY <1>0, <1>s, <2>1, <2>7, KnowingStays
  <2> QED BY <2>4, <2>5, <2>6, <2>8 DEF PeopleInv
\* A request ends that used its invitation up, or had none, or leaves it shared.
<1>e. ASSUME NEW r \in Requests, People!End(r),
             org \subseteq org', workspace' \subseteq Users, org' \subseteq Users, own' \subseteq Users, removed' \subseteq Users,
             own \subseteq own' \cup org' \cup removed', org \cup removed \subseteq org' \cup removed',
             \A u \in workspace' : u \in workspace \/ (u = request[r].user /\ Granting(r)
                                                       /\ request[r].step \in People!Grants)
                                                   \/ (u = request[r].user /\ u \in org' /\ request[r].step \in People!Grants),
             invitation' \in [Invitations -> Invited],
             \A i \in Invitations : invitation[i].state = "accepted" => invitation'[i].state = "accepted",
             shared \subseteq shared', shared' \subseteq Invitations,
             \/ request[r].inv = "none"
             \/ request[r].inv \in shared'
             \/ request[r].inv \in Invitations /\ invitation'[request[r].inv].state = "accepted",
             UNCHANGED <<crossed, admitted>>
      PROVE  PeopleInv'
  <2>1. request' \in [Requests -> Asks] /\ request'[r] = People!Idle /\ Others(r)
    BY <1>0, <1>e, PeopleEnd
  <2>2. Mixed'
    BY <1>e, <2>1, PeopleIdle, MixedStays DEF People!Removals, People!Grants
  <2>3. People!TypeOK'
    BY <1>0, <1>e, <2>1 DEF People!TypeOK, Asks, Invited
  <2>4. \A q \in Requests : Granting(q)' => request'[q].user \in org' \cup crossed'
    <3>1. ~Granting(r)'
      BY <2>1, PeopleIdle DEF Granting
    <3>2. \A q \in Requests : q # r /\ Granting(q)' => Granting(q) /\ request'[q].user = request[q].user
      BY <2>1 DEF Others, Granting
    <3> QED BY <1>a, <1>e, <3>1, <3>2 DEF Entering
  <2>5. ASSUME NEW q \in Requests, request'[q].step = "remove_org"
        PROVE  request'[q].user \notin workspace' \ crossed'
    <3>1. q # r /\ request'[q] = request[q]
      BY <2>1, <2>5, PeopleIdle DEF Others
    <3>2. request[q].user \notin workspace \ crossed /\ request[q].step \in People!Removals
      BY <1>a, <2>5, <3>1 DEF Entering, People!Removals
    <3>3. ASSUME request[q].user = request[r].user, request[r].step \in People!Grants
          PROVE  request[q].user \in crossed
      BY <1>a, <3>2, <3>3 DEF Entering
    <3> QED BY <1>e, <3>1, <3>2, <3>3
  <2>6. workspace' \subseteq org' \cup crossed'
    <3>1. Granting(r) => request[r].user \in org \cup crossed
      BY <1>a DEF Entering
    <3> QED BY <1>a, <1>e, <3>1
  <2>7. Entering'
    BY <2>2, <2>4, <2>5 DEF Entering, Mixed
  <2>8. \A i \in Invitations : Joining(i)'
    BY <1>e, <2>1, PeopleIdle, JoiningStays
  <2>9. \A q \in Requests : Knowing(q)' /\ Signing(q)'
    BY <1>0, <1>e, <2>1, IdleKnows, KnowingStays
  <2> QED BY <2>3, <2>6, <2>7, <2>8, <2>9 DEF PeopleInv
\* No request moves; invitations open and close, somebody leaves the workspace.
<1>q. ASSUME UNCHANGED <<org, own, request, removed, crossed, admitted, shared>>, workspace' \subseteq workspace,
             invitation' \in [Invitations -> Invited],
             \A i \in Invitations : invitation[i].state = "accepted" => invitation'[i].state = "accepted"
      PROVE  PeopleInv'
  <2>1. People!TypeOK'
    BY <1>0, <1>q DEF People!TypeOK, Asks, Invited
  <2>2. Entering' /\ workspace' \subseteq org' \cup crossed'
    BY <1>a, <1>q DEF Entering, Granting
  <2>3. \A i \in Invitations : Joining(i)'
    BY <1>a, <1>q DEF Joining
  <2>4. ASSUME NEW q \in Requests PROVE Knowing(q)' /\ Signing(q)'
    <3>1. request[q].inv \in Invitations \cup {"none"} /\ Knowing(q) /\ Signing(q)
      BY <1>0, <1>a DEF Asks
    <3> QED BY <1>q, <3>1 DEF Knowing, Signing
  <2> QED BY <2>1, <2>2, <2>3, <2>4 DEF PeopleInv
<1>1. ASSUME NEW r \in Requests, NEW u \in Users, People!Invite(r, u) PROVE PeopleInv'
  <2> DEFINE a == [[People!Idle EXCEPT !.step = "invite"] EXCEPT !.user = u]
  <2>1. /\ request[r].step = "idle" /\ request' = [request EXCEPT ![r] = a]
        /\ UNCHANGED <<org, workspace, own, invitation, removed, crossed, admitted, shared>>
    BY <1>1 DEF People!Invite, People!At, People!history
  <2>2. a \in Asks /\ a.step = "invite" /\ a.user = u /\ a.inv = "none" /\ ~a.signup /\ ~a.seen
    BY DEF People!Idle, Asks, People!Steps
  <2> HIDE DEF a
  <2> QED BY <1>s, <2>1, <2>2
<1>2. ASSUME NEW r \in Requests, NEW u \in Users, People!Remove(r, u) PROVE PeopleInv'
  <2> DEFINE a == [[People!Idle EXCEPT !.step = "remove_workspace"] EXCEPT !.user = u]
  <2>1. /\ request[r].step = "idle" /\ request' = [request EXCEPT ![r] = a]
        /\ crossed' = IF People!Busy(u, People!Grants) THEN crossed \cup {u} ELSE crossed
        /\ UNCHANGED <<org, workspace, own, invitation, removed, admitted, shared>>
    BY <1>2 DEF People!Remove, People!At
  <2>2. a \in Asks /\ a.step = "remove_workspace" /\ a.user = u /\ a.inv = "none" /\ ~a.signup /\ ~a.seen
    BY DEF People!Idle, Asks, People!Steps
  <2>3. a.step \in People!Removals /\ a.step \notin People!Grants
    BY <2>2 DEF People!Removals, People!Grants
  <2> HIDE DEF a
  <2> QED BY <1>s, <2>1, <2>2, <2>3
<1>3. ASSUME NEW r \in Requests, NEW u \in Users, People!Manage(r, u) PROVE PeopleInv'
  <2> DEFINE was == u \in workspace
             a == [[[People!Idle EXCEPT !.step = "manage"] EXCEPT !.user = u] EXCEPT !.seen = was]
  <2>0. was \in BOOLEAN /\ (was => u \in workspace)
    OBVIOUS
  <2>1. /\ request[r].step = "idle" /\ request' = [request EXCEPT ![r] = a] /\ u \in org
        /\ crossed' = IF People!Busy(u, People!Removals) THEN crossed \cup {u} ELSE crossed
        /\ UNCHANGED <<org, workspace, own, invitation, removed, admitted, shared>>
    BY <1>3 DEF People!Manage, People!At
  <2> HIDE DEF was
  <2>2. a \in Asks /\ a.step = "manage" /\ a.user = u /\ a.inv = "none" /\ ~a.signup
    BY <2>0 DEF People!Idle, Asks, People!Steps
  <2>3. a.step \in People!Grants /\ a.step \notin People!Removals
    BY <2>2 DEF People!Removals, People!Grants
  <2> HIDE DEF a
  <2> QED BY <1>s, <2>0, <2>1, <2>2, <2>3
<1>4. ASSUME NEW r \in Requests, NEW u \in Users, People!InviteDirectly(r, u) PROVE PeopleInv'
  <2> DEFINE was == u \in org
             a == [[[People!Idle EXCEPT !.step = "direct"] EXCEPT !.user = u] EXCEPT !.seen = was]
  <2>0. was \in BOOLEAN /\ (was => u \in org)
    OBVIOUS
  <2>1. /\ request[r].step = "idle" /\ request' = [request EXCEPT ![r] = a]
        /\ crossed' = IF People!Busy(u, People!Removals) THEN crossed \cup {u} ELSE crossed
        /\ UNCHANGED <<org, workspace, own, invitation, removed, admitted, shared>>
    BY <1>4 DEF People!InviteDirectly, People!At
  <2> HIDE DEF was
  <2>2. a \in Asks /\ a.step = "direct" /\ a.user = u /\ a.inv = "none" /\ ~a.signup /\ a.seen = was
    BY <2>0 DEF People!Idle, Asks, People!Steps
  <2>3. a.step \in People!Grants /\ a.step \notin People!Removals
    BY <2>2 DEF People!Removals, People!Grants
  <2> HIDE DEF a
  <2> QED BY <1>s, <2>0, <2>1, <2>2, <2>3
<1>5. ASSUME NEW r \in Requests, NEW i \in Invitations, People!CreateInvitation(r, i) PROVE PeopleInv'
  <2>1. /\ request[r].step = "invite" /\ invitation[i].state = "none" /\ People!End(r)
        /\ invitation' = [invitation EXCEPT ![i] = [state |-> "open", to |-> request[r].user]]
        /\ UNCHANGED <<org, workspace, own, removed, crossed, admitted, shared>>
    BY <1>5 DEF People!CreateInvitation, People!At, People!User, People!history
  <2>2. request[r].inv = "none"
    BY <1>a, <2>1 DEF Knowing
  <2>3. [state |-> "open", to |-> request[r].user] \in Invited
    BY <1>0 DEF Invited, Asks
  <2>4. /\ invitation' \in [Invitations -> Invited]
        /\ \A j \in Invitations : invitation[j].state = "accepted" => invitation'[j].state = "accepted"
    BY <1>0, <2>1, <2>3
  <2> QED BY <1>0, <1>e, <2>1, <2>2, <2>4
<1>6. ASSUME NEW i \in Invitations, People!Resend(i) \/ People!Revoke(i) PROVE PeopleInv'
  <2>1. PICK s \in {"open", "closed"} : invitation' = [invitation EXCEPT ![i] = [invitation[i] EXCEPT !.state = s]]
    BY <1>6 DEF People!Resend, People!Revoke
  <2>2. /\ invitation[i].state # "accepted"
        /\ UNCHANGED <<org, workspace, own, request, removed, crossed, admitted, shared>>
    BY <1>6 DEF People!Resend, People!Revoke, People!history
  <2> DEFINE it == [invitation[i] EXCEPT !.state = s]
  <2>3. it \in Invited
    BY <1>0 DEF Invited
  <2> HIDE DEF it
  <2>4. /\ invitation' \in [Invitations -> Invited]
        /\ \A j \in Invitations : invitation[j].state = "accepted" => invitation'[j].state = "accepted"
    BY <1>0, <2>1, <2>2, <2>3 DEF it
  <2> QED BY <1>q, <2>2, <2>4
<1>7. ASSUME NEW u \in Users, People!LeaveWorkspace(u) PROVE PeopleInv'
  <2>1. /\ workspace' = workspace \ {u}
        /\ UNCHANGED <<org, own, invitation, request, removed, crossed, admitted, shared>>
    BY <1>7 DEF People!LeaveWorkspace, People!history
  <2> QED BY <1>0, <1>q, <2>1
<1>8. ASSUME NEW r \in Requests, NEW i \in Invitations, NEW u \in Users, NEW signup \in BOOLEAN,
             People!Accept(r, i, u, signup)
      PROVE  PeopleInv'
  <2> DEFINE a == [[[[People!Idle EXCEPT !.step = "join"] EXCEPT !.user = u] EXCEPT !.inv = i] EXCEPT !.signup = signup]
  <2>1. /\ request[r].step = "idle" /\ invitation[i].state = "open" /\ request' = [request EXCEPT ![r] = a]
        /\ own' = IF signup THEN own \cup {u} ELSE own
        /\ crossed' = IF People!Busy(u, People!Removals) THEN crossed \cup {u} ELSE crossed
        /\ shared' = IF \E q \in Requests : request[q].inv = i THEN shared \cup {i} ELSE shared
        /\ UNCHANGED <<org, workspace, invitation, removed, admitted>>
    BY <1>8 DEF People!Accept, People!At, People!Inv
  <2>2. a \in Asks /\ a.step = "join" /\ a.user = u /\ a.inv = i /\ a.signup = signup /\ ~a.seen
    BY DEF People!Idle, Asks, People!Steps
  <2>3. a.step \in People!Grants /\ a.step \notin People!Removals
    BY <2>2 DEF People!Removals, People!Grants
  <2> HIDE DEF a
  <2>4. request' \in [Requests -> Asks] /\ request'[r] = a /\ Others(r)
    BY <1>0, <2>1, <2>2, PeopleStart
  <2>5. Mixed' /\ crossed \subseteq crossed' /\ crossed' \subseteq Users
    BY <1>0, <2>1, <2>2, <2>3, <2>4, MixedStarts
  <2>6. People!TypeOK'
    BY <1>0, <2>1, <2>4, <2>5 DEF People!TypeOK, Asks, Invited
  <2>7. Entering' /\ workspace' \subseteq org' \cup crossed'
    BY <2>1, <2>2, <2>4, <2>5, EnteringStays
  <2>8. ASSUME NEW j \in Invitations, j \notin shared' PROVE Joining(j)'
    <3>1. /\ \A p, q \in Requests : request[p].inv = j /\ request[q].inv = j => p = q
          /\ \A q \in Requests : request[q].inv = j /\ request[q].step = "join" => admitted[j] = {}
          /\ admitted[j] # {} => \/ invitation[j].state = "accepted"
                                 \/ \E q \in Requests : request[q].inv = j
          /\ \A v, w \in admitted[j] : v = w
      BY <1>a, <2>1, <2>8 DEF Joining
    <3>2. CASE j = i
      <4>1. \A q \in Requests : request[q].inv # i
        BY <2>1, <2>8, <3>2
      <4>2. admitted[i] = {}
        BY <2>1, <3>1, <3>2, <4>1
      <4>3. \A q \in Requests : request'[q].inv = i => q = r
        BY <2>4, <4>1 DEF Others
      <4> QED BY <2>1, <3>2, <4>2, <4>3 DEF Joining
    <3>3. CASE j # i
      <4>1. request[r].inv = "none" /\ j # "none"
        BY <1>a, <1>b, <2>1 DEF Knowing
      <4>2. \A q \in Requests : /\ request'[q].inv = j => request[q].inv = j /\ request'[q] = request[q]
                                /\ request[q].inv = j => request'[q].inv = j
        BY <2>2, <2>4, <3>3, <4>1 DEF Others
      <4> QED BY <2>1, <3>1, <4>2 DEF Joining
    <3> QED BY <3>2, <3>3
  <2>9. \A j \in Invitations : Joining(j)'
    BY <2>8 DEF Joining
  <2>10. Knowing(r)' /\ Signing(r)'
    BY <1>b, <2>1, <2>2, <2>4 DEF Knowing, Signing
  <2>11. \A q \in Requests : Knowing(q)' /\ Signing(q)'
    BY <1>0, <2>1, <2>4, <2>10, KnowingStays
  <2> QED BY <2>6, <2>7, <2>9, <2>11 DEF PeopleInv
<1>9. ASSUME NEW r \in Requests, People!Join(r) PROVE PeopleInv'
  <2> DEFINE u == request[r].user
             i == request[r].inv
  <2>1. /\ request[r].step = "join" /\ People!Go(r, "assign") /\ org' = org \cup {u}
        /\ admitted' = IF u \in org THEN admitted ELSE [admitted EXCEPT ![i] = admitted[i] \cup {u}]
        /\ removed' = removed \ {u}
        /\ UNCHANGED <<workspace, own, invitation, crossed, shared>>
    BY <1>9 DEF People!Join, People!At, People!User, People!Inv
  <2>2. u \in Users /\ i \in Invitations
    BY <1>0, <1>a, <2>1 DEF Knowing, Asks
  <2>3. /\ request' \in [Requests -> Asks] /\ request'[r].step = "assign"
        /\ request'[r].user = u /\ request'[r].inv = i
        /\ request'[r].signup = request[r].signup /\ request'[r].seen = request[r].seen
        /\ Others(r)
    BY <1>0, <2>1, PeopleGo DEF People!Steps
  <2> HIDE DEF u, i
  <2>4. Mixed'
    BY <2>1, <2>3, MixedStays DEF People!Removals, People!Grants, u
  <2>5. /\ admitted' \in [Invitations -> SUBSET Users]
        /\ \A j \in Invitations : j # i => admitted'[j] = admitted[j]
        /\ admitted'[i] \subseteq admitted[i] \cup {u}
    BY <1>0, <2>1, <2>2
  <2>6. People!TypeOK'
    BY <1>0, <2>1, <2>2, <2>3, <2>5 DEF People!TypeOK, Asks, Invited
  <2>7. Entering' /\ workspace' \subseteq org' \cup crossed'
    BY <2>1, <2>3, <2>4, EnteringStays
  <2>8. \A q \in Requests : request'[q].inv = request[q].inv /\ (request'[q].step = "join" => q # r /\ request[q].step = "join")
    BY <2>3 DEF Others, i
  <2>9. ASSUME NEW j \in Invitations, j \notin shared' PROVE Joining(j)'
    <3>1. /\ \A p, q \in Requests : request[p].inv = j /\ request[q].inv = j => p = q
          /\ \A q \in Requests : request[q].inv = j /\ request[q].step = "join" => admitted[j] = {}
          /\ admitted[j] # {} => \/ invitation[j].state = "accepted"
                                 \/ \E q \in Requests : request[q].inv = j
          /\ \A v, w \in admitted[j] : v = w
      BY <1>a, <2>1, <2>9 DEF Joining
    <3>2. CASE j = i
      <4>1. admitted[i] = {} /\ request[r].inv = i
        BY <2>1, <3>1, <3>2 DEF i
      <4>2. \A v, w \in admitted'[i] : v = w
        BY <2>5, <4>1
      <4>3. \A q \in Requests : request'[q].inv = i => q = r
        BY <2>8, <3>1, <3>2, <4>1
      <4>4. request'[r].step # "join" /\ request'[r].inv = i
        BY <2>3
      <4> QED BY <3>2, <4>2, <4>3, <4>4 DEF Joining
    <3>3. CASE j # i
      <4>1. admitted'[j] = admitted[j] /\ invitation' = invitation
        BY <2>1, <2>5, <3>3
      <4> QED BY <2>8, <3>1, <4>1 DEF Joining
    <3> QED BY <3>2, <3>3
  <2>10. \A j \in Invitations : Joining(j)'
    BY <2>9 DEF Joining
  <2>11. Knowing(r)' /\ Signing(r)'
    BY <1>b, <2>1, <2>2, <2>3 DEF Knowing, Signing
  <2>12. org \cup removed \subseteq org' \cup removed'
    BY <2>1
  <2>13. \A q \in Requests : Knowing(q)' /\ Signing(q)'
    BY <1>0, <2>1, <2>3, <2>11, <2>12, KnowingStays
  <2> QED BY <2>6, <2>7, <2>10, <2>13 DEF PeopleInv
<1>10. ASSUME NEW r \in Requests, People!JoinWorkspace(r) PROVE PeopleInv'
  <2> DEFINE u == request[r].user
  <2>1. /\ request[r].step = "assign" /\ People!Go(r, "stamp") /\ workspace' = workspace \cup {u}
        /\ UNCHANGED <<org, own, invitation, removed, crossed, admitted, shared>>
    BY <1>10 DEF People!JoinWorkspace, People!At, People!User, People!history
  <2>2. u \in Users
    BY <1>a, <2>1 DEF Knowing
  <2>3. /\ request' \in [Requests -> Asks] /\ request'[r].step = "stamp"
        /\ request'[r].user = u /\ request'[r].inv = request[r].inv
        /\ request'[r].signup = request[r].signup /\ request'[r].seen = request[r].seen
        /\ Others(r)
    BY <1>0, <2>1, PeopleGo DEF People!Steps
  <2>4. u \in org \cup crossed
    BY <1>a, <2>1 DEF Entering, Granting
  <2>5. Mixed'
    BY <2>1, <2>3, MixedStays DEF People!Removals, People!Grants
  <2>6. People!TypeOK'
    BY <1>0, <2>1, <2>2, <2>3 DEF People!TypeOK, Asks, Invited
  <2>7. workspace' \subseteq org' \cup crossed'
    BY <1>a, <2>1, <2>4
  <2>8. \A q \in Requests : Granting(q)' => request'[q].user \in org' \cup crossed'
    BY <1>a, <2>1, <2>3 DEF Entering, Granting, Others
  <2>9. ASSUME NEW q \in Requests, request'[q].step = "remove_org" PROVE request'[q].user \notin workspace' \ crossed'
    <3>1. q # r /\ request'[q] = request[q] /\ request[q].step = "remove_org"
      BY <2>3, <2>9 DEF Others
    <3>2. request[q].user \notin workspace \ crossed
      BY <1>a, <3>1 DEF Entering
    <3>3. request[q].user = u => u \in crossed
      BY <1>a, <2>1, <3>1 DEF Entering, People!Removals, People!Grants
    <3> QED BY <2>1, <3>1, <3>2, <3>3
  <2>10. Entering'
    BY <2>5, <2>8, <2>9 DEF Entering, Mixed
  <2>11. \A j \in Invitations : Joining(j)'
    BY <2>1, <2>3, JoiningStays
  <2>12. Knowing(r)' /\ Signing(r)'
    BY <1>a, <2>1, <2>2, <2>3 DEF Knowing, Signing
  <2>13. \A q \in Requests : Knowing(q)' /\ Signing(q)'
    BY <1>0, <2>1, <2>3, <2>12, KnowingStays
  <2> QED BY <2>6, <2>7, <2>10, <2>11, <2>13 DEF PeopleInv
<1>11. ASSUME NEW r \in Requests, People!Stamp(r) PROVE PeopleInv'
  <2> DEFINE i == request[r].inv
             it == [invitation[i] EXCEPT !.state = "accepted"]
  <2>1. /\ request[r].step = "stamp" /\ invitation' = [invitation EXCEPT ![i] = it]
        /\ UNCHANGED <<org, workspace, own, removed, crossed, admitted, shared>>
    BY <1>11 DEF People!Stamp, People!At, People!Inv, People!history
  <2>2. i \in Invitations /\ request[r].user \in Users /\ request[r].user \in org \cup removed
    BY <1>0, <1>a, <2>1 DEF Knowing, Signing, Asks
  <2>3. it \in Invited /\ it.state = "accepted"
    BY <1>0, <2>2 DEF Invited
  <2> HIDE DEF it
  <2>4. /\ invitation' \in [Invitations -> Invited] /\ invitation'[i].state = "accepted"
        /\ \A j \in Invitations : invitation[j].state = "accepted" => invitation'[j].state = "accepted"
    BY <1>0, <2>1, <2>2, <2>3
  <2>5. CASE ~request[r].signup
    <3>1. People!End(r)
      BY <1>11, <2>5 DEF People!Stamp
    <3> QED BY <1>0, <1>e, <2>1, <2>2, <2>4, <3>1
  <2>6. CASE request[r].signup
    <3>1. People!Go(r, "leave_own")
      BY <1>11, <2>6 DEF People!Stamp
    <3>2. /\ request' \in [Requests -> Asks] /\ request'[r].step = "leave_own"
          /\ request'[r].user = request[r].user /\ request'[r].inv = i
          /\ request'[r].signup = request[r].signup /\ request'[r].seen = request[r].seen
          /\ Others(r)
      BY <1>0, <3>1, PeopleGo DEF People!Steps
    <3> HIDE DEF i
    <3>3. Mixed'
      BY <2>1, <3>2, MixedStays DEF People!Removals, People!Grants
    <3>4. People!TypeOK'
      BY <1>0, <2>1, <2>4, <3>2 DEF People!TypeOK, Asks, Invited
    <3>5. Entering' /\ workspace' \subseteq org' \cup crossed'
      BY <2>1, <3>2, <3>3, EnteringStays
    <3>6. \A j \in Invitations : Joining(j)'
      BY <2>1, <2>4, <3>2, JoiningStays DEF i
    <3>7. Knowing(r)' /\ Signing(r)'
      BY <1>b, <2>1, <2>2, <2>4, <2>6, <3>2 DEF Knowing, Signing
    <3>8. \A q \in Requests : Knowing(q)' /\ Signing(q)'
      BY <1>0, <2>1, <2>4, <3>2, <3>7, KnowingStays
    <3> QED BY <3>4, <3>5, <3>6, <3>8 DEF PeopleInv
  <2> QED BY <2>5, <2>6
<1>12. ASSUME NEW r \in Requests, People!LeaveOwn(r) PROVE PeopleInv'
  <2>1. /\ request[r].step = "leave_own" /\ People!End(r) /\ own' = own \ {request[r].user}
        /\ UNCHANGED <<org, workspace, invitation, removed, crossed, admitted, shared>>
    BY <1>12 DEF People!LeaveOwn, People!At, People!User, People!history
  <2>2. /\ request[r].user \in org \cup removed
        /\ request[r].inv \in Invitations /\ invitation[request[r].inv].state = "accepted"
    BY <1>0, <1>a, <2>1 DEF Knowing, Signing, Asks
  <2> QED BY <1>0, <1>e, <2>1, <2>2
<1>13. ASSUME NEW r \in Requests, People!RemoveWorkspace(r) PROVE PeopleInv'
  <2> DEFINE u == request[r].user
  <2>1. /\ request[r].step = "remove_workspace" /\ People!Go(r, "remove_org") /\ workspace' = workspace \ {u}
        /\ UNCHANGED <<org, own, invitation, removed, crossed, admitted, shared>>
    BY <1>13 DEF People!RemoveWorkspace, People!At, People!User, People!history
  <2>2. u \in Users
    BY <1>a, <2>1 DEF Knowing
  <2>3. /\ request' \in [Requests -> Asks] /\ request'[r].step = "remove_org"
        /\ request'[r].user = u /\ request'[r].inv = request[r].inv
        /\ request'[r].signup = request[r].signup /\ request'[r].seen = request[r].seen
        /\ Others(r)
    BY <1>0, <2>1, PeopleGo DEF People!Steps
  <2>4. Mixed'
    BY <2>1, <2>3, MixedStays DEF People!Removals, People!Grants
  <2>5. People!TypeOK'
    BY <1>0, <2>1, <2>3 DEF People!TypeOK, Asks, Invited
  <2>6. workspace' \subseteq org' \cup crossed'
    BY <1>a, <2>1
  <2>7. \A q \in Requests : Granting(q)' => request'[q].user \in org' \cup crossed'
    BY <1>a, <2>1, <2>3 DEF Entering, Granting, Others
  <2>8. \A q \in Requests : request'[q].step = "remove_org" => request'[q].user \notin workspace' \ crossed'
    BY <1>a, <2>1, <2>3 DEF Entering, Others
  <2>9. Entering'
    BY <2>4, <2>7, <2>8 DEF Entering, Mixed
  <2>10. \A j \in Invitations : Joining(j)'
    BY <2>1, <2>3, JoiningStays
  <2>11. Knowing(r)' /\ Signing(r)'
    BY <1>a, <2>1, <2>2, <2>3 DEF Knowing, Signing
  <2>12. \A q \in Requests : Knowing(q)' /\ Signing(q)'
    BY <1>0, <2>1, <2>3, <2>11, KnowingStays
  <2> QED BY <2>5, <2>6, <2>9, <2>10, <2>12 DEF PeopleInv
<1>14. ASSUME NEW r \in Requests, People!RemoveOrg(r) PROVE PeopleInv'
  <2> DEFINE u == request[r].user
  <2>1. /\ request[r].step = "remove_org" /\ People!End(r) /\ org' = org \ {u} /\ removed' = removed \cup {u}
        /\ UNCHANGED <<workspace, own, invitation, crossed, admitted, shared>>
    BY <1>14 DEF People!RemoveOrg, People!At, People!User
  <2>2. u \in Users /\ request[r].inv = "none"
    BY <1>a, <2>1 DEF Knowing
  <2>3. request' \in [Requests -> Asks] /\ request'[r] = People!Idle /\ Others(r)
    BY <1>0, <2>1, PeopleEnd
  <2>4. Mixed'
    BY <2>1, <2>3, PeopleIdle, MixedStays DEF People!Removals, People!Grants
  <2>5. People!TypeOK'
    BY <1>0, <2>1, <2>2, <2>3 DEF People!TypeOK, Asks, Invited
  <2>6. u \notin workspace \ crossed
    BY <1>a, <2>1 DEF Entering
  <2>7. workspace' \subseteq org' \cup crossed'
    BY <1>a, <2>1, <2>6
  <2>8. ASSUME NEW q \in Requests, Granting(q)' PROVE request'[q].user \in org' \cup crossed'
    <3>1. q # r /\ request'[q] = request[q] /\ Granting(q)
      BY <2>3, <2>8, PeopleIdle DEF Granting, Others
    <3>2. request[q].user \in org \cup crossed /\ request[q].step \in People!Grants
      BY <1>a, <3>1 DEF Entering, Granting, People!Grants
    <3>3. request[q].user = u => u \in crossed
      BY <1>a, <2>1, <3>2 DEF Entering, People!Removals
    <3> QED BY <2>1, <3>1, <3>2, <3>3
  <2>9. \A q \in Requests : request'[q].step = "remove_org" => request'[q].user \notin workspace' \ crossed'
    BY <1>a, <2>1, <2>3, PeopleIdle DEF Entering, Others
  <2>10. Entering'
    BY <2>4, <2>8, <2>9 DEF Entering, Mixed
  <2>11. \A j \in Invitations : Joining(j)'
    BY <2>1, <2>2, <2>3, PeopleIdle, JoiningStays
  <2>12. \A q \in Requests : Knowing(q)' /\ Signing(q)'
    BY <1>0, <2>1, <2>3, IdleKnows, KnowingStays
  <2> QED BY <2>5, <2>7, <2>10, <2>11, <2>12 DEF PeopleInv
<1>15. ASSUME NEW r \in Requests, People!Assign(r) PROVE PeopleInv'
  <2> DEFINE u == request[r].user
  <2>1. /\ request[r].step = "manage" /\ People!End(r)
        /\ workspace' = IF request[r].seen THEN workspace \ {u} ELSE workspace \cup {u}
        /\ UNCHANGED <<org, own, invitation, removed, crossed, admitted, shared>>
    BY <1>15 DEF People!Assign, People!At, People!User, People!history
  <2>2. u \in Users /\ request[r].inv = "none"
    BY <1>a, <2>1 DEF Knowing
  <2>3. Granting(r) /\ request[r].step \in People!Grants
    BY <2>1 DEF Granting, People!Grants
  <2> QED BY <1>0, <1>e, <2>1, <2>2, <2>3
<1>16. ASSUME NEW r \in Requests, People!AddDirectly(r) PROVE PeopleInv'
  <2> DEFINE u == request[r].user
  <2>1. /\ request[r].step = "direct" /\ People!End(r) /\ workspace' = workspace \cup {u}
        /\ IF request[r].seen THEN org' = org /\ removed' = removed
           ELSE org' = org \cup {u} /\ removed' = removed \ {u}
        /\ UNCHANGED <<own, invitation, crossed, admitted, shared>>
    BY <1>16 DEF People!AddDirectly, People!At, People!User
  <2>2. u \in Users /\ request[r].inv = "none"
    BY <1>a, <2>1 DEF Knowing
  <2>3. (request[r].seen => Granting(r)) /\ request[r].step \in People!Grants
    BY <2>1 DEF Granting, People!Grants
  <2>4. /\ org \subseteq org' /\ org' \subseteq Users /\ removed' \subseteq Users
        /\ org \cup removed \subseteq org' \cup removed'
        /\ request[r].seen \/ u \in org'
    BY <1>0, <2>1, <2>2
  <2> QED BY <1>0, <1>e, <2>1, <2>2, <2>3, <2>4
<1>17. ASSUME NEW r \in Requests, People!Kill(r) PROVE PeopleInv'
  <2>1. /\ People!End(r)
        /\ shared' = IF request[r].inv # "none" THEN shared \cup {request[r].inv} ELSE shared
        /\ UNCHANGED <<org, workspace, own, invitation, removed, crossed, admitted>>
    BY <1>17 DEF People!Kill, People!Inv
  <2>2. request[r].inv \in Invitations \cup {"none"}
    BY <1>0 DEF Asks
  <2>3. shared \subseteq shared' /\ shared' \subseteq Invitations /\ (request[r].inv = "none" \/ request[r].inv \in shared')
    BY <1>0, <2>1, <2>2
  <2> QED BY <1>0, <1>e, <2>1, <2>3
<1>18. CASE UNCHANGED People!vars
  BY <1>0, <1>q, <1>18 DEF People!vars, People!history
<1> QED BY <1>1, <1>2, <1>3, <1>4, <1>5, <1>6, <1>7, <1>8, <1>9, <1>10, <1>11, <1>12, <1>13, <1>14, <1>15,
           <1>16, <1>17, <1>18
        DEF People!Next, People!RemoveClient, People!RemoveWorkspaceMember

-----------------------------------------------------------------------------
(* The media library.                                                      *)

Inspecting(c) == work[c].step \in {"looked", "inspected"}
Vetted(c) == work[c].step = "vetted"
\* A request at work has a key or an asset; a vetted file is its own.
Located(c) ==
  /\ Inspecting(c) => work[c].on \in Presigned
  /\ work[c].step \in {"checked", "emptied"} => work[c].on \in Assets
  /\ Vetted(c) => /\ work[c].on \in Objects \ Presigned
                  /\ \A a \in Assets : asset[a].file # work[c].on
                  /\ \A d \in Handlers : Vetted(d) /\ work[d].on = work[c].on => d = c
\* An asset that has the object of a presigned upload finalized that upload.
Finalized(a) ==
  \A k \in Presigned : asset[a].file = k =>
    /\ pending[k].state \in {"finalized", "deleted"}
    /\ pending[k].state = "finalized" => pending[k].asset = a
\* Who inspects an object while nothing overlaps is alone with it.
Single(c) ==
  Inspecting(c) =>
    /\ pending[work[c].on].state = "open" /\ work[c].on \notin reaping
    /\ \A d \in Handlers : Inspecting(d) /\ work[d].on = work[c].on => d = c
    /\ work[c].step = "inspected" => work[c].on \in stored
Filed(a) ==
  Media!Live(a) /\ (\A c \in Handlers : work[c] # [step |-> "emptied", on |-> a]) =>
    asset[a].file \in stored

MediaInv ==
  /\ Media!TypeOK
  /\ Media!OneAssetPerObject
  /\ \A c \in Handlers : Located(c)
  /\ \A a \in Assets : Finalized(a)
  /\ apart => /\ \A c \in Handlers : Single(c)
              /\ \A k \in reaping : pending[k].state = "open"
              /\ \A a \in Assets : Filed(a)

Tickets == [state : {"absent", "open", "finalized", "deleted"}, expired : BOOLEAN,
            asset : Assets \cup {"none"}]
Stocks == [file : Objects \cup {"none"}, refs : Media!References, old : BOOLEAN]
Jobs == [step : {"idle", "looked", "inspected", "vetted", "checked", "emptied"},
         on : Objects \cup Assets \cup {"none"}]

LEMMA MediaTypes ==
  Media!TypeOK <=> /\ pending \in [Presigned -> Tickets] /\ stored \subseteq Objects
                   /\ asset \in [Assets -> Stocks] /\ work \in [Handlers -> Jobs]
                   /\ reaping \subseteq Presigned /\ orphans \subseteq Assets /\ fresh \subseteq Assets
                   /\ apart \in BOOLEAN
BY DEF Media!TypeOK, Media!None, Tickets, Stocks, Jobs

LEMMA MediaNothing ==
  /\ Media!NoPending \in Tickets /\ Media!NoPending.state = "absent"
  /\ Media!NoAsset \in Stocks /\ Media!NoAsset.file = "none"
  /\ Media!IdleCall \in Jobs /\ Media!IdleCall.step = "idle"
BY DEF Media!NoPending, Media!NoAsset, Media!IdleCall, Media!None, Tickets, Stocks, Jobs, Media!References

LEMMA MediaInit == Media!Init => MediaInv
<1> SUFFICES ASSUME Media!Init PROVE MediaInv
  OBVIOUS
<1>1. /\ pending = [k \in Presigned |-> Media!NoPending] /\ stored = {}
      /\ asset = [a \in Assets |-> Media!NoAsset] /\ work = [c \in Handlers |-> Media!IdleCall]
      /\ reaping = {} /\ orphans = {} /\ fresh = Assets /\ apart = TRUE
  BY DEF Media!Init
<1>2. Media!TypeOK
  BY <1>1, MediaNothing, MediaTypes
<1>3. /\ \A a \in Assets : asset[a].file = "none"
      /\ \A c \in Handlers : work[c].step = "idle"
  BY <1>1, MediaNothing
<1>4. Media!OneAssetPerObject /\ \A a \in Assets : Filed(a)
  BY <1>3 DEF Media!OneAssetPerObject, Media!Live, Media!None, Filed
<1>5. \A a \in Assets : Finalized(a)
  BY <1>3, NoneAssumption, SetAssumption DEF Finalized
<1>6. \A c \in Handlers : Located(c) /\ Single(c)
  BY <1>3 DEF Located, Single, Inspecting, Vetted
<1> QED BY <1>1, <1>2, <1>4, <1>5, <1>6 DEF MediaInv

\* What a step of one request makes of the others.
LEMMA MediaTo ==
  ASSUME Media!TypeOK, NEW c \in Handlers, NEW x \in Objects \cup Assets,
         NEW s \in {"looked", "inspected", "vetted", "checked", "emptied"}, Media!To(c, s, x)
  PROVE  /\ work' \in [Handlers -> Jobs]
         /\ work'[c] = [step |-> s, on |-> x] /\ work'[c].step = s /\ work'[c].on = x
         /\ \A d \in Handlers : d # c => work'[d] = work[d]
<1> DEFINE here == [step |-> s, on |-> x]
<1>1. here \in Jobs /\ here.step = s /\ here.on = x
  BY DEF Jobs
<1>2. work' = [work EXCEPT ![c] = here] /\ work \in [Handlers -> Jobs]
  BY MediaTypes DEF Media!To
<1>3. here = [step |-> s, on |-> x]
  OBVIOUS
<1> HIDE DEF here
<1> QED BY <1>1, <1>2, <1>3

LEMMA MediaEnd ==
  ASSUME Media!TypeOK, NEW c \in Handlers, Media!End(c)
  PROVE  /\ work' \in [Handlers -> Jobs] /\ work'[c].step = "idle"
         /\ \A d \in Handlers : d # c => work'[d] = work[d]
<1>1. work' = [work EXCEPT ![c] = Media!IdleCall] /\ work \in [Handlers -> Jobs]
  BY MediaTypes DEF Media!End
<1> QED BY <1>1, MediaNothing

\* A row inserted has the file, and the other rows stand.
LEMMA MediaInsert ==
  ASSUME Media!TypeOK, NEW k \in Objects, Media!Insert(k)
  PROVE  /\ Media!NewAsset \in Assets /\ fresh' \subseteq Assets
         /\ asset' \in [Assets -> Stocks] /\ asset'[Media!NewAsset].file = k
         /\ \A a \in Assets : a # Media!NewAsset => asset'[a] = asset[a]
<1> DEFINE new == [file |-> k, refs |-> "none", old |-> FALSE]
<1>1. new \in Stocks /\ new.file = k
  BY DEF Stocks, Media!References
<1>2. /\ fresh # {} /\ fresh' = fresh \ {Media!NewAsset}
      /\ asset' = [asset EXCEPT ![Media!NewAsset] = new]
  BY DEF Media!Insert
<1>3. Media!NewAsset \in fresh
  BY <1>2 DEF Media!NewAsset
<1>4. asset \in [Assets -> Stocks] /\ fresh \subseteq Assets
  BY MediaTypes
<1> HIDE DEF new
<1> QED BY <1>1, <1>2, <1>3, <1>4

\* Nothing that is being inspected or reaped has an asset yet.
LEMMA StillUnowned ==
  ASSUME MediaInv, NEW k \in Presigned, pending[k].state \notin {"finalized", "deleted"}
  PROVE  \A a \in Assets : asset[a].file # k
BY DEF MediaInv, Finalized

LEMMA UnlinkedUploads ==
  ASSUME Media!TypeOK, NEW a \in Assets
  PROVE  /\ Media!Unlinked(a) \in [Presigned -> Tickets]
         /\ \A k \in Presigned : /\ Media!Unlinked(a)[k].state = pending[k].state
                                 /\ pending[k].asset # a => Media!Unlinked(a)[k].asset = pending[k].asset
<1> DEFINE cut(k) == [pending[k] EXCEPT !.asset = "none"]
<1>1. pending \in [Presigned -> Tickets]
  BY MediaTypes
<1>2. \A k \in Presigned : cut(k) \in Tickets /\ cut(k).state = pending[k].state
  BY <1>1 DEF Tickets
<1>3. Media!Unlinked(a) = [k \in Presigned |-> IF pending[k].asset = a THEN cut(k) ELSE pending[k]]
  BY DEF Media!Unlinked, Media!None
<1> HIDE DEF cut
<1> QED BY <1>1, <1>2, <1>3

\* A row is removed: its object may be gone, and its upload keeps its state.
LEMMA MediaRemoved ==
  ASSUME MediaInv, NEW a \in Assets, asset' = [asset EXCEPT ![a] = Media!NoAsset],
         pending' = Media!Unlinked(a), reaping' = reaping, fresh' = fresh, apart' = apart,
         orphans' \subseteq Assets, work' \in [Handlers -> Jobs],
         \A c \in Handlers : work'[c] = work[c] \/ (work'[c].step = "idle" /\ work[c].on = a),
         stored' \in {stored, stored \ {asset[a].file}}
  PROVE  MediaInv'
<1>1. /\ pending \in [Presigned -> Tickets] /\ stored \subseteq Objects
      /\ asset \in [Assets -> Stocks] /\ work \in [Handlers -> Jobs]
      /\ reaping \subseteq Presigned /\ fresh \subseteq Assets /\ apart \in BOOLEAN
  BY MediaTypes DEF MediaInv
<1>2. /\ asset' \in [Assets -> Stocks] /\ asset'[a].file = "none"
      /\ \A b \in Assets : b # a => asset'[b] = asset[b]
  BY <1>1, MediaNothing
<1>3. /\ pending' \in [Presigned -> Tickets]
      /\ \A k \in Presigned : /\ pending'[k].state = pending[k].state
                              /\ pending[k].asset # a => pending'[k].asset = pending[k].asset
  BY UnlinkedUploads DEF MediaInv
<1>4. Media!TypeOK'
  <2>1. stored' \subseteq Objects
    BY <1>1
  <2> QED BY <1>1, <1>2, <1>3, <2>1 DEF Media!TypeOK, Media!None, Tickets, Stocks, Jobs
<1>5. Media!OneAssetPerObject'
  BY <1>2 DEF MediaInv, Media!OneAssetPerObject, Media!Live, Media!None
<1>6. ASSUME NEW c \in Handlers PROVE Located(c)'
  BY <1>2, NoneAssumption DEF MediaInv, Located, Inspecting, Vetted
<1>7. ASSUME NEW b \in Assets PROVE Finalized(b)'
  BY <1>2, <1>3, NoneAssumption, SetAssumption DEF MediaInv, Finalized
<1>8. ASSUME apart, NEW c \in Handlers PROVE Single(c)'
  <2> SUFFICES ASSUME Inspecting(c)' PROVE Single(c)'
    BY DEF Single
  <2>1. work'[c] = work[c] /\ Inspecting(c) /\ work[c].on \in Presigned
    BY DEF Inspecting, MediaInv, Located
  <2>2. \A d \in Handlers : Inspecting(d)' => Inspecting(d) /\ work'[d] = work[d]
    BY DEF Inspecting
  <2>3. Single(c)
    BY <1>8 DEF MediaInv
  <2>4. asset[a].file # work[c].on
    BY <2>1, <2>3, StillUnowned DEF Single
  <2> QED BY <1>3, <2>1, <2>2, <2>3, <2>4 DEF Single
<1>9. ASSUME apart, NEW b \in Assets PROVE Filed(b)'
  <2> SUFFICES ASSUME Media!Live(b)', \A c \in Handlers : work'[c] # [step |-> "emptied", on |-> b]
               PROVE  asset'[b].file \in stored'
    BY DEF Filed
  <2>1. b # a /\ asset'[b] = asset[b] /\ Media!Live(b)
    BY <1>2 DEF Media!Live, Media!None
  <2>2. ASSUME NEW c \in Handlers, work[c] = [step |-> "emptied", on |-> b] PROVE FALSE
    <3>1. work[c].on = b
      BY <2>2
    <3> QED BY <2>1, <2>2, <3>1
  <2>3. asset[b].file \in stored
    BY <1>9, <2>1, <2>2 DEF MediaInv, Filed
  <2>4. asset[b].file # asset[a].file
    BY <2>1 DEF MediaInv, Media!OneAssetPerObject
  <2> QED BY <2>1, <2>3, <2>4
<1>10. ASSUME apart, NEW k \in reaping PROVE pending'[k].state = "open"
  BY <1>1, <1>3, <1>10 DEF MediaInv
<1>11. apart' => /\ \A c \in Handlers : Single(c)'
                 /\ \A k \in reaping' : pending'[k].state = "open"
                 /\ \A b \in Assets : Filed(b)'
  BY <1>8, <1>9, <1>10
<1> QED BY <1>4, <1>5, <1>6, <1>7, <1>11 DEF MediaInv

LEMMA MediaNext == MediaInv /\ [Media!Next]_Media!vars => MediaInv'
<1> SUFFICES ASSUME MediaInv, [Media!Next]_Media!vars PROVE MediaInv'
  OBVIOUS
<1>0. /\ pending \in [Presigned -> Tickets] /\ stored \subseteq Objects
      /\ asset \in [Assets -> Stocks] /\ work \in [Handlers -> Jobs]
      /\ reaping \subseteq Presigned /\ orphans \subseteq Assets /\ fresh \subseteq Assets
      /\ apart \in BOOLEAN /\ Media!TypeOK
  BY MediaTypes DEF MediaInv
<1>a. /\ Media!OneAssetPerObject
      /\ \A c \in Handlers : Located(c)
      /\ \A a \in Assets : Finalized(a)
      /\ apart => /\ \A c \in Handlers : Single(c)
                  /\ \A k \in reaping : pending[k].state = "open"
                  /\ \A a \in Assets : Filed(a)
  BY DEF MediaInv
\* The files of the assets stand, and no upload is finalized or deleted.
<1>b. ASSUME Media!TypeOK', \A a \in Assets : asset'[a].file = asset[a].file, pending' = pending,
             \A c \in Handlers : Located(c)', apart' => apart, stored \subseteq stored', reaping' = reaping,
             apart' => \A c \in Handlers : Single(c)',
             \A a \in Assets, c \in Handlers :
               work[c] = [step |-> "emptied", on |-> a] => work'[c] = [step |-> "emptied", on |-> a]
      PROVE  MediaInv'
  <2>1. Media!OneAssetPerObject'
    BY <1>a, <1>b DEF Media!OneAssetPerObject, Media!Live
  <2>2. \A a \in Assets : Finalized(a)'
    BY <1>a, <1>b DEF Finalized
  <2>3. apart' => \A a \in Assets : Filed(a)'
    BY <1>a, <1>b DEF Filed, Media!Live
  <2> QED BY <1>a, <1>b, <2>1, <2>2, <2>3 DEF MediaInv
\* Uploads change on which nobody works.
<1>c. ASSUME NEW k \in Presigned, NEW p \in Tickets, pending' = [pending EXCEPT ![k] = p],
             p.state = pending[k].state \/ (pending[k].state = "absent" /\ p.state = "open"),
             p.asset = pending[k].asset,
             UNCHANGED <<stored, asset, work, reaping, orphans, fresh, apart>>
      PROVE  MediaInv'
  <2>1. /\ pending' \in [Presigned -> Tickets] /\ pending'[k] = p
        /\ \A j \in Presigned : j # k => pending'[j] = pending[j]
    BY <1>0, <1>c
  <2>2. Media!TypeOK'
    BY <1>0, <1>c, <2>1 DEF Media!TypeOK, Media!None, Tickets, Stocks, Jobs
  <2>3. Media!OneAssetPerObject'
    BY <1>a, <1>c DEF Media!OneAssetPerObject, Media!Live
  <2>4. \A a \in Assets : Finalized(a)'
    BY <1>a, <1>c, <2>1 DEF Finalized
  <2>5. \A c \in Handlers : Located(c)'
    BY <1>a, <1>c DEF Located, Inspecting, Vetted
  <2>6. ASSUME apart, NEW c \in Handlers PROVE Single(c)'
    BY <1>a, <1>c, <2>1, <2>6 DEF Located, Single, Inspecting
  <2>7. ASSUME apart, NEW j \in reaping PROVE pending'[j].state = "open"
    BY <1>0, <1>a, <1>c, <2>1, <2>7
  <2>8. ASSUME apart, NEW a \in Assets PROVE Filed(a)'
    BY <1>a, <1>c, <2>8 DEF Filed, Media!Live
  <2> QED BY <1>c, <2>2, <2>3, <2>4, <2>5, <2>6, <2>7, <2>8 DEF MediaInv
<1>1. ASSUME NEW k \in Presigned, Media!Request(k) PROVE MediaInv'
  <2> DEFINE p == [pending[k] EXCEPT !.state = "open"]
  <2>1. p \in Tickets /\ p.state = "open" /\ p.asset = pending[k].asset
    BY <1>0 DEF Tickets
  <2>2. /\ pending[k].state = "absent" /\ pending' = [pending EXCEPT ![k] = p]
        /\ UNCHANGED <<stored, asset, work, reaping, orphans, fresh, apart>>
    BY <1>1 DEF Media!Request
  <2> HIDE DEF p
  <2> QED BY <1>c, <2>1, <2>2
<1>2. ASSUME NEW k \in Presigned, Media!Expire(k) PROVE MediaInv'
  <2> DEFINE p == [pending[k] EXCEPT !.expired = TRUE]
  <2>1. p \in Tickets /\ p.state = pending[k].state /\ p.asset = pending[k].asset
    BY <1>0 DEF Tickets
  <2>2. /\ pending' = [pending EXCEPT ![k] = p]
        /\ UNCHANGED <<stored, asset, work, reaping, orphans, fresh, apart>>
    BY <1>2 DEF Media!Expire
  <2> HIDE DEF p
  <2> QED BY <1>c, <2>1, <2>2
<1>3. ASSUME NEW k \in Presigned, Media!Put(k) PROVE MediaInv'
  <2>1. stored' = stored \cup {k} /\ UNCHANGED <<pending, asset, work, reaping, orphans, fresh, apart>>
    BY <1>3 DEF Media!Put
  <2>2. Media!TypeOK'
    BY <1>0, <2>1, SetAssumption DEF Media!TypeOK, Media!None, Tickets, Stocks, Jobs
  <2>3. \A c \in Handlers : Located(c)'
    BY <1>a, <2>1 DEF Located, Inspecting, Vetted
  <2>4. apart' => \A c \in Handlers : Single(c)'
    BY <1>a, <2>1 DEF Single, Inspecting
  <2> QED BY <1>b, <2>1, <2>2, <2>3, <2>4
<1>4. ASSUME NEW c \in Handlers, NEW k \in Presigned, Media!Look(c, k) PROVE MediaInv'
  <2>1. /\ work[c].step = "idle" /\ pending[k].state = "open"
        /\ Media!To(c, "looked", k) /\ apart' = (apart /\ k \notin Media!Touched)
        /\ UNCHANGED <<pending, stored, asset, reaping, orphans, fresh>>
    BY <1>4 DEF Media!Look, Media!At, Media!Work
  <2>2. /\ work' \in [Handlers -> Jobs] /\ work'[c].step = "looked" /\ work'[c].on = k
        /\ \A d \in Handlers : d # c => work'[d] = work[d]
    BY <1>0, <2>1, MediaTo, SetAssumption
  <2>3. Media!TypeOK'
    BY <1>0, <2>1, <2>2 DEF Media!TypeOK, Media!None, Tickets, Stocks, Jobs
  <2>4. \A d \in Handlers : Located(d)'
    BY <1>a, <2>1, <2>2 DEF Located, Inspecting, Vetted
  <2>5. apart' => k \notin reaping /\ \A d \in Handlers : work[d].on # k
    BY <2>1 DEF Media!Touched
  <2>6. ASSUME apart', NEW d \in Handlers PROVE Single(d)'
    <3>1. /\ k \notin reaping /\ \A e \in Handlers : e # c => work'[e].on # k
          /\ apart /\ Single(d)
      BY <1>0, <1>a, <2>1, <2>2, <2>5, <2>6
    <3>2. CASE d = c
      BY <2>1, <2>2, <3>1, <3>2 DEF Single, Inspecting
    <3>3. CASE d # c
      BY <2>1, <2>2, <3>1, <3>3 DEF Single, Inspecting
    <3> QED BY <3>2, <3>3
  <2>7. \A a \in Assets, d \in Handlers :
          work[d] = [step |-> "emptied", on |-> a] => work'[d] = [step |-> "emptied", on |-> a]
    <3> SUFFICES ASSUME NEW a \in Assets, NEW d \in Handlers, work[d] = [step |-> "emptied", on |-> a]
                 PROVE  work'[d] = work[d]
      OBVIOUS
    <3>1. work[d].step = "emptied"
      OBVIOUS
    <3> QED BY <2>1, <2>2, <3>1
  <2> QED BY <1>0, <1>b, <2>1, <2>3, <2>4, <2>6, <2>7
\* The rows stand.
<1>d. ASSUME work' \in [Handlers -> Jobs], stored' \subseteq Objects, apart' \in BOOLEAN, apart' => apart,
             UNCHANGED <<asset, pending, reaping, orphans, fresh>>,
             \A d \in Handlers : Located(d)',
             apart' => \A d \in Handlers : Single(d)',
             apart' => \A a \in Assets : Filed(a)'
      PROVE  MediaInv'
  <2>1. Media!TypeOK'
    BY <1>0, <1>d DEF Media!TypeOK, Media!None, Tickets, Stocks, Jobs
  <2>2. Media!OneAssetPerObject' /\ \A a \in Assets : Finalized(a)'
    BY <1>a, <1>d DEF Media!OneAssetPerObject, Media!Live, Finalized
  <2>3. apart' => \A k \in reaping' : pending'[k].state = "open"
    BY <1>a, <1>d
  <2> QED BY <1>d, <2>1, <2>2, <2>3 DEF MediaInv
\* A request that was not emptied takes nothing from what is filed.
<1>e. ASSUME NEW c \in Handlers, work[c].step # "emptied", \A d \in Handlers : d # c => work'[d] = work[d],
             NEW a \in Assets, Filed(a), asset' = asset,
             asset[a].file \in stored' \/ asset[a].file \notin stored \/ work'[c] = [step |-> "emptied", on |-> a]
      PROVE  Filed(a)'
  <2> SUFFICES ASSUME Media!Live(a)', \A d \in Handlers : work'[d] # [step |-> "emptied", on |-> a]
               PROVE  asset'[a].file \in stored'
    BY DEF Filed
  <2>1. ASSUME NEW d \in Handlers, work[d] = [step |-> "emptied", on |-> a] PROVE FALSE
    <3>1. work[d].step = "emptied"
      BY <2>1
    <3> QED BY <1>e, <2>1, <3>1
  <2>2. asset[a].file \in stored
    BY <1>e, <2>1 DEF Filed, Media!Live
  <2> QED BY <1>e, <2>2
<1>5. ASSUME NEW c \in Handlers, Media!Inspect(c) PROVE MediaInv'
  <2> DEFINE k == work[c].on
  <2>1. /\ work[c].step = "looked" /\ UNCHANGED <<pending, asset, reaping, orphans, fresh, apart>>
        /\ \/ Media!End(c) /\ stored' \in {stored, stored \ {k}}
           \/ k \in stored /\ Media!To(c, "inspected", k) /\ stored' = stored
    BY <1>5 DEF Media!Inspect, Media!At
  <2>2. k \in Presigned /\ k \in Objects
    BY <1>a, <2>1, SetAssumption DEF Located, Inspecting
  <2>3. /\ work' \in [Handlers -> Jobs] /\ \A d \in Handlers : d # c => work'[d] = work[d]
        /\ \/ work'[c].step = "idle" /\ stored' \in {stored, stored \ {k}}
           \/ k \in stored /\ work'[c].step = "inspected" /\ work'[c].on = k /\ stored' = stored
    BY <1>0, <2>1, <2>2, MediaTo, MediaEnd
  <2>4. stored' \subseteq Objects /\ apart' \in BOOLEAN
    BY <1>0, <2>1, <2>3
  <2>5. \A d \in Handlers : Located(d)'
    BY <1>a, <2>1, <2>2, <2>3 DEF Located, Inspecting, Vetted
  <2>6. ASSUME apart, NEW d \in Handlers PROVE Single(d)'
    BY <1>a, <2>1, <2>3, <2>6 DEF Single, Inspecting
  <2>7. ASSUME apart, NEW a \in Assets PROVE Filed(a)'
    <3>1. pending[k].state = "open"
      BY <1>a, <2>1, <2>7 DEF Single, Inspecting
    <3>2. asset[a].file # k
      BY <2>2, <3>1, StillUnowned
    <3> QED BY <1>a, <1>e, <2>1, <2>3, <2>7, <3>2
  <2> QED BY <1>d, <2>1, <2>3, <2>4, <2>5, <2>6, <2>7
<1>6. ASSUME NEW c \in Handlers, NEW k \in Objects, Media!Vet(c, k) PROVE MediaInv'
  <2>1. /\ work[c].step = "idle" /\ k \in Objects \ Presigned /\ Media!To(c, "vetted", k)
        /\ \A d \in Handlers : work[d].on # k
        /\ \A a \in Assets : asset[a].file # k
        /\ UNCHANGED <<pending, stored, asset, reaping, orphans, fresh, apart>>
    BY <1>6 DEF Media!Vet, Media!At
  <2>2. /\ work' \in [Handlers -> Jobs] /\ work'[c].step = "vetted" /\ work'[c].on = k
        /\ \A d \in Handlers : d # c => work'[d] = work[d]
    BY <1>0, <2>1, MediaTo
  <2>3. \A d \in Handlers : Located(d)'
    BY <1>a, <2>1, <2>2 DEF Located, Inspecting, Vetted
  <2>4. ASSUME apart, NEW d \in Handlers PROVE Single(d)'
    BY <1>a, <2>1, <2>2, <2>4 DEF Single, Inspecting
  <2>5. ASSUME apart, NEW a \in Assets PROVE Filed(a)'
    BY <1>a, <1>e, <2>1, <2>2, <2>5
  <2> QED BY <1>0, <1>d, <2>1, <2>2, <2>3, <2>4, <2>5
<1>7. ASSUME NEW c \in Handlers, NEW a \in Assets, Media!Check(c, a) PROVE MediaInv'
  <2>1. /\ work[c].step = "idle" /\ Media!To(c, "checked", a)
        /\ apart' = (apart /\ asset[a].file \notin Media!Touched)
        /\ UNCHANGED <<pending, stored, asset, reaping, orphans, fresh>>
    BY <1>7 DEF Media!Check, Media!At, Media!Work
  <2>2. /\ work' \in [Handlers -> Jobs] /\ work'[c].step = "checked" /\ work'[c].on = a
        /\ \A d \in Handlers : d # c => work'[d] = work[d]
    BY <1>0, <2>1, MediaTo
  <2>3. \A d \in Handlers : Located(d)'
    BY <1>a, <2>1, <2>2 DEF Located, Inspecting, Vetted
  <2>4. ASSUME apart, NEW d \in Handlers PROVE Single(d)'
    BY <1>a, <2>1, <2>2, <2>4 DEF Single, Inspecting
  <2>5. ASSUME apart, NEW b \in Assets PROVE Filed(b)'
    BY <1>a, <1>e, <2>1, <2>2, <2>5
  <2> QED BY <1>0, <1>d, <2>1, <2>2, <2>3, <2>4, <2>5
<1>8. ASSUME NEW c \in Handlers, Media!Empty(c) PROVE MediaInv'
  <2> DEFINE a == work[c].on
  <2>1. /\ work[c].step = "checked" /\ Media!To(c, "emptied", a) /\ stored' = stored \ {asset[a].file}
        /\ UNCHANGED <<pending, asset, reaping, orphans, fresh, apart>>
    BY <1>8 DEF Media!Empty, Media!At
  <2>2. a \in Assets
    BY <1>a, <2>1 DEF Located
  <2>3. /\ work' \in [Handlers -> Jobs] /\ work'[c] = [step |-> "emptied", on |-> a]
        /\ work'[c].step = "emptied" /\ work'[c].on = a
        /\ \A d \in Handlers : d # c => work'[d] = work[d]
    BY <1>0, <2>1, <2>2, MediaTo
  <2>4. \A d \in Handlers : Located(d)'
    BY <1>a, <2>1, <2>2, <2>3 DEF Located, Inspecting, Vetted
  <2>5. ASSUME apart, NEW d \in Handlers PROVE Single(d)'
    <3> SUFFICES ASSUME Inspecting(d)' PROVE Single(d)'
      BY DEF Single
    <3>1. Inspecting(d) /\ work'[d] = work[d] /\ work[d].on \in Presigned
      BY <1>a, <2>3 DEF Inspecting, Located
    <3>2. Single(d)
      BY <1>a, <2>5
    <3>3. asset[a].file # work[d].on
      BY <2>2, <3>1, <3>2, StillUnowned DEF Single
    <3> QED BY <2>1, <2>3, <3>1, <3>2, <3>3 DEF Single, Inspecting
  <2>6. ASSUME apart, NEW b \in Assets PROVE Filed(b)'
    <3>1. CASE b = a
      BY <1>a, <1>e, <2>1, <2>3, <2>6, <3>1
    <3>2. CASE b # a
      <4>1. asset[b].file # asset[a].file \/ ~Media!Live(b)
        BY <1>a, <2>2, <3>2 DEF Media!OneAssetPerObject
      <4>2. CASE ~Media!Live(b)
        BY <2>1, <4>2 DEF Filed, Media!Live
      <4>3. CASE asset[b].file # asset[a].file
        BY <1>a, <1>e, <2>1, <2>3, <2>6, <4>3
      <4> QED BY <4>1, <4>2, <4>3
    <3> QED BY <3>1, <3>2
  <2>7. stored' \subseteq Objects
    BY <1>0, <2>1
  <2> QED BY <1>0, <1>d, <2>1, <2>3, <2>4, <2>5, <2>6, <2>7
<1>9. ASSUME NEW c \in Handlers, Media!Remove(c) PROVE MediaInv'
  <2> DEFINE a == work[c].on
  <2>1. /\ work[c].step = "emptied" /\ Media!End(c) /\ asset' = [asset EXCEPT ![a] = Media!NoAsset]
        /\ pending' = Media!Unlinked(a) /\ UNCHANGED <<stored, reaping, orphans, fresh, apart>>
    BY <1>9 DEF Media!Remove, Media!At
  <2>2. a \in Assets
    BY <1>a, <2>1 DEF Located
  <2>3. /\ work' \in [Handlers -> Jobs] /\ work'[c].step = "idle"
        /\ \A d \in Handlers : d # c => work'[d] = work[d]
    BY <1>0, <2>1, MediaEnd
  <2>4. \A d \in Handlers : work'[d] = work[d] \/ (work'[d].step = "idle" /\ work[d].on = a)
    BY <2>3
  <2> HIDE DEF a
  <2> QED BY <1>0, <2>1, <2>2, <2>3, <2>4, MediaRemoved
<1>10. ASSUME NEW a \in Assets, Media!DeleteOrphan(a) PROVE MediaInv'
  <2>1. /\ a \in orphans /\ orphans' = orphans \ {a} /\ UNCHANGED <<work, reaping, fresh, apart>>
        /\ \/ UNCHANGED <<stored, asset, pending>>
           \/ /\ stored' = stored \ {asset[a].file}
              /\ asset' = [asset EXCEPT ![a] = Media!NoAsset] /\ pending' = Media!Unlinked(a)
    BY <1>10 DEF Media!DeleteOrphan
  <2>2. orphans' \subseteq Assets
    BY <1>0, <2>1
  <2>3. CASE UNCHANGED <<stored, asset, pending>>
    BY <1>0, <1>a, <2>1, <2>2, <2>3 DEF MediaInv, Media!TypeOK, Media!None, Tickets, Stocks, Jobs, Media!OneAssetPerObject,
       Media!Live, Located, Finalized, Single, Filed, Inspecting, Vetted
  <2>4. CASE /\ stored' = stored \ {asset[a].file}
             /\ asset' = [asset EXCEPT ![a] = Media!NoAsset] /\ pending' = Media!Unlinked(a)
    BY <1>0, <2>1, <2>2, <2>4, MediaRemoved
  <2> QED BY <2>1, <2>3, <2>4
<1>11. ASSUME NEW a \in Assets, NEW s \in Stocks, s.file = asset[a].file, asset' = [asset EXCEPT ![a] = s],
              UNCHANGED <<pending, stored, work, reaping, orphans, fresh, apart>>
       PROVE  MediaInv'
  <2>1. asset' \in [Assets -> Stocks] /\ \A b \in Assets : asset'[b].file = asset[b].file
    BY <1>0, <1>11
  <2>2. Media!TypeOK'
    BY <1>0, <1>11, <2>1 DEF Media!TypeOK, Media!None, Tickets, Stocks, Jobs
  <2>3. \A c \in Handlers : Located(c)'
    BY <1>a, <1>11, <2>1 DEF Located, Inspecting, Vetted
  <2>4. apart' => \A c \in Handlers : Single(c)'
    BY <1>a, <1>11 DEF Single, Inspecting
  <2> QED BY <1>b, <1>11, <2>1, <2>2, <2>3, <2>4
<1>12. ASSUME NEW a \in Assets, NEW r \in Media!References, Media!Refer(a, r) PROVE MediaInv'
  <2> DEFINE s == [asset[a] EXCEPT !.refs = r]
  <2>1. s \in Stocks /\ s.file = asset[a].file
    BY <1>0 DEF Stocks
  <2>2. asset' = [asset EXCEPT ![a] = s] /\ UNCHANGED <<pending, stored, work, reaping, orphans, fresh, apart>>
    BY <1>12 DEF Media!Refer
  <2> HIDE DEF s
  <2> QED BY <1>11, <2>1, <2>2
<1>13. ASSUME NEW a \in Assets, Media!Age(a) PROVE MediaInv'
  <2> DEFINE s == [asset[a] EXCEPT !.old = TRUE]
  <2>1. s \in Stocks /\ s.file = asset[a].file
    BY <1>0 DEF Stocks
  <2>2. asset' = [asset EXCEPT ![a] = s] /\ UNCHANGED <<pending, stored, work, reaping, orphans, fresh, apart>>
    BY <1>13 DEF Media!Age
  <2> HIDE DEF s
  <2> QED BY <1>11, <2>1, <2>2
<1>14. CASE Media!ReadExpired
  <2>1. /\ reaping' = {k \in Presigned : pending[k].state = "open" /\ pending[k].expired}
        /\ apart' = (apart /\ reaping' \cap Media!Touched = {})
        /\ UNCHANGED <<pending, stored, asset, work, orphans, fresh>>
    BY <1>14 DEF Media!ReadExpired
  <2>2. Media!TypeOK'
    BY <1>0, <2>1 DEF Media!TypeOK, Media!None, Tickets, Stocks, Jobs
  <2>3. apart' => \A c \in Handlers : work[c].on \notin reaping'
    BY <2>1 DEF Media!Touched
  <2>4. apart' => \A c \in Handlers : Single(c)'
    BY <1>a, <2>1, <2>3 DEF Single, Inspecting
  <2>5. Media!OneAssetPerObject' /\ (\A a \in Assets : Finalized(a)') /\ \A c \in Handlers : Located(c)'
    BY <1>a, <2>1 DEF Media!OneAssetPerObject, Media!Live, Finalized, Located, Inspecting, Vetted
  <2>6. apart' => \A a \in Assets : Filed(a)'
    BY <1>a, <2>1 DEF Filed, Media!Live
  <2>7. \A k \in reaping' : pending'[k].state = "open"
    BY <2>1
  <2> QED BY <2>2, <2>4, <2>5, <2>6, <2>7 DEF MediaInv
<1>15. CASE Media!ListOrphans
  <2>1. /\ orphans' \subseteq Assets /\ apart' \in BOOLEAN /\ (apart' => apart)
        /\ UNCHANGED <<pending, stored, asset, work, reaping, fresh>>
    BY <1>15 DEF Media!ListOrphans
  <2>2. Media!TypeOK'
    BY <1>0, <2>1 DEF Media!TypeOK, Media!None, Tickets, Stocks, Jobs
  <2>3. \A c \in Handlers : Located(c)'
    BY <1>a, <2>1 DEF Located, Inspecting, Vetted
  <2>4. apart' => \A c \in Handlers : Single(c)'
    BY <1>a, <2>1 DEF Single, Inspecting
  <2> QED BY <1>b, <2>1, <2>2, <2>3, <2>4
<1>16. ASSUME NEW k \in Presigned, Media!Reap(k) PROVE MediaInv'
  <2> DEFINE q == [pending[k] EXCEPT !.state = "deleted"]
             p == [q EXCEPT !.asset = "none"]
  <2>1. q \in Tickets /\ q.state = "deleted"
    BY <1>0 DEF Tickets
  <2>2. p \in Tickets /\ p.state = "deleted"
    BY <2>1 DEF Tickets
  <2>3. /\ k \in reaping /\ reaping' = reaping \ {k} /\ stored' = stored \ {k}
        /\ UNCHANGED <<asset, work, orphans, fresh, apart>>
        /\ pending' = [pending EXCEPT ![k] = p]
    BY <1>16 DEF Media!Reap, Media!None
  <2> HIDE DEF p
  <2>4. /\ pending' \in [Presigned -> Tickets] /\ pending'[k].state = "deleted"
        /\ \A j \in Presigned : j # k => pending'[j] = pending[j]
    BY <1>0, <2>2, <2>3
  <2>5. Media!TypeOK'
    BY <1>0, <2>3, <2>4 DEF Media!TypeOK, Media!None, Tickets, Stocks, Jobs
  <2>6. Media!OneAssetPerObject' /\ \A c \in Handlers : Located(c)'
    BY <1>a, <2>3 DEF Media!OneAssetPerObject, Media!Live, Located, Inspecting, Vetted
  <2>7. \A a \in Assets : Finalized(a)'
    BY <1>a, <2>3, <2>4 DEF Finalized
  <2>8. ASSUME apart, NEW c \in Handlers PROVE Single(c)'
    BY <1>a, <2>3, <2>4, <2>8 DEF Single, Inspecting, Located
  <2>9. ASSUME apart, NEW a \in Assets PROVE Filed(a)'
    <3>1. asset[a].file # k
      BY <1>a, <2>3, <2>9, StillUnowned
    <3> QED BY <1>a, <2>3, <2>9, <3>1 DEF Filed, Media!Live
  <2>10. ASSUME apart, NEW j \in reaping' PROVE pending'[j].state = "open"
    BY <1>0, <1>a, <2>3, <2>4, <2>10
  <2> QED BY <2>3, <2>5, <2>6, <2>7, <2>8, <2>9, <2>10 DEF MediaInv
\* A row inserted for an object that no asset has and that is stored or was inspected.
<1>f. ASSUME NEW c \in Handlers, NEW k \in Objects, work[c].on = k, work[c].step \in {"inspected", "vetted"},
             Media!Insert(k), Media!End(c), \A a \in Assets : asset[a].file # k,
             work[c].step = "vetted" => pending' = pending,
             work[c].step = "inspected" =>
               /\ pending' \in [Presigned -> Tickets]
               /\ pending'[k].state = "finalized" /\ pending'[k].asset = Media!NewAsset
               /\ \A j \in Presigned : j # k => pending'[j] = pending[j],
             stored' \subseteq Objects, stored \subseteq stored', apart => k \in stored',
             UNCHANGED <<reaping, orphans, apart>>
      PROVE  MediaInv'
  <2> DEFINE n == Media!NewAsset
  <2>1. /\ n \in Assets /\ fresh' \subseteq Assets /\ asset' \in [Assets -> Stocks] /\ asset'[n].file = k
        /\ \A a \in Assets : a # n => asset'[a] = asset[a]
    BY <1>0, <1>f, MediaInsert
  <2>2. /\ work' \in [Handlers -> Jobs] /\ work'[c].step = "idle"
        /\ \A d \in Handlers : d # c => work'[d] = work[d]
    BY <1>0, <1>f, MediaEnd
  <2>3. work[c].step = "inspected" => k \in Presigned
    BY <1>a, <1>f DEF Located, Inspecting
  <2>4. work[c].step = "vetted" => k \notin Presigned
    BY <1>a, <1>f DEF Located, Vetted
  <2>5. /\ pending' \in [Presigned -> Tickets]
        /\ k \in Presigned => pending'[k].state = "finalized" /\ pending'[k].asset = n
        /\ \A j \in Presigned : j # k => pending'[j] = pending[j]
    BY <1>0, <1>f, <2>3, <2>4
  <2> HIDE DEF n
  <2>6. Media!TypeOK'
    BY <1>0, <1>f, <2>1, <2>2, <2>5 DEF Media!TypeOK, Media!None, Tickets, Stocks, Jobs
  <2>7. Media!OneAssetPerObject'
    BY <1>a, <1>f, <2>1 DEF Media!OneAssetPerObject, Media!Live, Media!None
  <2>8. ASSUME NEW d \in Handlers PROVE Located(d)'
    <3>1. CASE d = c
      BY <2>2, <3>1 DEF Located, Inspecting, Vetted
    <3>2. CASE d # c
      <4>1. work[d].step = "vetted" => work[d].on # k
        BY <1>a, <1>f, <2>3, <3>2 DEF Located, Vetted
      <4> QED BY <1>a, <2>1, <2>2, <3>2, <4>1 DEF Located, Inspecting, Vetted
    <3> QED BY <3>1, <3>2
  <2>9. ASSUME NEW a \in Assets PROVE Finalized(a)'
    BY <1>a, <1>f, <2>1, <2>5 DEF Finalized
  <2>10. ASSUME apart, NEW d \in Handlers PROVE Single(d)'
    <3> SUFFICES ASSUME Inspecting(d)' PROVE Single(d)'
      BY DEF Single
    <3>1. d # c /\ work'[d] = work[d] /\ Inspecting(d) /\ work[d].on \in Presigned /\ Single(d)
      BY <1>a, <2>2, <2>10 DEF Inspecting, Located
    <3>2. work[d].on # k
      BY <1>a, <1>f, <2>4, <2>10, <3>1 DEF Single, Inspecting
    <3> QED BY <1>f, <2>2, <2>5, <3>1, <3>2 DEF Single, Inspecting
  <2>11. ASSUME apart, NEW j \in reaping PROVE pending'[j].state = "open"
    <3>1. j # k
      BY <1>a, <1>f, <2>4, <2>11, <1>0 DEF Single, Inspecting
    <3> QED BY <1>0, <1>a, <2>5, <2>11, <3>1
  <2>12. ASSUME apart, NEW a \in Assets PROVE Filed(a)'
    <3>1. CASE a = n
      BY <1>f, <2>1, <2>12, <3>1 DEF Filed
    <3>2. CASE a # n
      <4> SUFFICES ASSUME Media!Live(a)', \A d \in Handlers : work'[d] # [step |-> "emptied", on |-> a]
                   PROVE  asset'[a].file \in stored'
        BY DEF Filed
      <4>1. ASSUME NEW d \in Handlers, work[d] = [step |-> "emptied", on |-> a] PROVE FALSE
        <5>1. work[d].step = "emptied"
          BY <4>1
        <5> QED BY <1>f, <2>2, <4>1, <5>1
      <4>2. Filed(a) /\ Media!Live(a)
        BY <1>a, <2>1, <2>12, <3>2 DEF Media!Live
      <4> QED BY <1>f, <2>1, <3>2, <4>1, <4>2 DEF Filed
    <3> QED BY <3>1, <3>2
  <2> QED BY <1>f, <2>6, <2>7, <2>8, <2>9, <2>10, <2>11, <2>12 DEF MediaInv
<1>17. ASSUME NEW c \in Handlers, Media!Register(c) PROVE MediaInv'
  <2> DEFINE k == work[c].on
  <2>1. /\ work[c].step = "inspected" /\ Media!End(c) /\ UNCHANGED <<stored, reaping, orphans, apart>>
    BY <1>17 DEF Media!Register, Media!At
  <2>2. k \in Presigned /\ k \in Objects
    BY <1>a, <2>1, SetAssumption DEF Located, Inspecting
  <2>3. /\ work' \in [Handlers -> Jobs] /\ work'[c].step = "idle"
        /\ \A d \in Handlers : d # c => work'[d] = work[d]
    BY <1>0, <2>1, MediaEnd
  <2>4. CASE UNCHANGED <<pending, asset, fresh>>
    <3>1. \A d \in Handlers : Located(d)'
      BY <1>a, <2>3, <2>4 DEF Located, Inspecting, Vetted
    <3>2. apart => \A d \in Handlers : Single(d)'
      BY <1>a, <2>1, <2>3, <2>4 DEF Single, Inspecting
    <3>3. ASSUME apart, NEW a \in Assets PROVE Filed(a)'
      BY <1>a, <1>e, <2>1, <2>3, <2>4, <3>3
    <3> QED BY <1>0, <1>d, <2>1, <2>3, <2>4, <3>1, <3>2, <3>3
  <2>5. CASE /\ ~(pending[k].state = "deleted" \/ (pending[k].state = "finalized" /\ pending[k].asset # "none"))
             /\ Media!Insert(k)
             /\ pending' = [pending EXCEPT ![k].state = "finalized", ![k].asset = Media!NewAsset]
    <3>1. Media!NewAsset \in Assets
      BY <1>0, <2>2, <2>5, MediaInsert
    <3> DEFINE q == [pending[k] EXCEPT !.state = "finalized"]
               p == [q EXCEPT !.asset = Media!NewAsset]
    <3>2. q \in Tickets /\ q.state = "finalized"
      BY <1>0, <2>2 DEF Tickets
    <3>3. p \in Tickets /\ p.state = "finalized" /\ p.asset = Media!NewAsset
      BY <3>1, <3>2 DEF Tickets
    <3>4. pending' = [pending EXCEPT ![k] = p]
      BY <2>5
    <3> HIDE DEF p, q
    <3>5. /\ pending' \in [Presigned -> Tickets]
          /\ pending'[k].state = "finalized" /\ pending'[k].asset = Media!NewAsset
          /\ \A j \in Presigned : j # k => pending'[j] = pending[j]
      BY <1>0, <2>2, <3>3, <3>4
    <3>6. \A a \in Assets : asset[a].file # k
      BY <1>a, <2>2, <2>5, NoneAssumption DEF Finalized
    <3>7. apart => k \in stored'
      BY <1>a, <2>1 DEF Single, Inspecting
    <3> HIDE DEF k
    <3>8. work[c].on = k
      BY DEF k
    <3> QED BY <1>0, <1>f, <2>1, <2>2, <2>5, <3>5, <3>6, <3>7, <3>8
  <2> QED BY <1>17, <2>4, <2>5 DEF Media!Register, Media!None
<1>18. ASSUME NEW c \in Handlers, Media!Save(c) PROVE MediaInv'
  <2> DEFINE k == work[c].on
  <2>1. /\ work[c].step = "vetted" /\ Media!End(c) /\ stored' = stored \cup {k} /\ Media!Insert(k)
        /\ UNCHANGED <<pending, reaping, orphans, apart>>
    BY <1>18 DEF Media!Save, Media!At
  <2>2. k \in Objects /\ \A a \in Assets : asset[a].file # k
    BY <1>a, <2>1 DEF Located, Vetted
  <2>3. stored' \subseteq Objects /\ stored \subseteq stored' /\ k \in stored'
    BY <1>0, <2>1, <2>2
  <2>4. work[c].on = k
    OBVIOUS
  <2> HIDE DEF k
  <2> QED BY <1>f, <2>1, <2>2, <2>3, <2>4
<1>19. CASE UNCHANGED Media!vars
  BY <1>0, <1>a, <1>19 DEF Media!vars, MediaInv, Media!TypeOK, Media!None, Tickets, Stocks, Jobs,
     Media!OneAssetPerObject, Media!Live, Located, Finalized, Single, Filed, Inspecting, Vetted
<1> QED BY <1>1, <1>2, <1>3, <1>4, <1>5, <1>6, <1>7, <1>8, <1>9, <1>10, <1>12, <1>13, <1>14, <1>15, <1>16,
           <1>17, <1>18, <1>19 DEF Media!Next

-----------------------------------------------------------------------------
(* The agents' uploads.                                                    *)

Handled(r) == at[r] \in {"claimed", "placed", "stored", "queued"}
\* A request holds its key while it is handled, and from its asset to the sweep.
Holder(r) == Handled(r) \/ (r \in kept /\ (r \in since <=> swept))
\* How far a request is, and what it left.
Uploading(r) ==
  /\ at[r] = "taken" => Files!Keyed(r)
  /\ at[r] \in {"idle", "taken", "claimed", "placed"} => r \notin kept
  /\ at[r] \in {"stored", "queued"} => r \in kept /\ (r \in since <=> swept)
  /\ at[r] = "queued" => r \in queued
  /\ Handled(r) /\ Files!Keyed(r) => claim[Files!Key(r)].print = upload[r].folder
Holding(r) ==
  Holder(r) /\ Files!Keyed(r) =>
    /\ claim[Files!Key(r)].answer # "none"
    /\ \A s \in Requests : Holder(s) /\ Files!Key(s) = Files!Key(r) => s = r
\* The answer a key keeps is that of a processed upload.
Answered(k) ==
  /\ claim[k].answer = "none" => claim[k] = Files!NoClaim
  /\ claim[k].answer \in Requests =>
       /\ claim[k].answer \in queued
       /\ upload[claim[k].answer].key = k /\ upload[claim[k].answer].folder = claim[k].print

FilesInv ==
  /\ Files!TypeOK
  /\ ~swept => since = {}
  /\ \A r \in Requests : Uploading(r) /\ Holding(r)
  /\ \A k \in Keys : Answered(k)
  /\ Files!StoredOnce
  /\ Files!ToldIsProcessed

Shards == [print : BOOLEAN, answer : {"none", "pending"} \cup Requests]
Sayings == [code : {"none", "created", "replayed", "invalid", "busy", "lost", "error"},
            asset : Requests \cup {"none"}]

LEMMA FilesTypes ==
  Files!TypeOK <=> /\ upload \in [Requests -> Files!Uploads] /\ at \in [Requests -> Files!Places]
                   /\ said \in [Requests -> Sayings] /\ claim \in [Keys -> Shards]
                   /\ folder \in BOOLEAN /\ swept \in BOOLEAN
                   /\ queued \subseteq kept /\ kept \subseteq Requests /\ since \subseteq kept
BY DEF Files!TypeOK, Sayings, Shards

LEMMA FilesNothing ==
  /\ Files!NoReply \in Sayings /\ Files!NoReply.asset = "none"
  /\ Files!NoClaim \in Shards /\ Files!NoClaim.answer = "none"
BY DEF Files!NoReply, Files!NoClaim, Sayings, Shards

LEMMA FilesInit == Files!Init => FilesInv
<1> SUFFICES ASSUME Files!Init PROVE FilesInv
  OBVIOUS
<1>1. /\ upload \in [Requests -> Files!Uploads] /\ at = [r \in Requests |-> "idle"]
      /\ said = [r \in Requests |-> Files!NoReply] /\ claim = [k \in Keys |-> Files!NoClaim]
      /\ folder = TRUE /\ swept = FALSE /\ kept = {} /\ queued = {} /\ since = {}
  BY DEF Files!Init
<1>2. Files!TypeOK
  <2>1. at \in [Requests -> Files!Places]
    BY <1>1 DEF Files!Places
  <2> QED BY <1>1, <2>1, FilesNothing, FilesTypes
<1>3. \A r \in Requests : Uploading(r) /\ Holding(r)
  BY <1>1 DEF Uploading, Holding, Holder, Handled
<1>4. \A k \in Keys : Answered(k)
  BY <1>1, FilesNothing, NoneAssumption DEF Answered
<1>5. Files!StoredOnce /\ Files!ToldIsProcessed
  BY <1>1, FilesNothing DEF Files!StoredOnce, Files!ToldIsProcessed
<1> QED BY <1>1, <1>2, <1>3, <1>4, <1>5 DEF FilesInv

\* An answer says what it names, and ends the request.
LEMMA FilesAnswer ==
  ASSUME Files!TypeOK, NEW r \in Requests, NEW a \in Requests \cup {"none"},
         NEW code \in {"created", "replayed", "invalid", "busy", "lost", "error"}, Files!Answer(r, code, a)
  PROVE  /\ at' = [at EXCEPT ![r] = "done"]
         /\ said' \in [Requests -> Sayings] /\ said'[r].asset = a
         /\ \A q \in Requests : q # r => said'[q] = said[q]
<1> DEFINE here == [code |-> code, asset |-> a]
<1>1. here \in Sayings /\ here.asset = a
  BY DEF Sayings
<1>2. at' = [at EXCEPT ![r] = "done"] /\ said' = [said EXCEPT ![r] = here] /\ said \in [Requests -> Sayings]
  BY FilesTypes DEF Files!Answer
<1> HIDE DEF here
<1> QED BY <1>1, <1>2

LEMMA FilesNext == FilesInv /\ [Files!Next]_Files!vars => FilesInv'
<1> SUFFICES ASSUME FilesInv, [Files!Next]_Files!vars PROVE FilesInv'
  OBVIOUS
<1>0. /\ upload \in [Requests -> Files!Uploads] /\ at \in [Requests -> Files!Places]
      /\ said \in [Requests -> Sayings] /\ claim \in [Keys -> Shards]
      /\ folder \in BOOLEAN /\ swept \in BOOLEAN
      /\ queued \subseteq kept /\ kept \subseteq Requests /\ since \subseteq kept
      /\ Files!TypeOK
  BY FilesTypes DEF FilesInv
<1>a. /\ ~swept => since = {}
      /\ \A r \in Requests : Uploading(r) /\ Holding(r)
      /\ \A k \in Keys : Answered(k)
      /\ Files!StoredOnce /\ Files!ToldIsProcessed
  BY DEF FilesInv
<1>b. \A r \in Requests : Files!Key(r) \in Keys \cup {"nokey"} /\ (Files!Keyed(r) <=> Files!Key(r) \in Keys)
  BY <1>0, NoneAssumption DEF Files!Uploads, Files!Key, Files!Keyed, Files!NoKey
\* A request goes on; what is claimed, stored and answered stands.
<1>c. ASSUME NEW r \in Requests, NEW p \in Files!Places, at' = [at EXCEPT ![r] = p],
             said' \in [Requests -> Sayings], \A q \in Requests : q # r => said'[q] = said[q],
             said'[r].asset # "none" => /\ said'[r].asset \in queued
                                        /\ upload[said'[r].asset].key = Files!Key(r)
                                        /\ upload[said'[r].asset].folder = upload[r].folder,
             p = "placed" => at[r] = "claimed",
             p \notin {"idle", "stored", "queued", "claimed"},
             p = "taken" => at[r] = "idle" /\ Files!Keyed(r),
             folder' \in BOOLEAN, UNCHANGED <<upload, claim, kept, queued, since, swept>>
      PROVE  FilesInv'
  <2>1. at' \in [Requests -> Files!Places] /\ at'[r] = p /\ \A q \in Requests : q # r => at'[q] = at[q]
    BY <1>0, <1>c
  <2>2. Files!TypeOK'
    BY <1>0, <1>c, <2>1 DEF Files!TypeOK, Sayings, Shards
  <2>3. \A q \in Requests : Holder(q)' => Holder(q)
    BY <1>c, <2>1 DEF Holder, Handled
  <2>4. ASSUME NEW q \in Requests PROVE Uploading(q)' /\ Holding(q)'
    <3>1. Uploading(q)'
      BY <1>a, <1>c, <2>1 DEF Uploading, Handled, Files!Key, Files!Keyed
    <3>2. Holding(q)'
      BY <1>a, <1>c, <2>3 DEF Holding, Files!Key, Files!Keyed
    <3> QED BY <3>1, <3>2
  <2>5. \A k \in Keys : Answered(k)'
    BY <1>a, <1>c DEF Answered
  <2>6. Files!StoredOnce'
    BY <1>a, <1>c DEF Files!StoredOnce, Files!Key, Files!Keyed
  <2>7. Files!ToldIsProcessed'
    BY <1>a, <1>c DEF Files!ToldIsProcessed, Files!Key
  <2> QED BY <1>a, <1>c, <2>2, <2>4, <2>5, <2>6, <2>7 DEF FilesInv
<1>1. ASSUME NEW r \in Requests, Files!Claim(r) PROVE FilesInv'
  <2>1. at[r] = "idle" /\ said' = said /\ UNCHANGED <<upload, kept, queued, since, folder, swept>>
    BY <1>1 DEF Files!Claim, Files!Go, Files!asset, Files!day
  <2>2. CASE Files!Keyed(r) /\ claim[Files!Key(r)] # Files!NoClaim
    <3>1. at' = [at EXCEPT ![r] = "taken"] /\ claim' = claim
      BY <1>1, <2>2 DEF Files!Claim, Files!Go
    <3>2. "taken" \in Files!Places
      BY DEF Files!Places
    <3>3. said'[r].asset # "none" => /\ said'[r].asset \in queued
                                     /\ upload[said'[r].asset].key = Files!Key(r)
                                     /\ upload[said'[r].asset].folder = upload[r].folder
      BY <1>a, <2>1 DEF Files!ToldIsProcessed, Files!Key
    <3> QED BY <1>0, <1>c, <2>1, <2>2, <3>1, <3>2, <3>3
  <2>3. CASE ~(Files!Keyed(r) /\ claim[Files!Key(r)] # Files!NoClaim)
    <3> DEFINE k == Files!Key(r)
               entry == [print |-> upload[r].folder, answer |-> "pending"]
    <3>1. /\ at' = [at EXCEPT ![r] = "claimed"]
          /\ claim' = IF Files!Keyed(r) THEN [claim EXCEPT ![k] = entry] ELSE claim
      BY <1>1, <2>3 DEF Files!Claim, Files!Go
    <3>2. entry \in Shards /\ entry.answer = "pending" /\ entry.print = upload[r].folder
      BY <1>0 DEF Shards, Files!Uploads
    <3> HIDE DEF entry
    <3>3. /\ at' \in [Requests -> Files!Places] /\ at'[r] = "claimed"
          /\ \A q \in Requests : q # r => at'[q] = at[q]
      BY <1>0, <3>1 DEF Files!Places
    <3>4. /\ claim' \in [Keys -> Shards]
          /\ Files!Keyed(r) => claim'[k] = entry
          /\ \A j \in Keys : ~(Files!Keyed(r) /\ j = k) => claim'[j] = claim[j]
      BY <1>0, <1>b, <3>1, <3>2
    <3>5. Files!TypeOK'
      BY <1>0, <2>1, <3>3, <3>4 DEF Files!TypeOK, Sayings, Shards
    <3>6. Files!Keyed(r) => \A q \in Requests : Holder(q) => Files!Key(q) # k
      BY <1>a, <2>3, FilesNothing DEF Holding, Files!Key, Files!Keyed
    <3>7. \A q \in Requests : q # r => (Holder(q)' <=> Holder(q))
      BY <2>1, <3>3 DEF Holder, Handled
    <3>8. ASSUME NEW q \in Requests PROVE Uploading(q)'
      <4>1. CASE q = r
        BY <1>a, <2>1, <3>2, <3>3, <3>4, <4>1 DEF Uploading, Handled, Files!Key, Files!Keyed
      <4>2. CASE q # r
        <5>1. Handled(q)' /\ Files!Keyed(q) => claim'[Files!Key(q)] = claim[Files!Key(q)]
          BY <1>b, <3>3, <3>4, <3>6, <4>2 DEF Handled, Holder
        <5> QED BY <1>a, <2>1, <3>3, <4>2, <5>1 DEF Uploading, Handled, Files!Key, Files!Keyed
      <4> QED BY <4>1, <4>2
    <3>9. ASSUME NEW q \in Requests PROVE Holding(q)'
      <4> SUFFICES ASSUME Holder(q)', Files!Keyed(q) PROVE Holding(q)'
        BY <2>1 DEF Holding, Files!Keyed, Files!Key
      <4>1. CASE q = r
        <5>1. claim'[k].answer # "none"
          BY <3>2, <3>4, <4>1
        <5>2. \A s \in Requests : Holder(s)' /\ Files!Key(s) = k => s = r
          BY <3>6, <3>7, <4>1
        <5> QED BY <2>1, <4>1, <5>1, <5>2 DEF Holding, Files!Key
      <4>2. CASE q # r
        <5>1. Holder(q) /\ Holding(q)
          BY <1>a, <3>7, <4>2
        <5>2. Files!Keyed(r) => Files!Key(q) # k
          BY <3>6, <5>1
        <5>3. claim'[Files!Key(q)] = claim[Files!Key(q)]
          BY <1>b, <3>4, <5>2
        <5>4. \A s \in Requests : Holder(s)' /\ Files!Key(s) = Files!Key(q) => s # r /\ Holder(s)
          BY <3>7, <5>2 DEF Files!Keyed
        <5> QED BY <2>1, <5>1, <5>3, <5>4 DEF Holding, Files!Key, Files!Keyed
      <4> QED BY <4>1, <4>2
    <3>10. ASSUME NEW j \in Keys PROVE Answered(j)'
      BY <1>a, <2>1, <3>2, <3>4, NoneAssumption DEF Answered
    <3>11. Files!StoredOnce' /\ Files!ToldIsProcessed'
      BY <1>a, <2>1 DEF Files!StoredOnce, Files!ToldIsProcessed, Files!Key, Files!Keyed
    <3> QED BY <1>a, <2>1, <3>5, <3>8, <3>9, <3>10, <3>11 DEF FilesInv
  <2> QED BY <2>2, <2>3
<1>2. ASSUME NEW r \in Requests, Files!LookUp(r) PROVE FilesInv'
  <2> DEFINE entry == claim[Files!Key(r)]
  <2>1. /\ at[r] = "taken" /\ UNCHANGED <<upload, claim, kept, queued, since, folder, swept>>
        /\ \E code \in {"error", "invalid", "busy"} : Files!Answer(r, code, "none")
           \/ (entry.answer \in Requests /\ entry.print = upload[r].folder /\ Files!Answer(r, "replayed", entry.answer))
    BY <1>2 DEF Files!LookUp, Files!asset, Files!day
  <2>2. Files!Key(r) \in Keys
    BY <1>a, <1>b, <2>1 DEF Uploading
  <2>3. CASE \E code \in {"error", "invalid", "busy"} : Files!Answer(r, code, "none")
    <3>1. /\ at' = [at EXCEPT ![r] = "done"]
          /\ said' \in [Requests -> Sayings] /\ said'[r].asset = "none"
          /\ \A q \in Requests : q # r => said'[q] = said[q]
      BY <1>0, <2>3, FilesAnswer
    <3>2. "done" \in Files!Places
      BY DEF Files!Places
    <3> QED BY <1>0, <1>c, <2>1, <3>1, <3>2
  <2>4. CASE entry.answer \in Requests /\ entry.print = upload[r].folder /\ Files!Answer(r, "replayed", entry.answer)
    <3>1. /\ at' = [at EXCEPT ![r] = "done"]
          /\ said' \in [Requests -> Sayings] /\ said'[r].asset = entry.answer
          /\ \A q \in Requests : q # r => said'[q] = said[q]
      BY <1>0, <2>4, FilesAnswer
    <3>2. "done" \in Files!Places
      BY DEF Files!Places
    <3>3. entry.answer \in queued /\ upload[entry.answer].key = Files!Key(r) /\ upload[entry.answer].folder = upload[r].folder
      BY <1>a, <2>2, <2>4 DEF Answered
    <3> QED BY <1>0, <1>c, <2>1, <3>1, <3>2, <3>3
  <2> QED BY <2>1, <2>3, <2>4
<1>3. ASSUME NEW r \in Requests, Files!FindFolder(r) PROVE FilesInv'
  <2>1. /\ at[r] = "claimed" /\ UNCHANGED <<upload, claim, kept, queued, since, folder, swept>>
        /\ Files!Answer(r, "lost", "none") \/ Files!Go(r, "placed")
    BY <1>3 DEF Files!FindFolder, Files!asset, Files!day
  <2>2. {"done", "placed"} \subseteq Files!Places
    BY DEF Files!Places
  <2>3. CASE Files!Answer(r, "lost", "none")
    <3>1. /\ at' = [at EXCEPT ![r] = "done"]
          /\ said' \in [Requests -> Sayings] /\ said'[r].asset = "none"
          /\ \A q \in Requests : q # r => said'[q] = said[q]
      BY <1>0, <2>3, FilesAnswer
    <3> QED BY <1>0, <1>c, <2>1, <2>2, <3>1
  <2>4. CASE Files!Go(r, "placed")
    <3>1. at' = [at EXCEPT ![r] = "placed"] /\ said' = said
      BY <2>4 DEF Files!Go
    <3>2. said'[r].asset # "none" => /\ said'[r].asset \in queued
                                     /\ upload[said'[r].asset].key = Files!Key(r)
                                     /\ upload[said'[r].asset].folder = upload[r].folder
      BY <1>a, <3>1 DEF Files!ToldIsProcessed, Files!Key
    <3> QED BY <1>0, <1>c, <2>1, <2>2, <3>1, <3>2
  <2> QED BY <2>1, <2>3, <2>4
<1>4. ASSUME NEW r \in Requests, Files!FailLate(r) PROVE FilesInv'
  <2>1. /\ at[r] \in {"stored", "queued"} /\ UNCHANGED <<upload, claim, kept, queued, since, folder, swept>>
        /\ Files!Answer(r, "error", "none")
    BY <1>4 DEF Files!FailLate, Files!asset, Files!day
  <2>2. /\ at' = [at EXCEPT ![r] = "done"]
        /\ said' \in [Requests -> Sayings] /\ said'[r].asset = "none"
        /\ \A q \in Requests : q # r => said'[q] = said[q]
    BY <1>0, <2>1, FilesAnswer
  <2>3. "done" \in Files!Places
    BY DEF Files!Places
  <2> QED BY <1>0, <1>c, <2>1, <2>2, <2>3
<1>5. ASSUME NEW r \in Requests, Files!Kill(r) PROVE FilesInv'
  <2>1. at' = [at EXCEPT ![r] = "killed"] /\ UNCHANGED <<upload, said, claim, kept, queued, since, folder, swept>>
    BY <1>5 DEF Files!Kill, Files!asset, Files!day
  <2>2. "killed" \in Files!Places
    BY DEF Files!Places
  <2>3. said'[r].asset # "none" => /\ said'[r].asset \in queued
                                   /\ upload[said'[r].asset].key = Files!Key(r)
                                   /\ upload[said'[r].asset].folder = upload[r].folder
    BY <1>a, <2>1 DEF Files!ToldIsProcessed, Files!Key
  <2> QED BY <1>0, <1>c, <2>1, <2>2, <2>3
<1>6. ASSUME NEW r \in Requests, Files!Store(r) PROVE FilesInv'
  <2>1. /\ at[r] = "placed" /\ at' = [at EXCEPT ![r] = "stored"] /\ said' = said
        /\ kept' = kept \cup {r} /\ since' = (IF swept THEN since \cup {r} ELSE since)
        /\ UNCHANGED <<upload, claim, queued, folder, swept>>
    BY <1>6 DEF Files!Store, Files!Go, Files!day
  <2>2. /\ at' \in [Requests -> Files!Places] /\ at'[r] = "stored"
        /\ \A q \in Requests : q # r => at'[q] = at[q]
    BY <1>0, <2>1 DEF Files!Places
  <2>3. Files!TypeOK'
    BY <1>0, <2>1, <2>2 DEF Files!TypeOK, Sayings, Shards
  <2>4. r \notin kept /\ Holder(r) /\ r \notin since /\ (swept' => r \in since') /\ (~swept' => since' = {})
    BY <1>0, <1>a, <2>1 DEF Uploading, Holder, Handled
  <2>5. \A q \in Requests : /\ q # r => (q \in kept' <=> q \in kept) /\ (q \in since' <=> q \in since)
                            /\ Holder(q)' <=> Holder(q)
    BY <2>1, <2>2, <2>4 DEF Holder, Handled
  <2>6. ASSUME NEW q \in Requests PROVE Uploading(q)'
    BY <1>a, <2>1, <2>2, <2>4, <2>5 DEF Uploading, Handled, Files!Key, Files!Keyed
  <2>7. ASSUME NEW q \in Requests PROVE Holding(q)'
    BY <1>a, <2>1, <2>5 DEF Holding, Files!Key, Files!Keyed
  <2>8. \A k \in Keys : Answered(k)'
    BY <1>a, <2>1 DEF Answered
  <2>9. ASSUME NEW s \in kept, Files!Keyed(r), Files!Key(s) = Files!Key(r) PROVE swept /\ s \notin since'
    <3>1. s \in Requests /\ s # r
      BY <1>0, <2>4
    <3>2. ~Holder(s)
      BY <1>a, <2>4, <2>9, <3>1 DEF Holding
    <3>3. ~(s \in since <=> swept)
      BY <2>9, <3>2 DEF Holder
    <3> QED BY <1>a, <2>5, <3>1, <3>3
  <2>10. ASSUME NEW s \in kept', NEW q \in kept', s # q, Files!Keyed(s), Files!Key(s) = Files!Key(q)
         PROVE  (s \in since') # (q \in since')
    <3>1. s \in Requests /\ q \in Requests /\ Files!Keyed(q)
      BY <1>0, <2>1, <2>10 DEF Files!Keyed
    <3>2. CASE s = r
      BY <2>1, <2>4, <2>9, <2>10, <3>1, <3>2
    <3>3. CASE q = r
      BY <2>1, <2>4, <2>9, <2>10, <3>1, <3>3
    <3>4. CASE s # r /\ q # r
      BY <1>a, <2>1, <2>5, <2>10, <3>1, <3>4 DEF Files!StoredOnce
    <3> QED BY <3>2, <3>3, <3>4
  <2>11. Files!StoredOnce'
    BY <2>1, <2>10 DEF Files!StoredOnce, Files!Key, Files!Keyed
  <2>12. Files!ToldIsProcessed'
    BY <1>a, <2>1 DEF Files!ToldIsProcessed, Files!Key
  <2> QED BY <2>3, <2>4, <2>6, <2>7, <2>8, <2>11, <2>12 DEF FilesInv
<1>7. ASSUME NEW r \in Requests, Files!Enqueue(r) PROVE FilesInv'
  <2>1. /\ at[r] = "stored" /\ at' = [at EXCEPT ![r] = "queued"] /\ said' = said
        /\ queued' = queued \cup {r} /\ UNCHANGED <<upload, claim, kept, since, folder, swept>>
    BY <1>7 DEF Files!Enqueue, Files!Go, Files!day
  <2>2. /\ at' \in [Requests -> Files!Places] /\ at'[r] = "queued"
        /\ \A q \in Requests : q # r => at'[q] = at[q]
    BY <1>0, <2>1 DEF Files!Places
  <2>3. r \in kept
    BY <1>a, <2>1 DEF Uploading
  <2>4. Files!TypeOK'
    BY <1>0, <2>1, <2>2, <2>3 DEF Files!TypeOK, Sayings, Shards
  <2>5. \A q \in Requests : Holder(q)' <=> Holder(q)
    BY <2>1, <2>2 DEF Holder, Handled
  <2>6. ASSUME NEW q \in Requests PROVE Uploading(q)'
    BY <1>a, <2>1, <2>2 DEF Uploading, Handled, Files!Key, Files!Keyed
  <2>7. ASSUME NEW q \in Requests PROVE Holding(q)'
    BY <1>a, <2>1, <2>5 DEF Holding, Files!Key, Files!Keyed
  <2>8. \A k \in Keys : Answered(k)'
    BY <1>a, <2>1 DEF Answered
  <2>9. Files!StoredOnce' /\ Files!ToldIsProcessed'
    BY <1>a, <2>1 DEF Files!StoredOnce, Files!ToldIsProcessed, Files!Key, Files!Keyed
  <2> QED BY <1>a, <2>1, <2>4, <2>6, <2>7, <2>8, <2>9 DEF FilesInv
\* A handled request ends, and writes the entry of its own key.
<1>d. ASSUME NEW r \in Requests, Handled(r), at' = [at EXCEPT ![r] = "done"],
             said' \in [Requests -> Sayings], \A q \in Requests : q # r => said'[q] = said[q],
             said'[r].asset \in {"none", r}, said'[r].asset = r => r \in queued,
             claim' \in [Keys -> Shards], \A k \in Keys : k # Files!Key(r) => claim'[k] = claim[k],
             \A k \in Keys : k = Files!Key(r) => Answered(k)' /\ (r \in kept => claim'[k].answer # "none"),
             UNCHANGED <<upload, kept, queued, since, folder, swept>>
      PROVE  FilesInv'
  <2>1. at' \in [Requests -> Files!Places] /\ at'[r] = "done" /\ \A q \in Requests : q # r => at'[q] = at[q]
    BY <1>0, <1>d DEF Files!Places
  <2>2. Files!TypeOK'
    BY <1>0, <1>d, <2>1 DEF Files!TypeOK, Sayings, Shards
  <2>3. \A q \in Requests : Holder(q)' => Holder(q) /\ (q = r => r \in kept)
    BY <1>d, <2>1 DEF Holder, Handled
  <2>4. ASSUME NEW q \in Requests, q # r, Holder(q), Files!Keyed(q) PROVE Files!Key(q) # Files!Key(r)
    BY <1>a, <1>d, <2>4 DEF Holding, Holder
  <2>5. ASSUME NEW q \in Requests PROVE Uploading(q)'
    <3>1. CASE q = r
      BY <2>1, <3>1 DEF Uploading, Handled
    <3>2. CASE q # r
      <4>1. Handled(q) /\ Files!Keyed(q) => claim'[Files!Key(q)] = claim[Files!Key(q)]
        BY <1>b, <1>d, <2>4, <3>2 DEF Holder
      <4> QED BY <1>a, <1>d, <2>1, <3>2, <4>1 DEF Uploading, Handled, Files!Key, Files!Keyed
    <3> QED BY <3>1, <3>2
  <2>6. ASSUME NEW q \in Requests PROVE Holding(q)'
    <3> SUFFICES ASSUME Holder(q)', Files!Keyed(q) PROVE Holding(q)'
      BY <1>d DEF Holding, Files!Keyed, Files!Key
    <3>1. Holder(q) /\ Holding(q) /\ (q = r => r \in kept)
      BY <1>a, <2>3
    <3>2. claim'[Files!Key(q)].answer # "none"
      <4>1. CASE q = r
        BY <1>b, <1>d, <3>1, <4>1
      <4>2. CASE q # r
        <5>1. claim'[Files!Key(q)] = claim[Files!Key(q)]
          BY <1>b, <1>d, <2>4, <3>1, <4>2
        <5> QED BY <3>1, <5>1 DEF Holding
      <4> QED BY <4>1, <4>2
    <3> QED BY <1>d, <2>3, <3>1, <3>2 DEF Holding, Files!Key, Files!Keyed
  <2>7. ASSUME NEW k \in Keys PROVE Answered(k)'
    <3>1. CASE k = Files!Key(r)
      BY <1>b, <1>d, <3>1
    <3>2. CASE k # Files!Key(r)
      BY <1>a, <1>d, <3>2 DEF Answered
    <3> QED BY <3>1, <3>2
  <2>8. Files!StoredOnce'
    BY <1>a, <1>d DEF Files!StoredOnce, Files!Key, Files!Keyed
  <2>9. Files!ToldIsProcessed'
    BY <1>a, <1>d DEF Files!ToldIsProcessed, Files!Key
  <2> QED BY <1>a, <1>d, <2>2, <2>5, <2>6, <2>7, <2>8, <2>9 DEF FilesInv
<1>8. ASSUME NEW r \in Requests, Files!StoreRefused(r) PROVE FilesInv'
  <2> DEFINE k == Files!Key(r)
  <2>1. /\ at[r] = "placed" /\ Files!Answer(r, "invalid", "none")
        /\ claim' = (IF Files!Keyed(r) /\ claim[k].answer = "pending" THEN [claim EXCEPT ![k] = Files!NoClaim]
                     ELSE claim)
        /\ UNCHANGED <<upload, kept, queued, since, folder, swept>>
    BY <1>8 DEF Files!StoreRefused, Files!Released, Files!asset, Files!day
  <2>2. /\ at' = [at EXCEPT ![r] = "done"]
        /\ said' \in [Requests -> Sayings] /\ said'[r].asset = "none"
        /\ \A q \in Requests : q # r => said'[q] = said[q]
    BY <1>0, <2>1, FilesAnswer
  <2>3. /\ claim' \in [Keys -> Shards] /\ \A j \in Keys : j # k => claim'[j] = claim[j]
        /\ Files!Keyed(r) => claim'[k] \in {claim[k], Files!NoClaim}
    BY <1>0, <1>b, <2>1, FilesNothing
  <2>4. r \notin kept /\ Handled(r)
    BY <1>a, <2>1 DEF Uploading, Handled
  <2>5. ASSUME NEW j \in Keys, j = k PROVE Answered(j)'
    <3>1. claim'[j] = claim[j] \/ claim'[j] = Files!NoClaim
      BY <1>b, <2>3, <2>5
    <3> QED BY <1>a, <2>1, <3>1, FilesNothing, NoneAssumption DEF Answered
  <2> HIDE DEF k
  <2>6. k = Files!Key(r)
    BY DEF k
  <2> QED BY <1>d, <2>1, <2>2, <2>3, <2>4, <2>5, <2>6, NoneAssumption
<1>9. ASSUME NEW r \in Requests, Files!Finalize(r) PROVE FilesInv'
  <2> DEFINE k == Files!Key(r)
             entry == [claim[k] EXCEPT !.answer = r]
  <2>1. /\ at[r] = "queued" /\ Files!Answer(r, "created", r)
        /\ claim' = (IF Files!Keyed(r) /\ claim[k] # Files!NoClaim THEN [claim EXCEPT ![k] = entry] ELSE claim)
        /\ UNCHANGED <<upload, kept, queued, since, folder, swept>>
    BY <1>9 DEF Files!Finalize, Files!asset, Files!day
  <2>2. /\ at' = [at EXCEPT ![r] = "done"]
        /\ said' \in [Requests -> Sayings] /\ said'[r].asset = r
        /\ \A q \in Requests : q # r => said'[q] = said[q]
    BY <1>0, <2>1, FilesAnswer
  <2>3. Files!Keyed(r) => entry \in Shards /\ entry.answer = r /\ entry.print = claim[k].print
    BY <1>0, <1>b DEF Shards
  <2> HIDE DEF entry
  <2>4. r \in queued /\ Handled(r)
    BY <1>a, <2>1 DEF Uploading, Handled
  <2>5. Files!Keyed(r) => claim[k] # Files!NoClaim /\ claim[k].print = upload[r].folder
    BY <1>a, <2>4, FilesNothing DEF Holding, Holder, Uploading
  <2>6. /\ claim' \in [Keys -> Shards] /\ \A j \in Keys : j # k => claim'[j] = claim[j]
        /\ Files!Keyed(r) => claim'[k] = entry
    BY <1>0, <1>b, <2>1, <2>3, <2>5
  <2>7. ASSUME NEW j \in Keys, j = k PROVE Answered(j)' /\ claim'[j].answer # "none"
    BY <1>b, <2>1, <2>3, <2>4, <2>5, <2>6, <2>7, NoneAssumption DEF Answered, Files!Key
  <2> HIDE DEF k
  <2>8. k = Files!Key(r)
    BY DEF k
  <2> QED BY <1>d, <2>1, <2>2, <2>4, <2>6, <2>7, <2>8
<1>10. CASE Files!DeleteFolder
  <2>1. folder' = FALSE /\ UNCHANGED <<upload, at, said, claim, kept, queued, since, swept>>
    BY <1>10 DEF Files!DeleteFolder, Files!asset
  <2>2. Files!TypeOK'
    BY <1>0, <2>1 DEF Files!TypeOK, Sayings, Shards
  <2> QED BY <1>a, <2>1, <2>2 DEF FilesInv, Uploading, Holding, Holder, Handled, Answered, Files!Key, Files!Keyed,
          Files!StoredOnce, Files!ToldIsProcessed
<1>11. CASE Files!Sweep
  <2>1. /\ ~swept /\ swept' = TRUE /\ claim' = [k \in Keys |-> Files!NoClaim]
        /\ \A r \in Requests : at[r] \in {"idle", "done", "killed"}
        /\ UNCHANGED <<upload, at, said, folder, kept, queued, since>>
    BY <1>11 DEF Files!Sweep, Files!InFlight, Files!asset
  <2>2. since = {} /\ \A r \in Requests : ~Holder(r)'
    BY <1>a, <2>1 DEF Holder, Handled
  <2>3. Files!TypeOK'
    BY <1>0, <2>1, FilesNothing DEF Files!TypeOK, Sayings, Shards
  <2>4. \A r \in Requests : Uploading(r)' /\ Holding(r)'
    BY <1>a, <2>1, <2>2 DEF Uploading, Handled, Holding
  <2>5. \A k \in Keys : Answered(k)'
    BY <2>1, FilesNothing, NoneAssumption DEF Answered
  <2>6. Files!StoredOnce' /\ Files!ToldIsProcessed'
    BY <1>a, <2>1 DEF Files!StoredOnce, Files!ToldIsProcessed, Files!Key, Files!Keyed
  <2> QED BY <2>1, <2>3, <2>4, <2>5, <2>6 DEF FilesInv
<1>12. CASE UNCHANGED Files!vars
  BY <1>0, <1>a, <1>12 DEF Files!vars, FilesInv, Files!TypeOK, Sayings, Shards, Uploading, Holding, Holder, Handled,
     Answered, Files!Key, Files!Keyed, Files!StoredOnce, Files!ToldIsProcessed
<1> QED BY <1>1, <1>2, <1>3, <1>4, <1>5, <1>6, <1>7, <1>8, <1>9, <1>10, <1>11, <1>12
        DEF Files!Next, Files!UploadMedia

-----------------------------------------------------------------------------
(* The agents' API: who holds a key.                                       *)

ApiTyped ==
  /\ call \in [Callers -> Api!Calls] /\ place \in [Callers -> Api!Places]
  /\ reply \in [Callers -> [code : Api!Codes, post : Callers \cup {"none"}]]
  /\ record \in [Keys -> Api!Rows] /\ status \in [Callers -> Api!PostStatus]
  /\ recent \subseteq Callers /\ granted \subseteq recent
  /\ epoch \in [Keys -> 0..1] /\ born \in [Callers -> 0..1]
Entered(r) == place[r] \in {"claimed", "cleared", "committed"}
\* A request keeps its key while it is at work, and with its post until the
\* key is swept, unless it ended with an error.
Keeps(r) ==
  Entered(r) \/ (status[r] # "none" /\ born[r] = epoch[Api!Key(r)] /\ reply[r].code # "error")
Requesting(r) ==
  /\ place[r] = "taken" => Api!Keyed(r)
  /\ place[r] \in {"idle", "taken", "claimed", "cleared"} => status[r] = "none"
  /\ place[r] # "done" => reply[r].code = "none"
  /\ place[r] = "cleared" /\ call[r] = Api!ScheduleDraft =>
       reply[r].post \in Callers /\ status[reply[r].post] # "none"
  /\ reply[r].code = "replayed" => reply[r].post \in Callers
  /\ Api!Keyed(r) /\ status[r] # "none" => born[r] <= epoch[Api!Key(r)]
  /\ Api!Keyed(r) /\ Entered(r) =>
       /\ record[Api!Key(r)].answer = "pending" /\ record[Api!Key(r)].print = call[r].body
       /\ ~record[Api!Key(r)].old
Keeping(r) ==
  Keeps(r) /\ Api!Keyed(r) =>
    /\ record[Api!Key(r)].answer # "none"
    /\ \A s \in Callers : Keeps(s) /\ Api!Key(s) = Api!Key(r) => s = r
\* The answer of a key is that of the request that created its post.
Recorded(k) ==
  /\ record[k].answer = "none" => record[k] = Api!NoRow
  /\ record[k].answer \in Callers =>
       LET p == record[k].answer IN
         Api!Key(p) = k /\ call[p].body = record[k].print /\ reply[p].code = "created"

ApiInv ==
  /\ ApiTyped
  /\ \A r \in Callers : Requesting(r) /\ Keeping(r)
  /\ \A k \in Keys : Recorded(k)
  /\ Api!OncePerKey
  /\ Api!ReplayIsTheOriginal

Verdicts == [code : Api!Codes, post : Callers \cup {"none"}]

LEMMA ApiNothing ==
  /\ Api!NoReply \in Verdicts /\ Api!NoReply.code = "none"
  /\ Api!NoRow \in Api!Rows /\ Api!NoRow.answer = "none" /\ Api!NoRow.old = FALSE
  /\ {"idle", "taken", "claimed", "cleared", "committed", "done", "killed"} = Api!Places
  /\ {"none", "created", "replayed", "invalid", "busy", "quota", "error"} = Api!Codes
BY DEF Api!NoReply, Api!NoRow, Api!Rows, Api!Answers, Api!Places, Api!Codes, Verdicts, Api!Bodies

LEMMA ApiCalled ==
  ASSUME ApiTyped, NEW r \in Callers
  PROVE  /\ Api!Key(r) \in Keys \cup {"nokey"} /\ (Api!Keyed(r) <=> Api!Key(r) \in Keys)
         /\ Api!Keyed(r) => call[r].body \in Api!Bodies /\ call[r] # Api!ScheduleDraft
         /\ Api!Keyed(r) => call[r] = [key |-> call[r].key, body |-> call[r].body]
<1>1. call[r] \in Api!Creates \/ call[r] = Api!ScheduleDraft
  BY DEF ApiTyped, Api!Calls
<1>2. CASE call[r] \in Api!Creates
  <2>1. /\ call[r].key \in Keys \cup {"nokey"} /\ call[r].body \in Api!Bodies
        /\ call[r] = [key |-> call[r].key, body |-> call[r].body]
    BY <1>2 DEF Api!Creates, Api!NoKey
  <2>2. Api!Keyed(r) => call[r] # Api!ScheduleDraft
    BY DEF Api!Keyed, Api!Key, Api!NoKey, Api!ScheduleDraft
  <2> QED BY <2>1, <2>2, NoneAssumption DEF Api!Keyed, Api!Key, Api!NoKey
<1>3. CASE call[r] = Api!ScheduleDraft
  BY <1>3, NoneAssumption DEF Api!Keyed, Api!Key, Api!NoKey, Api!ScheduleDraft
<1> QED BY <1>1, <1>2, <1>3

LEMMA ApiInit == Api!Init => ApiInv
<1> SUFFICES ASSUME Api!Init PROVE ApiInv
  OBVIOUS
<1>1. /\ call \in [Callers -> Api!Calls] /\ place = [r \in Callers |-> "idle"]
      /\ reply = [r \in Callers |-> Api!NoReply] /\ record = [k \in Keys |-> Api!NoRow]
      /\ status = [r \in Callers |-> "none"] /\ recent = {} /\ granted = {}
      /\ epoch = [k \in Keys |-> 0] /\ born = [r \in Callers |-> 0]
  BY DEF Api!Init
<1>2. ApiTyped
  <2>1. status \in [Callers -> Api!PostStatus]
    BY <1>1 DEF Api!PostStatus
  <2>2. place \in [Callers -> Api!Places]
    BY <1>1, ApiNothing
  <2>3. reply \in [Callers -> Verdicts]
    BY <1>1, ApiNothing
  <2>4. record \in [Keys -> Api!Rows]
    BY <1>1, ApiNothing
  <2> QED BY <1>1, <2>1, <2>2, <2>3, <2>4 DEF ApiTyped, Verdicts
<1>3. ASSUME NEW r \in Callers PROVE Requesting(r) /\ Keeping(r)
  BY <1>1, ApiNothing DEF Requesting, Keeping, Keeps, Entered
<1>4. ASSUME NEW k \in Keys PROVE Recorded(k)
  BY <1>1, ApiNothing, NoneAssumption DEF Recorded
<1>5. Api!OncePerKey
  BY <1>1 DEF Api!OncePerKey
<1>6. Api!ReplayIsTheOriginal
  BY <1>1, ApiNothing DEF Api!ReplayIsTheOriginal
<1> QED BY <1>2, <1>3, <1>4, <1>5, <1>6 DEF ApiInv

\* An answer ends the request.
LEMMA ApiAnswer ==
  ASSUME ApiTyped, NEW r \in Callers, NEW p \in Callers \cup {"none"}, NEW code \in Api!Codes,
         Api!Answer(r, code, p)
  PROVE  /\ place' = [place EXCEPT ![r] = "done"]
         /\ reply' \in [Callers -> Verdicts] /\ reply'[r].code = code /\ reply'[r].post = p
         /\ \A q \in Callers : q # r => reply'[q] = reply[q]
<1> DEFINE here == [code |-> code, post |-> p]
<1>1. here \in Verdicts /\ here.code = code /\ here.post = p
  BY DEF Verdicts
<1>2. /\ place' = [place EXCEPT ![r] = "done"] /\ reply' = [reply EXCEPT ![r] = here]
      /\ reply \in [Callers -> Verdicts]
  BY DEF Api!Answer, Api!Go, ApiTyped, Verdicts
<1> HIDE DEF here
<1> QED BY <1>1, <1>2

\* A request that was not done goes on or ends, and writes at most the row of
\* its own key, when nobody else keeps it.
LEMMA ApiGoes ==
  ASSUME ApiInv, NEW r \in Callers, NEW p \in Api!Places, place[r] # "done", place' = [place EXCEPT ![r] = p],
         reply' \in [Callers -> Verdicts], \A q \in Callers : q # r => reply'[q] = reply[q],
         p # "done" => reply'[r].code = reply[r].code,
         p = "cleared" /\ call[r] = Api!ScheduleDraft =>
           reply'[r].post \in Callers /\ status[reply'[r].post] # "none",
         reply'[r].code = "replayed" =>
           call[reply'[r].post] = call[r] /\ reply'[r].post \in Callers /\ reply[reply'[r].post].code = "created",
         record' \in [Keys -> Api!Rows], \A k \in Keys : k # Api!Key(r) => record'[k] = record[k],
         \A k \in Keys : k = Api!Key(r) =>
           /\ \/ record'[k] = record[k] /\ (Keeps(r)' => Keeps(r))
              \/ \A s \in Callers : s # r /\ Keeps(s) => Api!Key(s) # Api!Key(r)
           /\ Recorded(k)'
           /\ Keeps(r)' => record'[k].answer # "none"
           /\ Entered(r)' => record'[k].answer = "pending" /\ record'[k].print = call[r].body /\ ~record'[k].old,
         p = "taken" => Api!Keyed(r),
         p \in {"idle", "taken", "claimed", "cleared"} => place[r] \in {"idle", "taken", "claimed", "cleared"},
         status' \in [Callers -> Api!PostStatus],
         \A q \in Callers : status'[q] = "none" <=> status[q] = "none",
         recent' \subseteq Callers, granted' \subseteq recent',
         UNCHANGED <<call, epoch, born>>
  PROVE  ApiInv'
<1>0. /\ ApiTyped
      /\ \A q \in Callers : Requesting(q) /\ Keeping(q)
      /\ \A k \in Keys : Recorded(k)
      /\ Api!OncePerKey /\ Api!ReplayIsTheOriginal
  BY DEF ApiInv
<1>1. place' \in [Callers -> Api!Places] /\ place'[r] = p /\ \A q \in Callers : q # r => place'[q] = place[q]
  BY <1>0 DEF ApiTyped
<1>2. ApiTyped'
  BY <1>0, <1>1 DEF ApiTyped, Verdicts
<1>3. reply[r].code = "none"
  BY <1>0 DEF Requesting
<1>4. \A q \in Callers : q # r => (Keeps(q)' <=> Keeps(q)) /\ (Entered(q)' <=> Entered(q))
  BY <1>1 DEF Keeps, Entered, Api!Key
<1>5. \A q \in Callers : Api!Keyed(q) <=> Api!Key(q) \in Keys
  BY <1>0, ApiCalled
<1>6. ASSUME NEW q \in Callers, q # r, Keeps(q), Api!Keyed(q) PROVE record'[Api!Key(q)] = record[Api!Key(q)]
  BY <1>5, <1>6
<1>7. ASSUME NEW q \in Callers PROVE Requesting(q)'
  <2>1. CASE q = r
    BY <1>0, <1>1, <1>5, <2>1 DEF Requesting, Api!Key, Api!Keyed
  <2>2. CASE q # r
    <3>1. Api!Keyed(q) /\ Entered(q) => record'[Api!Key(q)] = record[Api!Key(q)]
      BY <1>6, <2>2 DEF Keeps
    <3> QED BY <1>0, <1>1, <1>4, <2>2, <3>1 DEF Requesting, Api!Key, Api!Keyed
  <2> QED BY <2>1, <2>2
<1>8. ASSUME NEW q \in Callers PROVE Keeping(q)'
  <2> SUFFICES ASSUME Keeps(q)', Api!Keyed(q) PROVE Keeping(q)'
    BY DEF Keeping, Api!Key, Api!Keyed
  <2>1. record'[Api!Key(q)].answer # "none"
    <3>1. CASE q = r
      BY <1>5, <3>1
    <3>2. CASE q # r
      BY <1>0, <1>4, <1>6, <3>2 DEF Keeping
    <3> QED BY <3>1, <3>2
  <2>2. ASSUME NEW s \in Callers, Keeps(s)', Api!Key(s) = Api!Key(q) PROVE s = q
    <3>1. Api!Keyed(s) /\ Api!Key(q) \in Keys
      BY <1>5, <2>2
    <3>2. CASE s # r /\ q # r
      BY <1>0, <1>4, <2>2, <3>2 DEF Keeping
    <3>3. CASE s = r /\ q # r
      BY <1>0, <1>4, <2>2, <3>1, <3>3 DEF Keeping
    <3>4. CASE s # r /\ q = r
      BY <1>0, <1>4, <2>2, <3>1, <3>4 DEF Keeping
    <3> QED BY <3>2, <3>3, <3>4
  <2> QED BY <2>1, <2>2 DEF Keeping, Api!Key, Api!Keyed
<1>9. ASSUME NEW k \in Keys PROVE Recorded(k)'
  <2>1. CASE k = Api!Key(r)
    BY <2>1
  <2>2. CASE k # Api!Key(r)
    BY <1>0, <1>3, <2>2 DEF Recorded, Api!Key
  <2> QED BY <2>1, <2>2
<1>10. Api!OncePerKey'
  BY <1>0, <1>3 DEF Api!OncePerKey, Api!Same, Api!Key, Api!Keyed
<1>11. ASSUME NEW q \in Callers, reply'[q].code = "replayed"
       PROVE  call[reply'[q].post] = call[q] /\ reply'[reply'[q].post].code = "created"
  <2>1. CASE q = r
    BY <1>3, <1>11, <2>1
  <2>2. CASE q # r
    <3>1. call[reply[q].post] = call[q] /\ reply[reply[q].post].code = "created" /\ reply'[q] = reply[q]
      BY <1>0, <1>11, <2>2 DEF Api!ReplayIsTheOriginal
    <3>3. reply[q].post \in Callers
      BY <1>0, <1>11, <3>1 DEF Requesting
    <3> QED BY <1>3, <3>1, <3>3
  <2> QED BY <2>1, <2>2
<1> QED BY <1>2, <1>7, <1>8, <1>9, <1>10, <1>11 DEF ApiInv, Api!ReplayIsTheOriginal

LEMMA ApiNext == ApiInv /\ [Api!Next]_Api!vars => ApiInv'
<1> SUFFICES ASSUME ApiInv, [Api!Next]_Api!vars PROVE ApiInv'
  OBVIOUS
<1>0. /\ call \in [Callers -> Api!Calls] /\ place \in [Callers -> Api!Places]
      /\ reply \in [Callers -> Verdicts]
      /\ record \in [Keys -> Api!Rows] /\ status \in [Callers -> Api!PostStatus]
      /\ recent \subseteq Callers /\ granted \subseteq recent
      /\ epoch \in [Keys -> 0..1] /\ born \in [Callers -> 0..1] /\ ApiTyped
  BY DEF ApiInv, ApiTyped, Verdicts
<1>a. /\ \A r \in Callers : Requesting(r) /\ Keeping(r)
      /\ \A k \in Keys : Recorded(k)
      /\ Api!OncePerKey /\ Api!ReplayIsTheOriginal
  BY DEF ApiInv
<1>k. ASSUME NEW r \in Callers
      PROVE  /\ Api!Key(r) \in Keys \cup {"nokey"} /\ (Api!Keyed(r) <=> Api!Key(r) \in Keys)
             /\ Api!Keyed(r) => call[r].body \in Api!Bodies
  BY <1>0, ApiCalled
\* A request of an entered key that is released or answered keeps it alone.
<1>o. ASSUME NEW r \in Callers, Entered(r), Api!Keyed(r), NEW s \in Callers, s # r, Keeps(s)
      PROVE  Api!Key(s) # Api!Key(r)
  BY <1>a, <1>o DEF Keeping, Keeps
\* A request ends with an answer and leaves what is recorded and stored.
<1>b. ASSUME NEW r \in Callers, place[r] # "done", NEW code \in Api!Codes, NEW p \in Callers \cup {"none"},
             Api!Answer(r, code, p), code # "replayed",
             status' \in [Callers -> Api!PostStatus],
             \A q \in Callers : status'[q] = "none" <=> status[q] = "none",
             recent' \subseteq Callers, granted' \subseteq recent',
             UNCHANGED <<call, record, epoch, born>>
      PROVE  ApiInv'
  <2>1. /\ place' = [place EXCEPT ![r] = "done"]
        /\ reply' \in [Callers -> Verdicts] /\ reply'[r].code = code
        /\ \A q \in Callers : q # r => reply'[q] = reply[q]
    BY <1>0, <1>b, ApiAnswer
  <2>2. place'[r] = "done" /\ "done" \in Api!Places /\ ~Entered(r)'
    BY <1>0, <2>1, ApiNothing DEF Entered
  <2>3. Keeps(r)' => Keeps(r)
    BY <1>a, <1>b, <2>2 DEF Keeps, Requesting, Api!Key
  <2>4. ASSUME NEW k \in Keys PROVE Recorded(k)'
    BY <1>a, <1>b, <2>1 DEF Recorded, Requesting, Api!Key
  <2>5. Keeps(r)' /\ Api!Key(r) \in Keys => record'[Api!Key(r)].answer # "none"
    BY <1>a, <1>b, <1>k, <2>3 DEF Keeping
  <2> QED BY <1>0, <1>b, <2>1, <2>2, <2>3, <2>4, <2>5, ApiGoes
\* A request goes on without the record.
<1>c. ASSUME NEW r \in Callers, NEW p \in Api!Places \ {"done", "idle"}, place[r] # "done", Api!Go(r, p),
             p = "taken" => Api!Keyed(r),
             p \in {"taken", "claimed", "cleared"} => place[r] \in {"idle", "taken", "claimed", "cleared"},
             p = "committed" => Entered(r),
             p \in {"claimed", "cleared"} => Entered(r) \/ ~Api!Keyed(r),
             reply' \in [Callers -> Verdicts], \A q \in Callers : q # r => reply'[q] = reply[q],
             reply'[r].code = reply[r].code,
             p = "cleared" /\ call[r] = Api!ScheduleDraft =>
               reply'[r].post \in Callers /\ status[reply'[r].post] # "none",
             UNCHANGED <<call, record, status, recent, granted, epoch, born>>
      PROVE  ApiInv'
  <2>1. place' = [place EXCEPT ![r] = p] /\ place'[r] = p
    BY <1>0, <1>c DEF Api!Go
  <2>2. Api!Keyed(r) => (Entered(r)' => Entered(r)) /\ (Keeps(r)' => Keeps(r))
    BY <1>c, <2>1 DEF Entered, Keeps, Api!Key
  <2>3. ASSUME NEW k \in Keys PROVE Recorded(k)'
    BY <1>a, <1>c DEF Recorded, Api!Key
  <2>4. Keeps(r)' /\ Api!Key(r) \in Keys => record'[Api!Key(r)].answer # "none"
    BY <1>a, <1>c, <1>k, <2>2 DEF Keeping
  <2>5. Entered(r)' /\ Api!Key(r) \in Keys =>
          /\ record[Api!Key(r)].answer = "pending" /\ record[Api!Key(r)].print = call[r].body
          /\ ~record[Api!Key(r)].old
    BY <1>a, <1>k, <2>2 DEF Requesting
  <2>6. reply[r].code # "replayed"
    BY <1>a, <1>c DEF Requesting
  <2> QED BY <1>0, <1>c, <1>k, <2>1, <2>2, <2>3, <2>4, <2>5, <2>6, ApiGoes
\* A request ends and releases its key.
<1>d. ASSUME NEW r \in Callers, Entered(r), NEW code \in Api!Codes, Api!Answer(r, code, "none"),
             code \notin {"replayed", "none"}, status[r] # "none" => code = "error",
             record' = Api!Released(r), UNCHANGED <<call, status, recent, granted, epoch, born>>
      PROVE  ApiInv'
  <2>0. place[r] # "done"
    BY <1>d DEF Entered
  <2>1. /\ place' = [place EXCEPT ![r] = "done"]
        /\ reply' \in [Callers -> Verdicts] /\ reply'[r].code = code
        /\ \A q \in Callers : q # r => reply'[q] = reply[q]
    BY <1>0, <1>d, ApiAnswer
  <2>2. place'[r] = "done" /\ "done" \in Api!Places /\ ~Entered(r)' /\ ~Keeps(r)'
    BY <1>0, <1>d, <2>1, ApiNothing DEF Entered, Keeps
  <2>3. Api!Key(r) \in Keys => record' = [record EXCEPT ![Api!Key(r)] = Api!NoRow]
    BY <1>a, <1>d, <1>k DEF Api!Released, Requesting
  <2>4. Api!Key(r) \notin Keys => record' = record
    BY <1>d, <1>k DEF Api!Released
  <2>5. /\ record' \in [Keys -> Api!Rows] /\ \A k \in Keys : k # Api!Key(r) => record'[k] = record[k]
        /\ \A k \in Keys : k = Api!Key(r) => record'[k] = Api!NoRow
    BY <1>0, <2>3, <2>4, ApiNothing
  <2>6. ASSUME NEW k \in Keys, k = Api!Key(r) PROVE Recorded(k)'
    BY <2>5, <2>6, ApiNothing, NoneAssumption DEF Recorded
  <2>7. \A s \in Callers : s # r /\ Keeps(s) /\ Api!Key(r) \in Keys => Api!Key(s) # Api!Key(r)
    BY <1>d, <1>k, <1>o
  <2> QED BY <1>0, <1>d, <2>0, <2>1, <2>2, <2>5, <2>6, <2>7, ApiGoes
<1>1. ASSUME NEW r \in Callers, Api!Claim(r) PROVE ApiInv'
  <2>1. /\ place[r] = "idle" /\ call[r] # Api!ScheduleDraft
        /\ UNCHANGED <<call, reply, status, recent, granted, epoch, born>>
    BY <1>1 DEF Api!Claim, Api!history
  <2>2. {"taken", "claimed"} \subseteq Api!Places \ {"done", "idle"}
    BY ApiNothing
  <2>3. CASE ~Api!Keyed(r)
    <3>1. Api!Go(r, "claimed") /\ record' = record
      BY <1>1, <2>3 DEF Api!Claim
    <3> QED BY <1>0, <1>c, <2>1, <2>2, <2>3, <3>1
  <2>4. CASE Api!Keyed(r) /\ record[Api!Key(r)] # Api!NoRow
    <3>1. Api!Go(r, "taken") /\ record' = record
      BY <1>1, <2>4 DEF Api!Claim
    <3> QED BY <1>0, <1>c, <2>1, <2>2, <2>4, <3>1
  <2>5. CASE Api!Keyed(r) /\ record[Api!Key(r)] = Api!NoRow
    <3> DEFINE k == Api!Key(r)
               entry == [print |-> call[r].body, answer |-> "pending", old |-> FALSE]
    <3>1. k \in Keys /\ place' = [place EXCEPT ![r] = "claimed"] /\ record' = [record EXCEPT ![k] = entry]
      BY <1>1, <1>k, <2>5 DEF Api!Claim, Api!Go
    <3>2. /\ entry \in Api!Rows /\ entry.answer = "pending" /\ entry.print = call[r].body
          /\ entry.old = FALSE
      BY <1>k, <2>5 DEF Api!Rows, Api!Answers
    <3> HIDE DEF entry
    <3>3. record' \in [Keys -> Api!Rows] /\ record'[k] = entry /\ \A j \in Keys : j # k => record'[j] = record[j]
      BY <1>0, <3>1, <3>2
    <3>4. \A s \in Callers : Keeps(s) => Api!Key(s) # k
      BY <1>a, <1>k, <2>5, <3>1, ApiNothing DEF Keeping
    <3>6. "claimed" \in Api!Places /\ reply[r].code # "replayed" /\ place[r] # "done"
      BY <1>a, <2>1, ApiNothing DEF Requesting
    <3>7. ASSUME NEW j \in Keys, j = k PROVE Recorded(j)'
      BY <3>2, <3>3, <3>7, NoneAssumption DEF Recorded
    <3> HIDE DEF k
    <3>8. k = Api!Key(r)
      BY DEF k
    <3> QED BY <1>0, <2>1, <3>1, <3>2, <3>3, <3>4, <3>6, <3>7, <3>8, ApiGoes
  <2> QED BY <2>3, <2>4, <2>5
<1>2. ASSUME NEW r \in Callers, Api!LookUp(r) PROVE ApiInv'
  <2> DEFINE k == Api!Key(r)
             entry == record[k]
  <2>1. /\ place[r] = "taken" /\ UNCHANGED <<call, record, status, recent, granted, epoch, born>>
        /\ \/ \E code \in {"error", "invalid", "busy"} : Api!Answer(r, code, "none")
           \/ /\ entry # Api!NoRow /\ entry.print = call[r].body /\ entry.answer # "pending"
              /\ Api!Answer(r, "replayed", entry.answer)
    BY <1>2 DEF Api!LookUp, Api!history
  <2>2. CASE \E code \in {"error", "invalid", "busy"} : Api!Answer(r, code, "none")
    BY <1>0, <1>b, <2>1, <2>2, ApiNothing
  <2>3. CASE /\ entry # Api!NoRow /\ entry.print = call[r].body /\ entry.answer # "pending"
             /\ Api!Answer(r, "replayed", entry.answer)
    <3>1. k \in Keys /\ Api!Keyed(r)
      BY <1>a, <1>k, <2>1 DEF Requesting
    <3>2. entry.answer \in Callers
      BY <1>0, <1>a, <2>3, <3>1 DEF Api!Rows, Api!Answers, Recorded
    <3>3. /\ place' = [place EXCEPT ![r] = "done"]
          /\ reply' \in [Callers -> Verdicts] /\ reply'[r].post = entry.answer
          /\ \A q \in Callers : q # r => reply'[q] = reply[q]
      BY <1>0, <2>3, <3>2, ApiAnswer, ApiNothing
    <3>4. /\ call[entry.answer].key = call[r].key /\ call[entry.answer].body = call[r].body
          /\ reply[entry.answer].code = "created" /\ Api!Keyed(entry.answer)
      BY <1>a, <2>3, <3>1, <3>2 DEF Recorded, Api!Key, Api!Keyed
    <3>5. call[entry.answer] = call[r]
      BY <1>0, <3>1, <3>2, <3>4, ApiCalled
    <3>6. place'[r] = "done" /\ "done" \in Api!Places /\ ~Entered(r)' /\ place[r] # "done"
      BY <1>0, <2>1, <3>3, ApiNothing DEF Entered
    <3>7. ~Keeps(r)'
      BY <1>a, <2>1, <3>6 DEF Keeps, Requesting
    <3>8. ASSUME NEW j \in Keys PROVE Recorded(j)'
      BY <1>a, <2>1, <3>3 DEF Recorded, Requesting, Api!Key
    <3> QED BY <1>0, <2>1, <3>2, <3>3, <3>4, <3>5, <3>6, <3>7, <3>8, ApiGoes
  <2> QED BY <2>1, <2>2, <2>3
<1>3. ASSUME NEW r \in Callers, Api!ClearCreate(r) PROVE ApiInv'
  <2>1. /\ place[r] = "claimed" /\ call[r] # Api!ScheduleDraft /\ UNCHANGED <<call, status, recent, granted, epoch, born>>
        /\ \/ record' = Api!Released(r) /\ Api!Answer(r, "quota", "none")
           \/ Api!Go(r, "cleared") /\ UNCHANGED <<record, reply>>
    BY <1>3 DEF Api!ClearCreate
  <2>2. status[r] = "none" /\ Entered(r) /\ place[r] # "done"
    BY <1>a, <2>1 DEF Requesting, Entered
  <2>3. "quota" \in Api!Codes /\ "cleared" \in Api!Places
    BY ApiNothing
  <2>4. CASE record' = Api!Released(r) /\ Api!Answer(r, "quota", "none")
    BY <1>d, <2>1, <2>2, <2>3, <2>4
  <2>5. CASE Api!Go(r, "cleared") /\ UNCHANGED <<record, reply>>
    BY <1>0, <1>c, <2>1, <2>2, <2>3, <2>5
  <2> QED BY <2>1, <2>4, <2>5
<1>4. ASSUME NEW r \in Callers, Api!ClearDraft(r) PROVE ApiInv'
  <2>1. PICK p \in Callers :
          /\ place[r] = "idle" /\ call[r] = Api!ScheduleDraft /\ status[p] = "draft"
          /\ UNCHANGED <<call, record, status, recent, granted, epoch, born>>
          /\ \/ Api!Answer(r, "quota", "none")
             \/ Api!Go(r, "cleared") /\ reply' = [reply EXCEPT ![r].post = p]
    BY <1>4 DEF Api!ClearDraft
  <2>2. ~Api!Keyed(r) /\ "quota" \in Api!Codes /\ "cleared" \in Api!Places
    BY <2>1, ApiNothing, ApiCalled, <1>0
  <2>3. CASE Api!Answer(r, "quota", "none")
    BY <1>0, <1>b, <2>1, <2>2, <2>3
  <2>4. CASE Api!Go(r, "cleared") /\ reply' = [reply EXCEPT ![r].post = p]
    <3> DEFINE found == [reply[r] EXCEPT !.post = p]
    <3>1. found \in Verdicts /\ found.code = reply[r].code /\ found.post = p
      BY <1>0 DEF Verdicts
    <3>2. reply' = [reply EXCEPT ![r] = found]
      BY <2>4
    <3> HIDE DEF found
    <3>3. /\ reply' \in [Callers -> Verdicts] /\ \A q \in Callers : q # r => reply'[q] = reply[q]
          /\ reply'[r].code = reply[r].code /\ reply'[r].post = p
      BY <1>0, <3>1, <3>2
    <3> QED BY <1>c, <2>1, <2>2, <2>4, <3>3
  <2> QED BY <2>1, <2>3, <2>4
<1>5. ASSUME NEW r \in Callers, Api!CreateRefused(r) PROVE ApiInv'
  <2>1. /\ place[r] = "cleared" /\ record' = Api!Released(r) /\ Api!Answer(r, "invalid", "none")
        /\ UNCHANGED <<call, status, recent, granted, epoch, born>>
    BY <1>5 DEF Api!CreateRefused, Api!history
  <2>2. status[r] = "none" /\ Entered(r) /\ "invalid" \in Api!Codes
    BY <1>a, <2>1, ApiNothing DEF Requesting, Entered
  <2> QED BY <1>d, <2>1, <2>2
<1>6. ASSUME NEW r \in Callers, Api!FailLate(r) PROVE ApiInv'
  <2>1. /\ place[r] = "committed" /\ record' = Api!Released(r) /\ Api!Answer(r, "error", "none")
        /\ UNCHANGED <<call, status, recent, granted, epoch, born>>
    BY <1>6 DEF Api!FailLate, Api!history
  <2>2. Entered(r) /\ "error" \in Api!Codes
    BY <2>1, ApiNothing DEF Entered
  <2> QED BY <1>d, <2>1, <2>2
<1>7. ASSUME NEW r \in Callers, Api!Finalize(r) PROVE ApiInv'
  <2> DEFINE k == Api!Key(r)
             entry == [record[k] EXCEPT !.answer = r]
  <2>1. /\ place[r] = "committed" /\ Api!Answer(r, "created", r)
        /\ record' = (IF Api!Keyed(r) /\ record[k] # Api!NoRow THEN [record EXCEPT ![k] = entry] ELSE record)
        /\ UNCHANGED <<call, status, recent, granted, epoch, born>>
    BY <1>7 DEF Api!Finalize, Api!history
  <2>2. /\ place' = [place EXCEPT ![r] = "done"]
        /\ reply' \in [Callers -> Verdicts] /\ reply'[r].code = "created"
        /\ \A q \in Callers : q # r => reply'[q] = reply[q]
    BY <1>0, <2>1, ApiAnswer, ApiNothing
  <2>3. Entered(r) /\ place[r] # "done" /\ "done" \in Api!Places /\ ~Entered(r)'
    BY <1>0, <2>1, <2>2, ApiNothing DEF Entered
  <2>4. k \in Keys => /\ record[k] # Api!NoRow /\ record[k].print = call[r].body
                      /\ entry \in Api!Rows /\ entry.answer = r /\ entry.print = call[r].body
    BY <1>0, <1>a, <1>k, <2>3, ApiNothing DEF Requesting, Api!Rows, Api!Answers
  <2> HIDE DEF entry
  <2>5. /\ record' \in [Keys -> Api!Rows] /\ \A j \in Keys : j # k => record'[j] = record[j]
        /\ k \in Keys => record'[k] = entry
    BY <1>0, <1>k, <2>1, <2>4
  <2>6. ASSUME NEW j \in Keys, j = k PROVE Recorded(j)' /\ record'[j].answer # "none"
    BY <2>1, <2>2, <2>4, <2>5, <2>6, NoneAssumption DEF Recorded, Api!Key
  <2>7. \A s \in Callers : s # r /\ Keeps(s) /\ k \in Keys => Api!Key(s) # k
    BY <1>k, <1>o, <2>3
  <2> HIDE DEF k
  <2>8. k = Api!Key(r)
    BY DEF k
  <2> QED BY <1>0, <2>1, <2>2, <2>3, <2>5, <2>6, <2>7, <2>8, ApiGoes
<1>8. ASSUME NEW r \in Callers, Api!ScheduleRefused(r) PROVE ApiInv'
  <2>1. /\ place[r] # "done" /\ Api!Answer(r, "invalid", "none") /\ "invalid" \in Api!Codes
        /\ UNCHANGED <<call, record, status, recent, granted, epoch, born>>
    BY <1>8, ApiNothing DEF Api!ScheduleRefused, Api!history
  <2> QED BY <1>0, <1>b, <2>1
<1>9. ASSUME NEW r \in Callers, Api!Schedule(r) PROVE ApiInv'
  <2>0. reply[r].post \in Callers /\ status[reply[r].post] # "none"
    BY <1>9, <1>a DEF Api!Schedule, Requesting
  <2>1. PICK p \in Callers :
          /\ status[p] # "none" /\ status' = [status EXCEPT ![p] = "scheduled"]
          /\ recent' = recent \cup {p} /\ granted' = granted \cup {p} /\ Api!Answer(r, "created", p)
    BY <1>9, <2>0 DEF Api!Schedule
  <2>2. /\ place[r] = "cleared" /\ "created" \in Api!Codes /\ UNCHANGED <<call, record, epoch, born>>
    BY <1>9, ApiNothing DEF Api!Schedule
  <2>3. /\ status' \in [Callers -> Api!PostStatus]
        /\ \A q \in Callers : status'[q] = "none" <=> status[q] = "none"
    BY <1>0, <2>1 DEF Api!PostStatus, Api!Consuming
  <2>4. recent' \subseteq Callers /\ granted' \subseteq recent'
    BY <1>0, <2>1
  <2> QED BY <1>b, <2>1, <2>2, <2>3, <2>4
<1>10. ASSUME NEW r \in Callers, Api!Kill(r) PROVE ApiInv'
  <2>1. /\ place[r] # "done" /\ Api!Go(r, "killed") /\ "killed" \in Api!Places
        /\ UNCHANGED <<call, reply, record, status, recent, granted, epoch, born>>
    BY <1>10, ApiNothing DEF Api!Kill, Api!InFlight, Api!history
  <2> QED BY <1>0, <1>c, <2>1
\* A post changes after it was created.
<1>e. ASSUME NEW p \in Callers, NEW s \in {"draft", "ended", "scheduled"}, status[p] = "scheduled",
             status' = [status EXCEPT ![p] = s], recent' = recent \cup {p},
             UNCHANGED <<call, place, reply, record, epoch, born, granted>>
      PROVE  ApiInv'
  <2>1. /\ status' \in [Callers -> Api!PostStatus]
        /\ \A q \in Callers : status'[q] = "none" <=> status[q] = "none"
    BY <1>0, <1>e DEF Api!PostStatus, Api!Consuming
  <2>2. ApiTyped'
    BY <1>0, <1>e, <2>1 DEF ApiTyped, Verdicts
  <2>3. ASSUME NEW q \in Callers PROVE Requesting(q)' /\ Keeping(q)'
    BY <1>a, <1>e, <2>1 DEF Requesting, Keeping, Keeps, Entered, Api!Key, Api!Keyed
  <2>4. ASSUME NEW k \in Keys PROVE Recorded(k)'
    BY <1>a, <1>e DEF Recorded, Api!Key
  <2>5. Api!OncePerKey' /\ Api!ReplayIsTheOriginal'
    BY <1>a, <1>e, <2>1 DEF Api!OncePerKey, Api!ReplayIsTheOriginal, Api!Same, Api!Key, Api!Keyed
  <2> QED BY <2>2, <2>3, <2>4, <2>5 DEF ApiInv
<1>11. ASSUME NEW p \in Callers, Api!Cancel(p) \/ Api!Update(p) \/ Api!Publish(p) PROVE ApiInv'
  <2>1. CASE Api!Cancel(p)
    BY <1>e, <2>1 DEF Api!Cancel, Api!history
  <2>2. CASE Api!Update(p)
    <3>1. status' = [status EXCEPT ![p] = "scheduled"]
      BY <1>0, <2>2 DEF Api!Update
    <3> QED BY <1>e, <2>2, <3>1 DEF Api!Update, Api!history
  <2>3. CASE Api!Publish(p)
    BY <1>e, <2>3 DEF Api!Publish, Api!history
  <2> QED BY <1>11, <2>1, <2>2, <2>3
<1>12. ASSUME NEW r \in Callers, Api!Create(r) PROVE ApiInv'
  <2> DEFINE k == Api!Key(r)
  <2>1. /\ place[r] = "cleared" /\ place' = [place EXCEPT ![r] = "committed"]
        /\ status' = [status EXCEPT ![r] = IF call[r].body = "draft" THEN "draft" ELSE "scheduled"]
        /\ recent' = recent \cup {r} /\ granted' \in {granted, granted \cup {r}}
        /\ born' = [born EXCEPT ![r] = IF Api!Keyed(r) THEN epoch[k] ELSE 0]
        /\ UNCHANGED <<call, reply, record, epoch>>
    BY <1>12 DEF Api!Create, Api!Go
  <2>2. /\ place' \in [Callers -> Api!Places] /\ place'[r] = "committed"
        /\ status' \in [Callers -> Api!PostStatus] /\ status'[r] # "none"
        /\ born' \in [Callers -> 0..1]
        /\ Api!Keyed(r) => born'[r] = epoch[k]
        /\ \A q \in Callers : q # r => place'[q] = place[q] /\ status'[q] = status[q] /\ born'[q] = born[q]
    BY <1>0, <1>k, <2>1, ApiNothing DEF Api!PostStatus, Api!Consuming
  <2>3. ApiTyped'
    <3>1. recent' \subseteq Callers /\ granted' \subseteq recent'
      BY <1>0, <2>1
    <3>2. /\ call' \in [Callers -> Api!Calls] /\ reply' \in [Callers -> Verdicts]
          /\ record' \in [Keys -> Api!Rows] /\ epoch' \in [Keys -> 0..1]
      BY <1>0, <2>1
    <3> QED BY <2>2, <3>1, <3>2 DEF ApiTyped, Verdicts
  <2>4. /\ Keeps(r) /\ Keeps(r)' /\ Entered(r) /\ reply[r].code = "none"
        /\ \A q \in Callers : (Keeps(q)' <=> Keeps(q)) /\ (Entered(q)' <=> Entered(q))
    BY <1>a, <2>1, <2>2 DEF Keeps, Entered, Requesting, Api!Key
  <2>5. ASSUME NEW q \in Callers PROVE Keeping(q)'
    BY <1>a, <2>1, <2>4 DEF Keeping, Api!Key, Api!Keyed
  <2>6. ASSUME NEW q \in Callers PROVE Requesting(q)'
    <3>1. CASE q = r
      <4>1. Api!Keyed(r) => epoch[k] \in 0..1
        BY <1>0, <1>k
      <4>2. Api!Keyed(r) => born'[r] <= epoch'[k]
        BY <2>1, <2>2, <4>1
      <4> QED BY <1>a, <2>1, <2>2, <2>4, <3>1, <4>2 DEF Requesting, Api!Key, Api!Keyed
    <3>2. CASE q # r
      BY <1>a, <2>1, <2>2, <2>4, <3>2 DEF Requesting, Api!Key, Api!Keyed
    <3> QED BY <3>1, <3>2
  <2>7. ASSUME NEW j \in Keys PROVE Recorded(j)'
    BY <1>a, <2>1 DEF Recorded, Api!Key
  <2>8. ASSUME NEW s \in Callers, s # r, Api!Keyed(r), Api!Key(s) = k, status[s] # "none", born[s] = epoch[k]
        PROVE  reply[s].code = "error"
    <3>1. ~Keeps(s)
      BY <1>o, <2>4, <2>8
    <3> QED BY <2>8, <3>1 DEF Keeps
  <2>9. ASSUME NEW q \in Callers, NEW s \in Callers, q # s, Api!Keyed(q), Api!Key(q) = Api!Key(s),
               status'[q] # "none", status'[s] # "none", born'[q] = born'[s]
        PROVE  "error" \in {reply[q].code, reply[s].code}
    <3>0. Api!Keyed(s)
      BY <2>9 DEF Api!Keyed
    <3>1. CASE q = r
      <4>1. s # r /\ Api!Keyed(r) /\ Api!Key(s) = k /\ status[s] # "none" /\ born[s] = epoch[k]
        BY <2>2, <2>9, <3>1
      <4> QED BY <2>8, <4>1
    <3>2. CASE s = r
      <4>1. q # r /\ Api!Keyed(r) /\ Api!Key(q) = k /\ status[q] # "none" /\ born[q] = epoch[k]
        BY <2>2, <2>9, <3>0, <3>2
      <4> QED BY <2>8, <4>1
    <3>3. CASE q # r /\ s # r
      BY <1>a, <2>2, <2>9, <3>3 DEF Api!OncePerKey, Api!Same
    <3> QED BY <3>1, <3>2, <3>3
  <2>10. Api!OncePerKey'
    BY <2>1, <2>9 DEF Api!OncePerKey, Api!Same, Api!Key, Api!Keyed
  <2>11. Api!ReplayIsTheOriginal'
    BY <1>a, <2>1 DEF Api!ReplayIsTheOriginal
  <2> QED BY <2>3, <2>5, <2>6, <2>7, <2>10, <2>11 DEF ApiInv
\* The rows of keys that nobody works on change.
<1>f. ASSUME record' \in [Keys -> Api!Rows], epoch' \in [Keys -> 0..1], recent' \subseteq Callers, granted' \subseteq recent',
             \A k \in Keys : \/ record'[k] = record[k] /\ epoch'[k] = epoch[k]
                             \/ /\ epoch'[k] = epoch[k] /\ record'[k].print = record[k].print
                                /\ record'[k].answer = record[k].answer
                                /\ record[k] # Api!NoRow
                                /\ \A r \in Callers : ~Entered(r)
                             \/ /\ record'[k] = Api!NoRow /\ record[k].old /\ epoch[k] = 0 /\ epoch'[k] = 1,
             UNCHANGED <<call, place, reply, status, born>>
      PROVE  ApiInv'
  <2>1. ApiTyped'
    BY <1>0, <1>f DEF ApiTyped, Verdicts
  <2>2. ASSUME NEW r \in Callers, Keeps(r)', Api!Keyed(r)
        PROVE  Keeps(r) /\ record'[Api!Key(r)].answer = record[Api!Key(r)].answer
    <3>1. Api!Key(r) \in Keys
      BY <1>k, <2>2
    <3>2. CASE Entered(r)
      <4>1. ~record[Api!Key(r)].old
        BY <1>a, <2>2, <3>2 DEF Requesting
      <4> QED BY <1>f, <3>1, <3>2, <4>1 DEF Keeps
    <3>3. CASE ~Entered(r)
      <4>1. status[r] # "none" /\ born[r] = epoch'[Api!Key(r)] /\ reply[r].code # "error"
        BY <1>f, <2>2, <3>3 DEF Keeps, Entered, Api!Key
      <4>2. born[r] <= epoch[Api!Key(r)]
        BY <1>a, <2>2, <4>1 DEF Requesting
      <4>3. epoch'[Api!Key(r)] = epoch[Api!Key(r)]
        BY <1>f, <3>1, <4>1, <4>2
      <4>4. record'[Api!Key(r)].answer = record[Api!Key(r)].answer
        BY <1>f, <3>1, <4>3
      <4> QED BY <4>1, <4>3, <4>4 DEF Keeps
    <3> QED BY <3>2, <3>3
  <2>3. ASSUME NEW r \in Callers PROVE Keeping(r)'
    <3> SUFFICES ASSUME Keeps(r)', Api!Keyed(r) PROVE Keeping(r)'
      BY <1>f DEF Keeping, Api!Key, Api!Keyed
    <3>1. Keeping(r) /\ Keeps(r) /\ record'[Api!Key(r)].answer = record[Api!Key(r)].answer
      BY <1>a, <2>2
    <3>2. \A s \in Callers : Keeps(s)' /\ Api!Key(s) = Api!Key(r) => Keeps(s)
      BY <2>2 DEF Api!Keyed
    <3> QED BY <1>f, <3>1, <3>2 DEF Keeping, Api!Key, Api!Keyed
  <2>4. ASSUME NEW r \in Callers PROVE Requesting(r)'
    <3>1. Api!Keyed(r) /\ Entered(r) => record'[Api!Key(r)] = record[Api!Key(r)]
      BY <1>a, <1>f, <1>k DEF Requesting
    <3>2. Api!Keyed(r) => epoch[Api!Key(r)] <= epoch'[Api!Key(r)]
      BY <1>0, <1>f, <1>k
    <3>3. Api!Keyed(r) /\ status[r] # "none" => born[r] <= epoch'[Api!Key(r)]
      <4> SUFFICES ASSUME Api!Keyed(r), status[r] # "none" PROVE born[r] <= epoch'[Api!Key(r)]
        OBVIOUS
      <4>1. born[r] \in 0..1 /\ epoch[Api!Key(r)] \in 0..1 /\ epoch'[Api!Key(r)] \in 0..1
        BY <1>0, <1>f, <1>k
      <4>2. born[r] <= epoch[Api!Key(r)]
        BY <1>a DEF Requesting
      <4> QED BY <3>2, <4>1, <4>2
    <3> QED BY <1>a, <1>f, <3>1, <3>3 DEF Requesting, Entered, Api!Key, Api!Keyed
  <2>5. ASSUME NEW k \in Keys PROVE Recorded(k)'
    BY <1>a, <1>f, ApiNothing, NoneAssumption DEF Recorded, Api!Key
  <2>6. Api!OncePerKey' /\ Api!ReplayIsTheOriginal'
    BY <1>a, <1>f DEF Api!OncePerKey, Api!ReplayIsTheOriginal, Api!Same, Api!Key, Api!Keyed
  <2> QED BY <2>1, <2>3, <2>4, <2>5, <2>6 DEF ApiInv
<1>13. CASE Api!DayPasses
  <2> DEFINE aged(k) == [record[k] EXCEPT !.old = TRUE]
  <2>1. \A k \in Keys : aged(k) \in Api!Rows /\ aged(k).print = record[k].print /\ aged(k).answer = record[k].answer
    BY <1>0 DEF Api!Rows
  <2>2. /\ \A r \in Callers : ~Entered(r)
        /\ recent' = {} /\ granted' = {}
        /\ record' = [k \in Keys |-> IF record[k] = Api!NoRow THEN Api!NoRow ELSE aged(k)]
        /\ UNCHANGED <<call, place, reply, status, epoch, born>>
    BY <1>13 DEF Api!DayPasses, Api!InFlight, Entered
  <2> HIDE DEF aged
  <2>3. record' \in [Keys -> Api!Rows]
    BY <2>1, <2>2, ApiNothing
  <2> QED BY <1>0, <1>f, <2>1, <2>2, <2>3
<1>14. CASE Api!Sweep
  <2>1. /\ \A k \in Keys : record[k].old => epoch[k] = 0
        /\ record' = [k \in Keys |-> IF record[k].old THEN Api!NoRow ELSE record[k]]
        /\ epoch' = [k \in Keys |-> IF record[k].old THEN 1 ELSE epoch[k]]
        /\ UNCHANGED <<call, place, reply, status, recent, born, granted>>
    BY <1>14 DEF Api!Sweep
  <2>2. record' \in [Keys -> Api!Rows] /\ epoch' \in [Keys -> 0..1]
    BY <1>0, <2>1, ApiNothing
  <2> QED BY <1>0, <1>f, <2>1, <2>2
<1>15. CASE UNCHANGED Api!vars
  BY <1>0, <1>a, <1>15 DEF Api!vars, ApiInv, ApiTyped, Verdicts, Requesting, Keeping, Keeps, Entered, Recorded,
     Api!Key, Api!Keyed, Api!OncePerKey, Api!Same, Api!ReplayIsTheOriginal
<1> QED BY <1>1, <1>2, <1>3, <1>4, <1>5, <1>6, <1>7, <1>8, <1>9, <1>10, <1>11, <1>12, <1>13, <1>14, <1>15
        DEF Api!Next

-----------------------------------------------------------------------------
(* The agents' quota.                                                      *)

Scheduled == {p \in granted : status[p] \in Api!Consuming}
\* Each request that is past its count may schedule one post more.
CountInv ==
  /\ peak \in 1..Cardinality(Callers)
  /\ Cardinality(Scheduled) + Cardinality(Api!Counted) <= Limit + peak - 1

LEMMA ApiCount == ASSUME NEW S PROVE Api!Cardinality(S) = Cardinality(S)
BY SMT DEF Api!Cardinality, Cardinality

LEMMA Callings ==
  ASSUME NEW S \in SUBSET Callers
  PROVE  IsFiniteSet(S) /\ Cardinality(S) \in Nat /\ Cardinality(S) <= Cardinality(Callers)
         /\ Cardinality(Callers) \in Nat
BY SetAssumption, FS_Subset, FS_CardinalityType

LEMMA CountInit == Api!Init => CountInv
<1> SUFFICES ASSUME Api!Init PROVE CountInv
  OBVIOUS
<1>1. place = [r \in Callers |-> "idle"] /\ granted = {} /\ peak = 1
  BY DEF Api!Init
<1>2. Scheduled = {} /\ Api!Counted = {}
  BY <1>1 DEF Scheduled, Api!Counted
<1>3. Cardinality({}) = 0
  BY FS_EmptySet
<1>4. Cardinality(Callers) \in Nat /\ Cardinality(Callers) # 0
  BY SetAssumption, FS_EmptySet, FS_CardinalityType
<1> QED BY <1>1, <1>2, <1>3, <1>4, BoundAssumption DEF CountInv

LEMMA CountNext == ApiInv /\ CountInv /\ [Api!Next]_Api!vars => CountInv'
<1> SUFFICES ASSUME ApiInv, CountInv, [Api!Next]_Api!vars PROVE CountInv'
  OBVIOUS
<1>0. /\ place \in [Callers -> Api!Places] /\ status \in [Callers -> Api!PostStatus]
      /\ recent \subseteq Callers /\ granted \subseteq recent
      /\ peak \in 1..Cardinality(Callers) /\ Limit \in Nat
      /\ Cardinality(Scheduled) + Cardinality(Api!Counted) <= Limit + peak - 1
      /\ Scheduled \in SUBSET Callers /\ Api!Counted \in SUBSET Callers
  BY BoundAssumption DEF ApiInv, ApiTyped, CountInv, Scheduled, Api!Counted
<1>a. /\ Cardinality(Scheduled) \in Nat /\ Cardinality(Api!Counted) \in Nat
      /\ Cardinality(Callers) \in Nat /\ peak \in Nat
  BY <1>0, Callings
\* Nothing more is counted or scheduled.
<1>b. ASSUME Scheduled' \subseteq Scheduled, Api!Counted' \subseteq Api!Counted, peak' = peak
      PROVE  CountInv'
  <2>1. Cardinality(Scheduled') <= Cardinality(Scheduled) /\ Cardinality(Scheduled') \in Nat
    BY <1>0, <1>b, Callings, FS_Subset
  <2>2. Cardinality(Api!Counted') <= Cardinality(Api!Counted) /\ Cardinality(Api!Counted') \in Nat
    BY <1>0, <1>b, Callings, FS_Subset
  <2>3. Cardinality(Scheduled') + Cardinality(Api!Counted') <= Limit + peak - 1
    BY <1>0, <1>a, <2>1, <2>2
  <2> QED BY <1>0, <1>b, <2>3 DEF CountInv
\* A request is past its count of less than the limit.
<1>c. ASSUME NEW r \in Callers, ~(Api!Used >= Limit), place' = [place EXCEPT ![r] = "cleared"],
             Api!Overlap(r), UNCHANGED <<call, status, granted>>
      PROVE  CountInv'
  <2>1. Scheduled' = Scheduled /\ Api!Counted' \subseteq Api!Counted \cup {r}
    BY <1>0, <1>c DEF Scheduled, Api!Counted
  <2> DEFINE more == Cardinality(Api!Counted \cup {r})
             used == Cardinality({p \in recent : status[p] \in Api!Consuming})
  <2>2. /\ more \in Nat /\ more <= Cardinality(Callers)
        /\ Cardinality(Api!Counted') \in Nat /\ Cardinality(Api!Counted') <= more
    <3>1. Api!Counted \cup {r} \in SUBSET Callers
      BY <1>0
    <3> QED BY <2>1, <3>1, Callings, FS_Subset
  <2>3. peak' = IF more > peak THEN more ELSE peak
    BY <1>c, ApiCount DEF Api!Overlap
  <2>4. used \in Nat /\ Cardinality(Scheduled) <= used
    <3>1. {p \in recent : status[p] \in Api!Consuming} \in SUBSET Callers
      BY <1>0
    <3>2. Scheduled \subseteq {p \in recent : status[p] \in Api!Consuming}
      BY <1>0 DEF Scheduled
    <3> QED BY <3>1, <3>2, Callings, FS_Subset
  <2>5. ~(used >= Limit)
    BY <1>c, ApiCount DEF Api!Used
  <2> HIDE DEF more, used
  <2>6. Cardinality(Scheduled) <= Limit - 1
    BY <1>0, <1>a, <2>4, <2>5
  <2>7. peak' \in 1..Cardinality(Callers) /\ more <= peak'
    BY <1>0, <1>a, <2>2, <2>3
  <2>8. Cardinality(Scheduled) + Cardinality(Api!Counted') <= Limit + peak' - 1
    BY <1>0, <1>a, <2>2, <2>6, <2>7
  <2> QED BY <2>1, <2>7, <2>8 DEF CountInv
\* A request that was counted schedules one post.
<1>d. ASSUME NEW r \in Api!Counted, NEW p \in Callers, NEW s \in Api!Places \ {"cleared"},
             place' = [place EXCEPT ![r] = s], Scheduled' \subseteq Scheduled \cup {p},
             UNCHANGED <<call, peak>>
      PROVE  CountInv'
  <2>1. Api!Counted' = Api!Counted \ {r}
    BY <1>0, <1>d DEF Api!Counted
  <2>2. Cardinality(Api!Counted \ {r}) = Cardinality(Api!Counted) - 1
    BY <1>0, Callings, FS_RemoveElement
  <2>3. Cardinality(Scheduled \cup {p}) \in {Cardinality(Scheduled), Cardinality(Scheduled) + 1}
    BY <1>0, Callings, FS_AddElement
  <2>4. Cardinality(Scheduled') \in Nat /\ Cardinality(Scheduled') <= Cardinality(Scheduled \cup {p})
    <3>1. Scheduled \cup {p} \in SUBSET Callers
      BY <1>0
    <3> QED BY <1>d, <3>1, Callings, FS_Subset
  <2>5. Cardinality(Scheduled') + Cardinality(Api!Counted \ {r}) <= Limit + peak - 1
    BY <1>0, <1>a, <2>2, <2>3, <2>4
  <2> QED BY <1>0, <1>d, <2>1, <2>5 DEF CountInv
\* A request stops or comes to a place where it is not counted.
<1>e. ASSUME NEW r \in Callers, NEW s \in Api!Places \ {"cleared"}, place' = [place EXCEPT ![r] = s],
             UNCHANGED <<call, status, granted, peak>>
      PROVE  CountInv'
  <2>1. Scheduled' = Scheduled /\ Api!Counted' \subseteq Api!Counted
    BY <1>0, <1>e DEF Scheduled, Api!Counted
  <2> QED BY <1>b, <1>e, <2>1
<1>p. {"taken", "claimed", "committed", "done", "killed"} \subseteq Api!Places \ {"cleared"}
  BY DEF Api!Places
<1>1. ASSUME NEW r \in Callers, Api!Claim(r) PROVE CountInv'
  BY <1>e, <1>1, <1>p DEF Api!Claim, Api!Go, Api!history
<1>2. ASSUME NEW r \in Callers, Api!LookUp(r) PROVE CountInv'
  BY <1>e, <1>2, <1>p DEF Api!LookUp, Api!Answer, Api!Go, Api!history
<1>3. ASSUME NEW r \in Callers, Api!ClearCreate(r) PROVE CountInv'
  <2>1. CASE call[r].body # "draft" /\ Api!Used >= Limit
    BY <1>e, <1>3, <1>p, <2>1 DEF Api!ClearCreate, Api!Answer, Api!Go
  <2>2. CASE call[r].body # "draft" /\ ~(Api!Used >= Limit)
    BY <1>c, <1>3, <2>2 DEF Api!ClearCreate, Api!Go
  <2>3. CASE call[r].body = "draft"
    <3>1. place' = [place EXCEPT ![r] = "cleared"] /\ UNCHANGED <<call, status, granted, peak>>
      BY <1>3, <2>3 DEF Api!ClearCreate, Api!Go
    <3>2. Scheduled' = Scheduled /\ Api!Counted' \subseteq Api!Counted
      BY <1>0, <2>3, <3>1 DEF Scheduled, Api!Counted
    <3> QED BY <1>b, <3>1, <3>2
  <2> QED BY <2>1, <2>2, <2>3
<1>4. ASSUME NEW r \in Callers, Api!ClearDraft(r) PROVE CountInv'
  <2>1. CASE Api!Used >= Limit
    BY <1>e, <1>4, <1>p, <2>1 DEF Api!ClearDraft, Api!Answer, Api!Go
  <2>2. CASE ~(Api!Used >= Limit)
    BY <1>c, <1>4, <2>2 DEF Api!ClearDraft, Api!Go
  <2> QED BY <2>1, <2>2
<1>5. ASSUME NEW r \in Callers, Api!Create(r) PROVE CountInv'
  <2>1. /\ place[r] = "cleared" /\ place' = [place EXCEPT ![r] = "committed"]
        /\ status' = [status EXCEPT ![r] = IF call[r].body = "draft" THEN "draft" ELSE "scheduled"]
        /\ granted' = (IF call[r].body = "draft" THEN granted ELSE granted \cup {r})
        /\ UNCHANGED <<call, peak>>
    BY <1>5 DEF Api!Create, Api!Go
  <2>2. CASE call[r].body = "draft"
    <3>1. Scheduled' \subseteq Scheduled /\ Api!Counted' \subseteq Api!Counted
      BY <1>0, <2>1, <2>2 DEF Scheduled, Api!Counted, Api!Consuming
    <3> QED BY <1>b, <2>1, <3>1
  <2>3. CASE call[r].body # "draft"
    <3>1. r \in Api!Counted /\ Scheduled' \subseteq Scheduled \cup {r}
      BY <1>0, <2>1, <2>3 DEF Scheduled, Api!Counted
    <3> QED BY <1>d, <1>p, <2>1, <3>1
  <2> QED BY <2>2, <2>3
<1>6. ASSUME NEW r \in Callers, Api!CreateRefused(r) \/ Api!Finalize(r) \/ Api!FailLate(r) \/ Api!ScheduleRefused(r)
      PROVE  CountInv'
  BY <1>e, <1>6, <1>p DEF Api!CreateRefused, Api!Finalize, Api!FailLate, Api!ScheduleRefused, Api!Answer, Api!Go, Api!history
<1>7. ASSUME NEW r \in Callers, Api!Schedule(r) PROVE CountInv'
  <2>0. reply[r].post \in Callers
    BY <1>7 DEF Api!Schedule, ApiInv, Requesting
  <2>1. PICK p \in Callers :
          /\ status' = [status EXCEPT ![p] = "scheduled"] /\ granted' = granted \cup {p}
          /\ place' = [place EXCEPT ![r] = "done"]
    BY <1>7, <2>0 DEF Api!Schedule, Api!Answer, Api!Go
  <2>2. place[r] = "cleared" /\ call[r].body # "draft" /\ UNCHANGED <<call, peak>>
    BY <1>7 DEF Api!Schedule, Api!ScheduleDraft
  <2>3. r \in Api!Counted /\ Scheduled' \subseteq Scheduled \cup {p}
    BY <1>0, <2>1, <2>2 DEF Scheduled, Api!Counted
  <2> QED BY <1>d, <1>p, <2>1, <2>2, <2>3
<1>8. ASSUME NEW p \in Callers, Api!Cancel(p) \/ Api!Update(p) \/ Api!Publish(p) PROVE CountInv'
  <2>1. /\ status[p] = "scheduled" /\ UNCHANGED <<call, place, granted, peak>>
        /\ \/ \E s \in {"draft", "ended"} : status' = [status EXCEPT ![p] = s]
           \/ status' = status
    BY <1>8 DEF Api!Cancel, Api!Update, Api!Publish, Api!history
  <2>2. Scheduled' \subseteq Scheduled /\ Api!Counted' \subseteq Api!Counted
    BY <1>0, <2>1 DEF Scheduled, Api!Counted, Api!Consuming
  <2> QED BY <1>b, <2>1, <2>2
<1>9. ASSUME NEW r \in Callers, Api!Kill(r) PROVE CountInv'
  BY <1>e, <1>9, <1>p DEF Api!Kill, Api!Go, Api!history
<1>10. CASE Api!DayPasses
  <2>1. Scheduled' \subseteq Scheduled /\ Api!Counted' \subseteq Api!Counted /\ peak' = peak
    BY <1>10 DEF Api!DayPasses, Scheduled, Api!Counted
  <2> QED BY <1>b, <2>1
<1>11. CASE Api!Sweep \/ UNCHANGED Api!vars
  <2>1. Scheduled' \subseteq Scheduled /\ Api!Counted' \subseteq Api!Counted /\ peak' = peak
    BY <1>11 DEF Api!Sweep, Api!vars, Scheduled, Api!Counted
  <2> QED BY <1>b, <2>1
<1> QED BY <1>1, <1>2, <1>3, <1>4, <1>5, <1>6, <1>7, <1>8, <1>9, <1>10, <1>11 DEF Api!Next

-----------------------------------------------------------------------------
(* The inbox.  A message is noticed once it is created, and once told late  *)
(* it is marked before it can be told again, unless the cycle is cut.       *)

Noticing(m) == IF cycle.step = "created" /\ cycle.msg = m THEN 1 ELSE 0
Telling(m) == IF cycle.step = "told" /\ cycle.msg = m THEN 1 ELSE 0
Marked(m) == IF row[m].late THEN 1 ELSE 0
Stored(m) == IF row[m].known THEN 1 ELSE 0
Recording == IF answer.step = "sent" THEN 1 ELSE 0

Cycling ==
  /\ cycle.step \in {"created", "told"} => cycle.msg \in 1..MaxMessages
  /\ cycle.step \in {"late", "told"} =>
       \A m \in cycle.left : ~row[m].late /\ (cycle.step = "told" => cycle.msg # m)
  /\ cycle.step = "told" => ~row[cycle.msg].late
Replying ==
  /\ answer.step # "none" => answer.msg \in 1..MaxMessages
  /\ answer.step = "asked" => delivered < MaxReplies
  /\ recorded + Recording <= delivered
Counts(m) ==
  /\ notified[m] + Noticing(m) <= Stored(m)
  /\ told[m] <= kills + Marked(m) + Telling(m)

InboxInv ==
  /\ Messages!TypeOK /\ Cycling /\ Replying
  /\ \A m \in 1..MaxMessages : Counts(m)


Cycles == [step: Messages!Steps, left: SUBSET (1..MaxMessages), msg: 0..MaxMessages, mute: BOOLEAN]
Replies == [step: {"none", "asked", "sent"}, msg: 0..MaxMessages, seen: BOOLEAN]

LEMMA SetLeft ==
  ASSUME NEW c \in Cycles, NEW L \in SUBSET (1..MaxMessages)
  PROVE  LET d == [c EXCEPT !.left = L]
         IN  d \in Cycles /\ d.left = L /\ d.step = c.step /\ d.msg = c.msg
BY DEF Cycles

LEMMA SetStep ==
  ASSUME NEW c \in Cycles, NEW step \in Messages!Steps
  PROVE  LET d == [c EXCEPT !.step = step]
         IN  d \in Cycles /\ d.step = step /\ d.left = c.left /\ d.msg = c.msg
BY DEF Cycles

LEMMA SetMsg ==
  ASSUME NEW c \in Cycles, NEW m \in 0..MaxMessages
  PROVE  LET d == [c EXCEPT !.msg = m]
         IN  d \in Cycles /\ d.msg = m /\ d.step = c.step /\ d.left = c.left
BY DEF Cycles

LEMMA NoCycleYet == Messages!NoCycle \in Cycles /\ Messages!NoCycle.step = "idle"
BY BoundAssumption DEF Messages!NoCycle, Cycles, Messages!Steps

LEMMA NoReplyYet == Messages!NoReply \in Replies /\ Messages!NoReply.step = "none"
BY BoundAssumption DEF Messages!NoReply, Replies

\* A message that is fetched or delivered by a webhook is known and dated.
LEMMA StoredRow ==
  ASSUME NEW r \in Messages!Rows, NEW t \in 0..MaxMessages
  PROVE  LET w == [r EXCEPT !.known = TRUE, !.at = t]
             f == [r EXCEPT !.known = TRUE, !.at = t, !.late = FALSE]
         IN  /\ w \in Messages!Rows /\ w.known /\ w.late = r.late
             /\ f \in Messages!Rows /\ f.known /\ ~f.late
<1> DEFINE k == [r EXCEPT !.known = TRUE]
           w == [k EXCEPT !.at = t]
           f == [w EXCEPT !.late = FALSE]
<1>1. k \in Messages!Rows /\ k.known /\ k.late = r.late
  BY DEF Messages!Rows
<1> HIDE DEF k
<1>2. w \in Messages!Rows /\ w.known /\ w.late = r.late
  BY <1>1 DEF Messages!Rows
<1> HIDE DEF w
<1>3. f \in Messages!Rows /\ f.known /\ ~f.late
  BY <1>2 DEF Messages!Rows
<1> USE DEF k, w
<1>4. [r EXCEPT !.known = TRUE, !.at = t] = w /\ [r EXCEPT !.known = TRUE, !.at = t, !.late = FALSE] = f
  OBVIOUS
<1> HIDE DEF w, f
<1> QED BY <1>2, <1>3, <1>4

LEMMA InboxInit == Messages!Init => InboxInv
<1> SUFFICES ASSUME Messages!Init PROVE InboxInv
  OBVIOUS
<1>1. cycle = Messages!NoCycle /\ cycle \in Cycles /\ cycle.step = "idle"
  BY NoCycleYet DEF Messages!Init
<1>2. answer \in Replies /\ answer.step = "none"
  BY NoReplyYet DEF Messages!Init
<1>3. \A m \in 1..MaxMessages : notified[m] = 0 /\ told[m] = 0 /\ row[m].known = FALSE /\ row[m].late = FALSE
  BY DEF Messages!Init, Messages!Messages
<1>4. row \in [1..MaxMessages -> Messages!Rows]
  <2>1. [known |-> FALSE, at |-> 0, waits |-> TRUE, late |-> FALSE] \in Messages!Rows
    BY BoundAssumption DEF Messages!Rows
  <2> QED BY <2>1 DEF Messages!Init, Messages!Messages
<1>5. Messages!TypeOK
  BY <1>1, <1>2, <1>4, BoundAssumption DEF Messages!Init, Messages!TypeOK, Messages!Messages, Cycles, Replies
<1>6. recorded = 0 /\ delivered = 0 /\ kills = 0
  BY DEF Messages!Init
<1> QED BY <1>1, <1>2, <1>3, <1>5, <1>6
        DEF InboxInv, Cycling, Replying, Counts, Noticing, Telling, Marked, Stored, Recording

\* A step that changes what is listed here only.
LEMMA InboxStays ==
  ASSUME InboxInv, Messages!TypeOK',
         UNCHANGED <<row, cycle, answer, kills, notified, told, delivered, recorded>>
  PROVE  InboxInv'
BY DEF InboxInv, Cycling, Replying, Counts, Noticing, Telling, Marked, Stored, Recording

\* A step of the cycle or of a webhook, which has nothing to do with replies.
LEMMA RepliesStay ==
  ASSUME InboxInv, Messages!TypeOK', Cycling', \A m \in 1..MaxMessages : Counts(m)',
         UNCHANGED <<answer, delivered, recorded>>
  PROVE  InboxInv'
BY DEF InboxInv, Replying, Recording

\* The cycle moves between steps at which it neither creates nor tells.
Silent == cycle.step \notin {"created", "told"}
LEMMA CycleMoves ==
  ASSUME InboxInv, Messages!TypeOK', Silent, cycle'.step \notin {"created", "told"},
         cycle'.step = "late" => \A m \in cycle'.left : ~row[m].late,
         UNCHANGED <<row, answer, notified, told, delivered, recorded, kills>>
  PROVE  InboxInv'
<1>1. Cycling'
  BY DEF Cycling
<1>2. \A m \in 1..MaxMessages : Counts(m)'
  BY DEF InboxInv, Counts, Noticing, Telling, Marked, Stored, Silent
<1> QED BY <1>1, <1>2, RepliesStay

LEMMA InboxNext == InboxInv /\ [Messages!Next]_Messages!vars => InboxInv'
<1> SUFFICES ASSUME InboxInv, [Messages!Next]_Messages!vars PROVE InboxInv'
  OBVIOUS
<1>0. /\ Messages!TypeOK /\ Cycling /\ Replying
      /\ \A m \in 1..MaxMessages : Counts(m)
  BY DEF InboxInv
<1>a. /\ posted \in 0..MaxMessages /\ row \in [1..MaxMessages -> Messages!Rows]
      /\ cycle \in Cycles /\ answer \in Replies /\ kills \in 0..MaxKills
      /\ notified \in [1..MaxMessages -> 0..2] /\ told \in [1..MaxMessages -> Nat]
      /\ overdue \subseteq 1..MaxMessages /\ silent \subseteq 1..MaxMessages
      /\ passed \subseteq 1..MaxMessages
      /\ delivered \in 0..MaxReplies /\ recorded \in 0..MaxReplies
  BY <1>0 DEF Messages!TypeOK, Messages!Messages, Cycles, Replies
<1>b. /\ cycle.step \in Messages!Steps /\ cycle.left \subseteq 1..MaxMessages
      /\ cycle.msg \in 0..MaxMessages
  BY <1>a DEF Cycles
<1>c. \A m \in 1..MaxMessages : row[m] \in Messages!Rows /\ row[m].known \in BOOLEAN /\ row[m].late \in BOOLEAN
  BY <1>a DEF Messages!Rows
<1>d. \A m \in 1..MaxMessages : Stored(m) \in {0, 1} /\ Marked(m) \in {0, 1} /\ notified[m] \in 0..2
                                /\ Noticing(m) \in {0, 1} /\ Telling(m) \in {0, 1} /\ told[m] \in Nat
  BY <1>a DEF Stored, Marked, Noticing, Telling
<1>m. \A m \in 1..MaxMessages : m \in 0..MaxMessages
  OBVIOUS
<1>n. Messages!Posted \subseteq 1..MaxMessages
  BY <1>a, BoundAssumption DEF Messages!Posted
<1>e. \A t : Messages!Behind(t) \subseteq 1..MaxMessages
  BY <1>n DEF Messages!Behind
<1>1. CASE Messages!Post
  <2>1. posted < MaxMessages /\ posted' = posted + 1
        /\ UNCHANGED <<filters, row, overdue, cycle, kills, notified, silent, passed, told,
                       answer, delivered, recorded>>
    BY <1>1 DEF Messages!Post, Messages!tells, Messages!replies
  <2>3. posted' \in 0..MaxMessages
    BY <1>a, <2>1, BoundAssumption
  <2>2. Messages!TypeOK'
    BY <1>0, <2>1, <2>3 DEF Messages!TypeOK
  <2> QED BY <2>1, <2>2, InboxStays
<1>2. ASSUME NEW m \in 1..MaxMessages, Messages!FallOverdue(m) PROVE InboxInv'
  <2>1. overdue' \subseteq 1..MaxMessages
        /\ UNCHANGED <<posted, filters, row, cycle, kills, notified, silent, passed, told,
                       answer, delivered, recorded>>
    BY <1>2, <1>a DEF Messages!FallOverdue, Messages!tells, Messages!replies
  <2>2. Messages!TypeOK'
    BY <1>0, <2>1 DEF Messages!TypeOK, Messages!Messages
  <2> QED BY <2>1, <2>2, InboxStays
<1>3. CASE Messages!Fetch
  <2> DEFINE L == IF filters THEN {m \in Messages!Posted : m >= Messages!Since} ELSE Messages!Posted
             mute == (Messages!Known = {})
  <2>1. L \in SUBSET (1..MaxMessages) /\ mute \in BOOLEAN
    BY <1>n
  <2> HIDE DEF L, mute
  <2>2. /\ cycle.step = "idle" /\ cycle' = [step |-> "sync", msg |-> 0, mute |-> mute, left |-> L]
        /\ UNCHANGED <<posted, filters, row, overdue, kills, notified, silent, passed, told,
                       answer, delivered, recorded>>
    BY <1>3 DEF Messages!Fetch, Messages!tells, Messages!replies, L, mute
  <2>3. cycle' \in Cycles /\ cycle'.step = "sync"
    BY <2>1, <2>2, BoundAssumption DEF Cycles, Messages!Steps
  <2>4. Messages!TypeOK'
    BY <1>0, <2>2, <2>3 DEF Messages!TypeOK, Messages!Messages, Cycles
  <2> QED BY <2>2, <2>3, <2>4, CycleMoves DEF Silent
<1>4. ASSUME NEW m \in 1..MaxMessages, Messages!Upsert(m) PROVE InboxInv'
  <2> DEFINE f == [row[m] EXCEPT !.known = TRUE, !.at = m, !.late = FALSE]
             a == [cycle EXCEPT !.left = cycle.left \ {m}]
             b == [a EXCEPT !.step = "created"]
             c == [b EXCEPT !.msg = m]
  <2>1. f \in Messages!Rows /\ f.known /\ ~f.late
    BY <1>c, <1>m, StoredRow
  <2>2. a \in Cycles /\ a.step = cycle.step
    BY <1>a, <1>b, SetLeft
  <2> HIDE DEF a
  <2>3. b \in Cycles /\ b.step = "created"
    BY <2>2, SetStep DEF Messages!Steps
  <2> HIDE DEF b
  <2>4. c \in Cycles /\ c.step = "created" /\ c.msg = m
    BY <2>3, SetMsg
  <2>5. /\ cycle.step = "sync"
        /\ row' = [row EXCEPT ![m] = f] /\ told' = [told EXCEPT ![m] = 0]
        /\ cycle' = a \/ (cycle' = c /\ ~row[m].known)
        /\ silent' \subseteq silent \cup {m}
        /\ UNCHANGED <<posted, filters, overdue, kills, notified, passed, answer, delivered, recorded>>
    BY <1>4 DEF Messages!Upsert, Messages!replies, a, b
  <2> HIDE DEF c, f
  <2>6. /\ row' \in [1..MaxMessages -> Messages!Rows] /\ row'[m] = f
        /\ told' \in [1..MaxMessages -> Nat] /\ told'[m] = 0
        /\ \A z \in 1..MaxMessages : z # m => row'[z] = row[z] /\ told'[z] = told[z]
    BY <1>a, <2>1, <2>5
  <2>7. cycle' \in Cycles /\ cycle'.step \in {"sync", "created"}
        /\ (cycle'.step = "created" => cycle'.msg = m /\ ~row[m].known)
    BY <2>2, <2>4, <2>5
  <2>8. Messages!TypeOK'
    BY <1>0, <2>5, <2>6, <2>7 DEF Messages!TypeOK, Messages!Messages, Cycles
  <2>9. Cycling'
    BY <2>7 DEF Cycling
  <2>10. ASSUME NEW z \in 1..MaxMessages PROVE Counts(z)'
    <3>1. Noticing(z) = 0 /\ Telling(z) = 0 /\ Telling(z)' = 0
      BY <2>5, <2>7 DEF Noticing, Telling
    <3>2. Counts(z)
      BY <1>0
    <3>3. CASE z # m
      <4>1. Noticing(z)' = 0
        BY <2>7, <3>3 DEF Noticing
      <4> QED BY <2>5, <2>6, <3>1, <3>2, <3>3, <4>1 DEF Counts, Marked, Stored
    <3>4. CASE z = m
      <4>1. Stored(z)' = 1 /\ Marked(z)' = 0 /\ told'[z] = 0
        BY <2>1, <2>6, <3>4 DEF Stored, Marked
      <4>2. Noticing(z)' = 0 \/ (Noticing(z)' = 1 /\ Stored(z) = 0)
        BY <2>7, <3>4 DEF Noticing, Stored
      <4>3. notified'[z] + Noticing(z)' <= 1
        BY <1>d, <2>5, <3>1, <3>2, <4>2 DEF Counts
      <4> QED BY <1>a, <2>5, <3>1, <4>1, <4>3 DEF Counts
    <3> QED BY <3>3, <3>4
  <2> QED BY <2>5, <2>8, <2>9, <2>10, RepliesStay
<1>5. CASE Messages!NotifyNew
  <2> DEFINE m == cycle.msg
             a == [cycle EXCEPT !.step = "sync"]
             b == [a EXCEPT !.msg = 0]
             n == IF notified[m] < 2 THEN notified[m] + 1 ELSE notified[m]
  <2>1. cycle.step = "created" /\ m \in 1..MaxMessages
    BY <1>0, <1>5 DEF Messages!NotifyNew, Cycling
  <2>2. a \in Cycles /\ a.step = "sync"
    BY <1>a, SetStep DEF Messages!Steps
  <2> HIDE DEF a
  <2>3. b \in Cycles /\ b.step = "sync"
    BY <2>2, SetMsg, BoundAssumption
  <2>4. /\ notified' = [notified EXCEPT ![m] = n] /\ cycle' = b
        /\ UNCHANGED <<posted, filters, row, overdue, kills, silent, passed, told,
                       answer, delivered, recorded>>
    BY <1>5 DEF Messages!NotifyNew, Messages!Notice, Messages!replies, a
  <2>5. Noticing(m) = 1 /\ \A z \in 1..MaxMessages : z # m => Noticing(z) = 0
    BY <2>1 DEF Noticing
  <2>6. n = notified[m] + 1 /\ n \in 0..2
    BY <1>0, <1>d, <2>1, <2>5 DEF Counts
  <2> HIDE DEF b, n
  <2>7. /\ notified' \in [1..MaxMessages -> 0..2] /\ notified'[m] = n
        /\ \A z \in 1..MaxMessages : z # m => notified'[z] = notified[z]
    BY <1>a, <2>1, <2>4, <2>6
  <2>8. Messages!TypeOK'
    BY <1>0, <2>3, <2>4, <2>7 DEF Messages!TypeOK, Messages!Messages, Cycles
  <2>9. Cycling'
    BY <2>3, <2>4 DEF Cycling
  <2>10. ASSUME NEW z \in 1..MaxMessages PROVE Counts(z)'
    <3>1. Counts(z)
      BY <1>0
    <3>2. Noticing(z)' = 0 /\ Telling(z)' = 0 /\ Telling(z) = 0 /\ Stored(z)' = Stored(z) /\ Marked(z)' = Marked(z)
      BY <2>1, <2>3, <2>4 DEF Noticing, Telling, Stored, Marked
    <3>3. notified'[z] = notified[z] + Noticing(z)
      BY <1>d, <2>5, <2>6, <2>7
    <3>4. notified'[z] \in Nat
      BY <2>7
    <3> QED BY <2>4, <3>1, <3>2, <3>3, <3>4 DEF Counts
  <2> QED BY <2>4, <2>8, <2>9, <2>10, RepliesStay
<1>6. CASE Messages!Scan
  <2> DEFINE L == {m \in Messages!Known \cap overdue : row[m].waits /\ ~row[m].late}
             a == [Messages!NoCycle EXCEPT !.step = "late"]
             b == [a EXCEPT !.left = L]
  <2>1. L \in SUBSET (1..MaxMessages) /\ \A m \in L : ~row[m].late
    BY <1>a
  <2>2. a \in Cycles /\ a.step = "late"
    BY NoCycleYet, SetStep DEF Messages!Steps
  <2> HIDE DEF a, L
  <2>3. b \in Cycles /\ b.step = "late" /\ b.left = L
    BY <2>1, <2>2, SetLeft
  <2>4. /\ cycle.step = "sync" /\ cycle' = b
        /\ UNCHANGED <<posted, filters, row, overdue, kills, notified, silent, passed, told,
                       answer, delivered, recorded>>
    BY <1>6 DEF Messages!Scan, Messages!tells, Messages!replies, a, L
  <2>5. Messages!TypeOK'
    BY <1>0, <2>3, <2>4 DEF Messages!TypeOK, Messages!Messages, Cycles
  <2> HIDE DEF b
  <2> QED BY <2>1, <2>3, <2>4, <2>5, CycleMoves DEF Silent
<1>7. ASSUME NEW m \in 1..MaxMessages, Messages!Tell(m) PROVE InboxInv'
  <2> DEFINE a == [cycle EXCEPT !.left = cycle.left \ {m}]
             b == [a EXCEPT !.step = "told"]
             c == [b EXCEPT !.msg = m]
  <2>1. a \in Cycles /\ a.left = cycle.left \ {m}
    BY <1>a, <1>b, SetLeft
  <2> HIDE DEF a
  <2>2. b \in Cycles /\ b.step = "told" /\ b.left = cycle.left \ {m}
    BY <2>1, SetStep DEF Messages!Steps
  <2> HIDE DEF b
  <2>3. c \in Cycles /\ c.step = "told" /\ c.left = cycle.left \ {m} /\ c.msg = m
    BY <2>2, SetMsg
  <2>4. /\ cycle.step = "late" /\ m \in cycle.left
        /\ told' = [told EXCEPT ![m] = told[m] + 1] /\ cycle' = c
        /\ UNCHANGED <<posted, filters, row, overdue, kills, notified, silent, passed,
                       answer, delivered, recorded>>
    BY <1>7 DEF Messages!Tell, Messages!replies, a, b
  <2> HIDE DEF c
  <2>5. /\ told' \in [1..MaxMessages -> Nat] /\ told'[m] = told[m] + 1
        /\ \A z \in 1..MaxMessages : z # m => told'[z] = told[z]
    BY <1>a, <2>4
  <2>6. Messages!TypeOK'
    BY <1>0, <2>3, <2>4, <2>5 DEF Messages!TypeOK, Messages!Messages, Cycles
  <2>7. \A z \in cycle.left : ~row[z].late
    BY <1>0, <2>4 DEF Cycling
  <2>8. Cycling'
    BY <2>3, <2>4, <2>7 DEF Cycling
  <2>9. ASSUME NEW z \in 1..MaxMessages PROVE Counts(z)'
    <3>1. Counts(z)
      BY <1>0
    <3>2. /\ Noticing(z)' = 0 /\ Noticing(z) = 0 /\ Stored(z)' = Stored(z) /\ Marked(z)' = Marked(z)
          /\ Telling(z) = 0 /\ Telling(z)' = IF z = m THEN 1 ELSE 0
      BY <2>3, <2>4 DEF Noticing, Telling, Stored, Marked
    <3> QED BY <1>a, <1>d, <2>4, <2>5, <3>1, <3>2 DEF Counts
  <2> QED BY <2>4, <2>6, <2>8, <2>9, RepliesStay
<1>8. CASE Messages!Mark
  <2> DEFINE m == cycle.msg
             r == [row[m] EXCEPT !.late = TRUE]
             a == [cycle EXCEPT !.step = "late"]
             b == [a EXCEPT !.msg = 0]
  <2>1. cycle.step = "told" /\ m \in 1..MaxMessages /\ ~row[m].late
    BY <1>0, <1>8 DEF Messages!Mark, Cycling
  <2>2. r \in Messages!Rows /\ r.late /\ r.known = row[m].known
    BY <1>c, <2>1 DEF Messages!Rows
  <2>3. a \in Cycles /\ a.step = "late" /\ a.left = cycle.left
    BY <1>a, SetStep DEF Messages!Steps
  <2> HIDE DEF a
  <2>4. b \in Cycles /\ b.step = "late" /\ b.left = cycle.left
    BY <2>3, SetMsg, BoundAssumption
  <2>5. /\ row' = [row EXCEPT ![m] = r] /\ cycle' = b
        /\ UNCHANGED <<posted, filters, overdue, kills, notified, silent, passed, told,
                       answer, delivered, recorded>>
    BY <1>8 DEF Messages!Mark, Messages!tells, Messages!replies, a
  <2> HIDE DEF b, r
  <2>6. /\ row' \in [1..MaxMessages -> Messages!Rows] /\ row'[m] = r
        /\ \A z \in 1..MaxMessages : z # m => row'[z] = row[z]
    BY <1>a, <2>1, <2>2, <2>5
  <2>7. Messages!TypeOK'
    BY <1>0, <2>4, <2>5, <2>6 DEF Messages!TypeOK, Messages!Messages, Cycles
  <2>8. \A z \in cycle.left : z # m /\ ~row[z].late
    BY <1>0, <2>1 DEF Cycling
  <2>9. Cycling'
    BY <1>b, <2>4, <2>5, <2>6, <2>8 DEF Cycling
  <2>10. ASSUME NEW z \in 1..MaxMessages PROVE Counts(z)'
    <3>1. Counts(z)
      BY <1>0
    <3>2. Noticing(z)' = 0 /\ Noticing(z) = 0 /\ Telling(z)' = 0 /\ Telling(z) = IF z = m THEN 1 ELSE 0
      BY <2>1, <2>4, <2>5 DEF Noticing, Telling
    <3>3. Stored(z)' = Stored(z) /\ (z = m => Marked(z)' = 1 /\ Marked(z) = 0) /\ (z # m => Marked(z)' = Marked(z))
      BY <2>1, <2>2, <2>6 DEF Stored, Marked
    <3> QED BY <1>a, <1>d, <2>5, <3>1, <3>2, <3>3 DEF Counts
  <2> QED BY <2>5, <2>7, <2>9, <2>10, RepliesStay
<1>9. CASE Messages!EndCycle
  <2>1. /\ cycle.step = "late" /\ cycle' = Messages!NoCycle
        /\ UNCHANGED <<posted, filters, row, overdue, kills, notified, silent, passed, told,
                       answer, delivered, recorded>>
    BY <1>9 DEF Messages!EndCycle, Messages!tells, Messages!replies
  <2>2. Messages!TypeOK'
    BY <1>0, <2>1, NoCycleYet DEF Messages!TypeOK, Messages!Messages, Cycles
  <2> QED BY <2>1, <2>2, NoCycleYet, CycleMoves DEF Silent
<1>10. CASE Messages!Kill
  <2>1. /\ cycle' = Messages!NoCycle /\ kills < MaxKills /\ kills' = kills + 1
        /\ silent' \subseteq silent \cup {cycle.msg} /\ (silent' # silent => cycle.step = "created")
        /\ passed' = passed \cup Messages!Behind(Messages!Since)
        /\ UNCHANGED <<posted, filters, row, overdue, notified, told, answer, delivered, recorded>>
    BY <1>10 DEF Messages!Kill, Messages!replies
  <2>2. silent' \subseteq 1..MaxMessages /\ passed' \subseteq 1..MaxMessages
    BY <1>0, <1>a, <1>e, <2>1 DEF Cycling
  <2>3. kills' \in 0..MaxKills
    BY <1>a, <2>1, BoundAssumption
  <2>4. Messages!TypeOK'
    BY <1>0, <2>1, <2>2, <2>3, NoCycleYet DEF Messages!TypeOK, Messages!Messages, Cycles
  <2>5. Cycling'
    BY <2>1, NoCycleYet DEF Cycling
  <2>6. ASSUME NEW z \in 1..MaxMessages PROVE Counts(z)'
    <3>1. Counts(z)
      BY <1>0
    <3>2. Noticing(z)' = 0 /\ Telling(z)' = 0 /\ Stored(z)' = Stored(z) /\ Marked(z)' = Marked(z)
      BY <2>1, NoCycleYet DEF Noticing, Telling, Stored, Marked
    <3> QED BY <1>a, <1>d, <2>1, <3>1, <3>2 DEF Counts
  <2> QED BY <2>1, <2>4, <2>5, <2>6, RepliesStay
<1>11. ASSUME NEW m \in 1..MaxMessages, Messages!CreateIfNew(m) PROVE InboxInv'
  <2> DEFINE w == [row[m] EXCEPT !.known = TRUE, !.at = posted]
             n == IF notified[m] < 2 THEN notified[m] + 1 ELSE notified[m]
  <2>1. w \in Messages!Rows /\ w.known /\ w.late = row[m].late
    BY <1>a, <1>c, StoredRow
  <2>2. /\ ~row[m].known /\ row' = [row EXCEPT ![m] = w]
        /\ notified' = notified \/ notified' = [notified EXCEPT ![m] = n]
        /\ silent' \subseteq silent \cup {m} /\ passed' = passed \cup (Messages!Behind(posted) \ {m})
        /\ UNCHANGED <<posted, filters, overdue, cycle, kills, told, answer, delivered, recorded>>
    BY <1>11 DEF Messages!CreateIfNew, Messages!Known, Messages!Messages, Messages!Notice, Messages!replies
  <2>3. Stored(m) = 0 /\ notified[m] = 0 /\ Noticing(m) = 0 /\ n = 1
    BY <1>0, <1>d, <2>2 DEF Stored, Counts
  <2> HIDE DEF w, n
  <2>4. /\ row' \in [1..MaxMessages -> Messages!Rows] /\ row'[m] = w
        /\ \A z \in 1..MaxMessages : z # m => row'[z] = row[z]
    BY <1>a, <2>1, <2>2
  <2>5. /\ notified' \in [1..MaxMessages -> 0..2] /\ notified'[m] \in {0, 1}
        /\ \A z \in 1..MaxMessages : z # m => notified'[z] = notified[z]
    <3>1. CASE notified' = notified
      BY <1>a, <2>3, <3>1
    <3>2. CASE notified' = [notified EXCEPT ![m] = n]
      BY <1>a, <2>3, <3>2
    <3> QED BY <2>2, <3>1, <3>2
  <2>6. silent' \subseteq 1..MaxMessages /\ passed' \subseteq 1..MaxMessages
    BY <1>a, <1>e, <2>2
  <2>7. Messages!TypeOK'
    BY <1>0, <2>2, <2>4, <2>5, <2>6 DEF Messages!TypeOK, Messages!Messages
  <2>8. \A z \in 1..MaxMessages : row'[z].late = row[z].late
    BY <2>1, <2>4
  <2>9. Cycling'
    BY <1>0, <1>b, <2>2, <2>8 DEF Cycling
  <2>10. ASSUME NEW z \in 1..MaxMessages PROVE Counts(z)'
    <3>1. Counts(z)
      BY <1>0
    <3>2. Noticing(z)' = Noticing(z) /\ Telling(z)' = Telling(z) /\ Marked(z)' = Marked(z)
      BY <2>2, <2>8 DEF Noticing, Telling, Marked
    <3>3. CASE z = m
      <4>1. Stored(z)' = 1
        BY <2>1, <2>4, <3>3 DEF Stored
      <4> QED BY <2>2, <2>3, <2>5, <3>1, <3>2, <3>3, <4>1 DEF Counts
    <3>4. CASE z # m
      <4>1. Stored(z)' = Stored(z) /\ notified'[z] = notified[z]
        BY <2>4, <2>5, <3>4 DEF Stored
      <4> QED BY <2>2, <3>1, <3>2, <4>1 DEF Counts
    <3> QED BY <3>3, <3>4
  <2> QED BY <2>2, <2>7, <2>9, <2>10, RepliesStay
<1>12. ASSUME NEW m \in 1..MaxMessages, Messages!Backfill(m) PROVE InboxInv'
  <2> DEFINE f == [row[m] EXCEPT !.known = TRUE, !.at = m, !.late = FALSE]
  <2>1. f \in Messages!Rows /\ f.known /\ ~f.late
    BY <1>c, <1>m, StoredRow
  <2>2. /\ row' = [row EXCEPT ![m] = f] /\ told' = [told EXCEPT ![m] = 0]
        /\ silent' \subseteq silent \cup {m} /\ passed' \subseteq passed \cup Messages!Behind(m)
        /\ UNCHANGED <<posted, filters, overdue, cycle, kills, notified, answer, delivered, recorded>>
    BY <1>12 DEF Messages!Backfill, Messages!replies
  <2> HIDE DEF f
  <2>3. /\ row' \in [1..MaxMessages -> Messages!Rows] /\ row'[m] = f
        /\ told' \in [1..MaxMessages -> Nat] /\ told'[m] = 0
        /\ \A z \in 1..MaxMessages : z # m => row'[z] = row[z] /\ told'[z] = told[z]
    BY <1>a, <2>1, <2>2
  <2>4. silent' \subseteq 1..MaxMessages /\ passed' \subseteq 1..MaxMessages
    BY <1>a, <1>e, <2>2
  <2>5. Messages!TypeOK'
    BY <1>0, <2>2, <2>3, <2>4 DEF Messages!TypeOK, Messages!Messages
  <2>6. \A z \in 1..MaxMessages : row'[z].late => row[z].late
    BY <2>1, <2>3
  <2>7. Cycling'
    BY <1>0, <1>b, <2>2, <2>6 DEF Cycling
  <2>8. ASSUME NEW z \in 1..MaxMessages PROVE Counts(z)'
    <3>1. Counts(z)
      BY <1>0
    <3>2. Noticing(z)' = Noticing(z) /\ Telling(z)' = Telling(z)
      BY <2>2 DEF Noticing, Telling
    <3>3. CASE z = m
      <4>1. Stored(z)' = 1 /\ Marked(z)' = 0
        BY <2>1, <2>3, <3>3 DEF Stored, Marked
      <4>2. notified[z] + Noticing(z) <= 1
        BY <1>d, <3>1 DEF Counts
      <4> QED BY <1>a, <1>d, <2>2, <2>3, <3>2, <3>3, <4>1, <4>2 DEF Counts
    <3>4. CASE z # m
      <4>1. Stored(z)' = Stored(z) /\ Marked(z)' = Marked(z) /\ told'[z] = told[z]
        BY <2>3, <3>4 DEF Stored, Marked
      <4> QED BY <2>2, <3>1, <3>2, <4>1 DEF Counts
    <3> QED BY <3>3, <3>4
  <2> QED BY <2>2, <2>5, <2>7, <2>8, RepliesStay
<1>13. ASSUME NEW m \in 1..MaxMessages, NEW wait \in BOOLEAN,
              row' = [row EXCEPT ![m] = [row[m] EXCEPT !.waits = wait]],
              UNCHANGED <<posted, filters, overdue, cycle, kills, notified, silent, passed, told>>
       PROVE  /\ row' \in [1..MaxMessages -> Messages!Rows] /\ Cycling'
              /\ \A z \in 1..MaxMessages : Counts(z)'
  <2> DEFINE r == [row[m] EXCEPT !.waits = wait]
  <2>1. r \in Messages!Rows /\ r.known = row[m].known /\ r.late = row[m].late
    BY <1>c DEF Messages!Rows
  <2> HIDE DEF r
  <2>2. /\ row' \in [1..MaxMessages -> Messages!Rows]
        /\ \A z \in 1..MaxMessages : row'[z].known = row[z].known /\ row'[z].late = row[z].late
    BY <1>13, <1>a, <2>1 DEF r
  <2>3. Cycling'
    BY <1>0, <1>13, <1>b, <2>2 DEF Cycling
  <2>4. \A z \in 1..MaxMessages : Counts(z)'
    BY <1>0, <1>13, <2>2 DEF Counts, Noticing, Telling, Marked, Stored
  <2> QED BY <2>2, <2>3, <2>4
<1>14. ASSUME NEW m \in 1..MaxMessages, Messages!SetStatus(m) PROVE InboxInv'
  <2>1. /\ row' = [row EXCEPT ![m] = [row[m] EXCEPT !.waits = ~row[m].waits]]
        /\ UNCHANGED <<posted, filters, overdue, cycle, kills, notified, silent, passed, told,
                       answer, delivered, recorded>>
    BY <1>14 DEF Messages!SetStatus, Messages!tells, Messages!replies
  <2>2. /\ row' \in [1..MaxMessages -> Messages!Rows] /\ Cycling'
        /\ \A z \in 1..MaxMessages : Counts(z)'
    BY <1>13, <2>1
  <2>3. Messages!TypeOK'
    BY <1>0, <2>1, <2>2 DEF Messages!TypeOK, Messages!Messages
  <2> QED BY <2>1, <2>2, <2>3, RepliesStay
<1>15. ASSUME NEW m \in 1..MaxMessages, Messages!Reply(m) PROVE InboxInv'
  <2>1. /\ answer.step = "none" /\ delivered < MaxReplies
        /\ answer' = [step |-> "asked", msg |-> m, seen |-> row[m].waits]
        /\ UNCHANGED <<posted, filters, row, overdue, cycle, kills, notified, silent, passed, told,
                       delivered, recorded>>
    BY <1>15 DEF Messages!Reply, Messages!tells
  <2>2. answer' \in Replies /\ answer'.step = "asked" /\ answer'.msg = m
    BY <1>c, <2>1 DEF Replies, Messages!Rows
  <2>3. Messages!TypeOK'
    BY <1>0, <2>1, <2>2 DEF Messages!TypeOK, Messages!Messages, Replies
  <2>4. Replying'
    BY <1>0, <2>1, <2>2 DEF Replying, Recording
  <2>5. Cycling' /\ \A z \in 1..MaxMessages : Counts(z)'
    BY <1>0, <2>1 DEF Cycling, Counts, Noticing, Telling, Marked, Stored
  <2> QED BY <2>3, <2>4, <2>5 DEF InboxInv
<1>16. CASE Messages!PlatformReply
  <2> DEFINE s == [answer EXCEPT !.step = "sent"]
  <2>1. s \in Replies /\ s.step = "sent" /\ s.msg = answer.msg
    BY <1>a DEF Replies
  <2>2. /\ answer.step = "asked"
        /\ \/ answer' = s /\ delivered' = delivered + 1
           \/ answer' = Messages!NoReply /\ delivered' \in {delivered, delivered + 1}
        /\ UNCHANGED <<posted, filters, row, overdue, cycle, kills, notified, silent, passed, told, recorded>>
    BY <1>16 DEF Messages!PlatformReply, Messages!tells
  <2> HIDE DEF s
  <2>3. answer' \in Replies /\ answer'.step \in {"sent", "none"}
        /\ (answer'.step = "sent" => answer'.msg = answer.msg /\ delivered' = delivered + 1)
    BY <2>1, <2>2, NoReplyYet
  <2>4. delivered' \in 0..MaxReplies /\ delivered' >= delivered
    BY <1>0, <1>a, <2>2, BoundAssumption DEF Replying
  <2>5. Messages!TypeOK'
    BY <1>0, <2>2, <2>3, <2>4 DEF Messages!TypeOK, Messages!Messages, Replies
  <2>6. recorded <= delivered
    BY <1>0, <1>a, <2>2 DEF Replying, Recording
  <2>7. Replying'
    BY <1>0, <1>a, <2>2, <2>3, <2>4, <2>6 DEF Replying, Recording
  <2>8. Cycling' /\ \A z \in 1..MaxMessages : Counts(z)'
    BY <1>0, <2>2 DEF Cycling, Counts, Noticing, Telling, Marked, Stored
  <2> QED BY <2>5, <2>7, <2>8 DEF InboxInv
<1>17. CASE Messages!RecordReply
  <2>1. /\ answer.step = "sent" /\ recorded' = recorded + 1 /\ answer' = Messages!NoReply
        /\ \/ row' = [row EXCEPT ![answer.msg] = [row[answer.msg] EXCEPT !.waits = FALSE]]
           \/ row' = [row EXCEPT ![answer.msg] = [row[answer.msg] EXCEPT !.waits = TRUE]]
           \/ UNCHANGED row
        /\ UNCHANGED <<posted, filters, overdue, cycle, kills, notified, silent, passed, told, delivered>>
    BY <1>17 DEF Messages!RecordReply, Messages!tells
  <2>2. answer.msg \in 1..MaxMessages /\ recorded + 1 <= delivered
    BY <1>0, <2>1 DEF Replying, Recording
  <2>7. recorded' = recorded + 1 /\ delivered' = delivered /\ answer'.step = "none"
    BY <2>1, NoReplyYet
  <2>3. /\ row' \in [1..MaxMessages -> Messages!Rows] /\ Cycling'
        /\ \A z \in 1..MaxMessages : Counts(z)'
    <3>1. CASE UNCHANGED row
      BY <1>0, <1>a, <2>1, <3>1 DEF Cycling, Counts, Noticing, Telling, Marked, Stored
    <3> QED BY <1>13, <2>1, <2>2, <3>1
  <2>4. recorded' \in 0..MaxReplies
    BY <1>a, <2>2, <2>7, BoundAssumption
  <2>5. Messages!TypeOK'
    BY <1>0, <2>1, <2>3, <2>4, NoReplyYet DEF Messages!TypeOK, Messages!Messages, Replies
  <2>6. Replying'
    BY <1>a, <2>2, <2>7 DEF Replying, Recording
  <2> QED BY <2>3, <2>5, <2>6 DEF InboxInv
<1>18. CASE UNCHANGED Messages!vars
  <2>1. Messages!TypeOK'
    BY <1>0, <1>18 DEF Messages!vars, Messages!TypeOK
  <2> QED BY <1>18, <2>1, InboxStays DEF Messages!vars
<1> QED BY <1>1, <1>2, <1>3, <1>4, <1>5, <1>6, <1>7, <1>8, <1>9, <1>10, <1>11, <1>12, <1>14, <1>15,
           <1>16, <1>17, <1>18 DEF Messages!Next, Messages!Messages


-----------------------------------------------------------------------------
(* The analytics.                                                          *)

Stays(d, n) == figures[d] # "none" \/ n \in excused[d]
Reach(n) == {d \in Figures!Days : n - d \in 0..provider.recent - 1}
\* The sync of day n got the figures it could, or could not get them.
Synced(n) == \A d \in Reach(n) : Stays(d, n)
Working == job.step # "idle"
AtAccount == job.step = "account"
\* A task outlives the day it began on by one hour.
Clocked ==
  Working => /\ Figures!Today \in {job.on, job.on + 1}
             /\ ~job.slow => Figures!Today = job.on
             /\ job.slow => ~ran
Dated ==
  /\ \A d \in Figures!Days : total[d] # 0 => total[d] \in {d, d + 1}
  /\ job.total # 0 => job.total \in {job.on, job.on + 1}
\* How old the post's snapshot may be, by how far the hour is.
Aged ==
  \/ missed
  \/ IF ~Working THEN IF ran THEN captured.own < Interval ELSE captured.own <= Interval
     ELSE IF job.slow THEN captured.own <= Interval + 1 ELSE captured.own <= Interval
\* Every day ends synced; a task at work has come as far as its offset.
Covered ==
  /\ \A n \in Figures!Days : n < Figures!Today => Synced(n)
  /\ \A d \in Figures!Days : d > Figures!Today => figures[d] = "none"
  /\ hour = 2 * Figures!Today - 1 =>
       Synced(Figures!Today) \/ (AtAccount /\ job.slow /\ job.on = Figures!Today)
  /\ figures[Figures!Today] # "none" =>
       Synced(Figures!Today) \/ (AtAccount /\ job.on = Figures!Today)
  /\ AtAccount => \A d \in Reach(job.on) : job.on - d < job.offset => Stays(d, job.on)
  /\ job.step \in {"batch", "posts"} => Synced(job.on)
  /\ ~Working /\ ran => Synced(Figures!Today)

FiguresInv == Figures!TypeOK /\ Clocked /\ Dated /\ Aged /\ Covered

Syncs == [step: {"idle", "account", "batch", "posts"}, task: {"hourly", "backfill"}, on: Figures!Days,
          offset: 0..RecentDays, flag: BOOLEAN, total: 0..MaxDays, slow: BOOLEAN]
Ages == [own: 0..Interval + 2, batch: 0..Interval + 2]

LEMMA FiguresTypes ==
  Figures!TypeOK <=> /\ provider \in Figures!Providers /\ hour \in Figures!Hours /\ ran \in BOOLEAN
                     /\ figures \in [Figures!Days -> {"none", "total", "figures"}]
                     /\ total \in [Figures!Days -> 0..MaxDays]
                     /\ captured \in Ages /\ flag \in BOOLEAN /\ backfill \in BOOLEAN
                     /\ job \in Syncs
                     /\ excused \in [Figures!Days -> SUBSET Figures!Days] /\ missed \in BOOLEAN
BY DEF Figures!TypeOK, Syncs, Ages, Figures!Steps, Figures!Tasks

LEMMA Dates ==
  ASSUME Figures!TypeOK
  PROVE  /\ Figures!Today \in Figures!Days /\ Figures!Days = 1..MaxDays
         /\ hour \in {2 * Figures!Today - 2, 2 * Figures!Today - 1}
         /\ provider.recent \in 1..RecentDays /\ RecentDays \in Nat /\ MaxDays \in Nat \ {0}
<1>1. hour \in Int /\ 0 <= hour /\ hour <= MaxDays * 2 - 1 /\ MaxDays \in Nat /\ MaxDays # 0
  BY BoundAssumption DEF Figures!TypeOK, Figures!Hours, Figures!HoursPerDay
<1>2. Figures!Today = hour \div 2 + 1
  BY DEF Figures!Today, Figures!HoursPerDay
<1>3. Figures!Today \in Int /\ hour \in {2 * Figures!Today - 2, 2 * Figures!Today - 1}
  BY <1>1, <1>2
<1>4. Figures!Today \in 1..MaxDays
  BY <1>1, <1>3
<1>5. provider.recent \in 1..RecentDays
  BY BoundAssumption DEF Figures!TypeOK, Figures!Providers
<1> QED BY <1>1, <1>3, <1>4, <1>5, BoundAssumption DEF Figures!Days

LEMMA FiguresIdle ==
  /\ Figures!Idle \in Syncs /\ Figures!Idle.step = "idle" /\ Figures!Idle.total = 0
  /\ Figures!Idle.on = 1 /\ Figures!Idle.slow = FALSE
BY BoundAssumption DEF Figures!Idle, Syncs, Figures!Days

\* A task that starts works on today.
LEMMA TaskStarts ==
  ASSUME Figures!TypeOK, NEW task \in {"hourly", "backfill"}, NEW step \in {"account", "posts"},
         Figures!Read(task, step)
  PROVE  /\ job' \in Syncs /\ job'.step = step /\ job'.task = task /\ job'.on = Figures!Today
         /\ job'.offset = 0 /\ job'.total = 0 /\ job'.slow = FALSE
<1> DEFINE f == flag
           t == Figures!Today
<1>1. f \in BOOLEAN /\ t \in Figures!Days
  BY Dates DEF Figures!TypeOK
<1>2. job' = [Figures!Idle EXCEPT !.step = step, !.task = task, !.on = t, !.flag = f]
  BY DEF Figures!Read
<1> HIDE DEF f, t
<1>3. job' = [step |-> step, task |-> task, on |-> t, offset |-> 0, flag |-> f, total |-> 0, slow |-> FALSE]
  BY <1>2 DEF Figures!Idle
<1>4. /\ job' \in Syncs /\ job'.step = step /\ job'.task = task /\ job'.on = t
      /\ job'.offset = 0 /\ job'.total = 0 /\ job'.slow = FALSE
  BY <1>1, <1>3, BoundAssumption DEF Syncs
<1> QED BY <1>4 DEF t

\* A task at work keeps its day; what it changes else.
LEMMA TaskSteps ==
  ASSUME NEW j \in Syncs, NEW step \in {"idle", "account", "batch", "posts"}
  PROVE  LET k == [j EXCEPT !.step = step] IN
           /\ k \in Syncs /\ k.step = step /\ k.on = j.on
           /\ k.offset = j.offset /\ k.total = j.total /\ k.slow = j.slow
BY DEF Syncs

LEMMA TaskFlagged ==
  ASSUME NEW j \in Syncs
  PROVE  LET k == [j EXCEPT !.step = "posts", !.flag = TRUE] IN
           /\ k \in Syncs /\ k.step = "posts" /\ k.on = j.on
           /\ k.offset = j.offset /\ k.total = j.total /\ k.slow = j.slow
BY DEF Syncs

LEMMA TaskSlows ==
  ASSUME NEW j \in Syncs
  PROVE  LET k == [j EXCEPT !.slow = TRUE] IN
           /\ k \in Syncs /\ k.step = j.step /\ k.on = j.on
           /\ k.offset = j.offset /\ k.total = j.total /\ k.slow
BY DEF Syncs

LEMMA TaskMoves ==
  ASSUME NEW j \in Syncs, NEW o \in 0..RecentDays, NEW t \in 0..MaxDays
  PROVE  /\ LET k == [j EXCEPT !.offset = o] IN
              /\ k \in Syncs /\ k.step = j.step /\ k.on = j.on
              /\ k.offset = o /\ k.total = j.total /\ k.slow = j.slow
         /\ LET k == [j EXCEPT !.offset = o, !.total = t] IN
              /\ k \in Syncs /\ k.step = j.step /\ k.on = j.on
              /\ k.offset = o /\ k.total = t /\ k.slow = j.slow
<1>1. LET k == [j EXCEPT !.offset = o] IN
        /\ k \in Syncs /\ k.step = j.step /\ k.on = j.on
        /\ k.offset = o /\ k.total = j.total /\ k.slow = j.slow
  BY DEF Syncs
<1>2. LET k == [j EXCEPT !.offset = o, !.total = t] IN
        /\ k \in Syncs /\ k.step = j.step /\ k.on = j.on
        /\ k.offset = o /\ k.total = t /\ k.slow = j.slow
  BY DEF Syncs
<1> QED BY <1>1, <1>2

LEMMA FiguresInit == Figures!Init => FiguresInv
<1> SUFFICES ASSUME Figures!Init PROVE FiguresInv
  OBVIOUS
<1>1. /\ provider \in Figures!Providers /\ hour = 0 /\ ran = FALSE
      /\ figures = [d \in Figures!Days |-> "none"] /\ total = [d \in Figures!Days |-> 0]
      /\ captured = [own |-> Interval, batch |-> Interval]
      /\ flag = FALSE /\ backfill = TRUE /\ job = Figures!Idle
      /\ excused = [d \in Figures!Days |-> {}] /\ missed = FALSE
  BY DEF Figures!Init
<1>2. captured \in Ages
  BY <1>1, BoundAssumption DEF Ages
<1>3. hour \in Figures!Hours
  BY <1>1, BoundAssumption DEF Figures!Hours, Figures!HoursPerDay
<1>4. total \in [Figures!Days -> 0..MaxDays]
  BY <1>1, BoundAssumption
<1>5. Figures!TypeOK
  BY <1>1, <1>2, <1>3, <1>4, FiguresIdle, FiguresTypes
<1>6. Figures!Today = 1
  BY <1>1, <1>5, Dates
<1>7. ~Working /\ job.total = 0
  BY <1>1, FiguresIdle DEF Working
<1>8. Covered
  BY <1>1, <1>5, <1>6, <1>7, Dates DEF Covered, Working, AtAccount
<1>9. Clocked /\ Dated
  BY <1>1, <1>7 DEF Clocked, Dated
<1>10. Aged
  BY <1>1, <1>7, BoundAssumption DEF Aged
<1> QED BY <1>5, <1>8, <1>9, <1>10 DEF FiguresInv

\* The window of a task has a day to fetch, or the task came to its end.
LEMMA Windows ==
  ASSUME Figures!TypeOK, AtAccount
  PROVE  /\ Figures!InWindow => /\ Figures!Target \in Reach(job.on) /\ job.on - Figures!Target = job.offset
                                /\ job.offset + 1 \in 0..RecentDays
                                /\ \A d \in Figures!Days : d <= job.on /\ job.on - d = job.offset => d = Figures!Target
         /\ ~Figures!InWindow => \A d \in Reach(job.on) : job.on - d < job.offset
<1>1. job.on \in 1..MaxDays /\ job.offset \in 0..RecentDays /\ MaxDays \in Nat /\ RecentDays \in Nat
      /\ provider.recent \in 1..RecentDays /\ Figures!Days = 1..MaxDays
  BY Dates, FiguresTypes DEF Syncs
<1>2. Figures!Target = job.on - job.offset
      /\ (Figures!InWindow <=> job.offset < provider.recent /\ Figures!Target >= 1)
  BY DEF Figures!Target, Figures!InWindow, AtAccount
<1>3. ASSUME Figures!InWindow
      PROVE  /\ Figures!Target \in Reach(job.on) /\ job.on - Figures!Target = job.offset
             /\ job.offset + 1 \in 0..RecentDays
             /\ \A d \in Figures!Days : d <= job.on /\ job.on - d = job.offset => d = Figures!Target
  <2>1. Figures!Target \in Figures!Days /\ job.on - Figures!Target = job.offset
    BY <1>1, <1>2, <1>3
  <2>2. job.offset \in 0..provider.recent - 1 /\ job.offset + 1 \in 0..RecentDays
    BY <1>1, <1>2, <1>3
  <2>3. Figures!Target \in Reach(job.on)
    BY <2>1, <2>2 DEF Reach
  <2>4. \A d \in Figures!Days : d <= job.on /\ job.on - d = job.offset => d = Figures!Target
    BY <1>1, <1>2
  <2> QED BY <2>1, <2>2, <2>3, <2>4
<1>4. ASSUME ~Figures!InWindow PROVE \A d \in Reach(job.on) : job.on - d < job.offset
  BY <1>1, <1>2, <1>4 DEF Reach
<1> QED BY <1>3, <1>4

\* What excuses some days at day `on` forgets no figures and no excuse.
LEMMA Excusing ==
  ASSUME Figures!TypeOK, NEW rows \in [Figures!Days -> {"none", "total", "figures"}],
         \A d \in Figures!Days : figures[d] # "none" => rows[d] # "none",
         NEW D, NEW on \in Figures!Days,
         figures' = rows, provider' = provider, Figures!Excuse(rows, D, on)
  PROVE  /\ excused' \in [Figures!Days -> SUBSET Figures!Days]
         /\ \A d, n \in Figures!Days : Stays(d, n) => Stays(d, n)'
         /\ \A n : n = on => \A d \in Reach(n) : d \in D => Stays(d, n)'
<1>1. excused' = [d \in Figures!Days |->
                    IF rows[d] # "none" THEN {}
                    ELSE IF d \in D /\ on - d \in 0..provider.recent - 1 THEN excused[d] \cup {on}
                    ELSE excused[d]]
  BY DEF Figures!Excuse
<1>2. excused \in [Figures!Days -> SUBSET Figures!Days]
  BY FiguresTypes
<1>3. excused' \in [Figures!Days -> SUBSET Figures!Days]
  BY <1>1, <1>2
<1>4. ASSUME NEW d \in Figures!Days, NEW n \in Figures!Days, Stays(d, n) PROVE Stays(d, n)'
  <2>1. CASE rows[d] # "none"
    BY <2>1 DEF Stays
  <2>2. CASE rows[d] = "none"
    <3>1. figures[d] = "none" /\ n \in excused[d]
      BY <1>4, <2>2 DEF Stays
    <3>2. excused[d] \subseteq excused'[d]
      BY <1>1, <2>2
    <3> QED BY <3>1, <3>2 DEF Stays
  <2> QED BY <2>1, <2>2
<1>5. ASSUME NEW n, n = on, NEW d \in Reach(n), d \in D PROVE Stays(d, n)'
  <2>1. d \in Figures!Days /\ on - d \in 0..provider.recent - 1
    BY <1>5 DEF Reach
  <2>2. rows[d] = "none" => on \in excused'[d]
    BY <1>1, <1>5, <2>1
  <2> QED BY <1>5, <2>2 DEF Stays
<1> QED BY <1>3, <1>4, <1>5

\* The types are kept by each action.
LEMMA FiguresTypeNext == Figures!TypeOK /\ [Figures!Next]_Figures!vars => Figures!TypeOK'
<1> SUFFICES ASSUME Figures!TypeOK, [Figures!Next]_Figures!vars PROVE Figures!TypeOK'
  OBVIOUS
<1>0. /\ provider \in Figures!Providers /\ hour \in Figures!Hours /\ ran \in BOOLEAN
      /\ figures \in [Figures!Days -> {"none", "total", "figures"}]
      /\ total \in [Figures!Days -> 0..MaxDays]
      /\ captured \in Ages /\ flag \in BOOLEAN /\ backfill \in BOOLEAN
      /\ job \in Syncs
      /\ excused \in [Figures!Days -> SUBSET Figures!Days] /\ missed \in BOOLEAN
  BY FiguresTypes
<1>d. /\ Figures!Today \in Figures!Days /\ Figures!Days = 1..MaxDays /\ MaxDays \in Nat /\ RecentDays \in Nat
      /\ Interval \in Nat
      /\ job.on \in Figures!Days /\ job.offset \in 0..RecentDays /\ job.total \in 0..MaxDays
  BY <1>0, Dates, BoundAssumption DEF Syncs
<1>s. ASSUME provider' = provider, hour' \in Figures!Hours, ran' \in BOOLEAN,
             figures' \in [Figures!Days -> {"none", "total", "figures"}],
             total' \in [Figures!Days -> 0..MaxDays],
             captured' \in Ages, flag' \in BOOLEAN, backfill' \in BOOLEAN, job' \in Syncs,
             excused' \in [Figures!Days -> SUBSET Figures!Days], missed' \in BOOLEAN
      PROVE  Figures!TypeOK'
  BY <1>0, <1>s DEF Figures!TypeOK, Syncs, Ages, Figures!Steps, Figures!Tasks
<1>1. CASE Figures!Hour
  <2>1. job' \in Syncs
    BY <1>0, <1>1, TaskSlows DEF Figures!Hour
  <2>2. /\ captured' = [own |-> Figures!Later(captured.own), batch |-> Figures!Later(captured.batch)]
        /\ hour' \in Figures!Hours /\ ran' = FALSE
        /\ UNCHANGED <<provider, flag, backfill, figures, total, excused, missed>>
    BY <1>1 DEF Figures!Hour, Figures!account, Figures!figures
  <2>3. captured.own \in 0..Interval + 2 /\ captured.batch \in 0..Interval + 2
    BY <1>0 DEF Ages
  <2>4. Figures!Later(captured.own) \in 0..Interval + 2 /\ Figures!Later(captured.batch) \in 0..Interval + 2
    BY <1>d, <2>3 DEF Figures!Later
  <2>5. captured' \in Ages
    BY <2>2, <2>4 DEF Ages
  <2> QED BY <1>0, <1>s, <2>1, <2>2, <2>5
<1>2. CASE Figures!Reconnect
  BY <1>0, <1>s, <1>2 DEF Figures!Reconnect, Figures!figures, Figures!post
<1>3. CASE Figures!Begin
  <2>1. job' \in Syncs
    BY <1>3, TaskStarts DEF Figures!Begin
  <2>2. excused' \in [Figures!Days -> SUBSET Figures!Days]
    BY <1>0, <1>3, <1>d, Excusing DEF Figures!Begin
  <2> QED BY <1>0, <1>s, <1>3, <2>1, <2>2 DEF Figures!Begin, Figures!post, Figures!account
<1>4. CASE Figures!BeginBackfill
  <2>1. job' \in Syncs
    BY <1>4, TaskStarts DEF Figures!BeginBackfill
  <2> QED BY <1>0, <1>s, <1>4, <2>1 DEF Figures!BeginBackfill, Figures!figures, Figures!post
<1>5. CASE Figures!Skip
  <2>1. Figures!InWindow /\ AtAccount /\ job' = [job EXCEPT !.offset = job.offset + 1]
    BY <1>5 DEF Figures!Skip, Figures!InWindow, AtAccount
  <2>2. job.offset + 1 \in 0..RecentDays
    BY <2>1, Windows
  <2>3. job' \in Syncs
    BY <1>0, <1>d, <2>1, <2>2, TaskMoves
  <2> QED BY <1>0, <1>s, <1>5, <2>3 DEF Figures!Skip, Figures!figures, Figures!post, Figures!account
<1>6. CASE Figures!Fetch
  <2> DEFINE d == Figures!Target
  <2>1. Figures!InWindow /\ AtAccount
    BY <1>6 DEF Figures!Fetch, Figures!InWindow, AtAccount
  <2>2. PICK some \in BOOLEAN, t \in {0, IF provider.totals THEN Figures!Today ELSE 0} :
          /\ figures' = [figures EXCEPT ![d] = IF some THEN "figures" ELSE figures[d]]
          /\ Figures!Excuse(figures', IF some THEN {} ELSE {d}, job.on)
          /\ job' = [job EXCEPT !.offset = job.offset + 1, !.total = IF t # 0 THEN t ELSE job.total]
    BY <1>6 DEF Figures!Fetch
  <2>3. job.offset + 1 \in 0..RecentDays /\ (IF t # 0 THEN t ELSE job.total) \in 0..MaxDays
    BY <1>d, <2>1, Windows
  <2>4. job' \in Syncs
    BY <1>0, <2>2, <2>3, TaskMoves
  <2>5. /\ figures' \in [Figures!Days -> {"none", "total", "figures"}]
        /\ \A e \in Figures!Days : figures[e] # "none" => figures'[e] # "none"
    BY <1>0, <2>1, <2>2
  <2>6. provider' = provider /\ UNCHANGED <<hour, ran, total, captured, missed, flag, backfill>>
    BY <1>6 DEF Figures!Fetch, Figures!post, Figures!account
  <2>7. excused' \in [Figures!Days -> SUBSET Figures!Days]
    BY <1>d, <2>2, <2>5, <2>6, Excusing
  <2> QED BY <1>0, <1>s, <2>4, <2>5, <2>6, <2>7
<1>7. CASE Figures!FetchFails
  <2>1. /\ flag' = TRUE \/ flag' = flag
        /\ job' = [job EXCEPT !.step = "posts", !.flag = TRUE] \/ job' = [job EXCEPT !.step = "posts"]
    BY <1>7 DEF Figures!FetchFails
  <2>4. job' \in Syncs
    <3>1. CASE job' = [job EXCEPT !.step = "posts", !.flag = TRUE]
      BY <1>0, <3>1, TaskFlagged
    <3>2. CASE job' = [job EXCEPT !.step = "posts"]
      BY <1>0, <3>2, TaskSteps
    <3> QED BY <2>1, <3>1, <3>2
  <2>5. flag' \in BOOLEAN
    BY <1>0, <2>1
  <2>2. Figures!Excuse(figures, Figures!Ahead, job.on) /\ figures' = figures /\ provider' = provider
    BY <1>7 DEF Figures!FetchFails
  <2>3. excused' \in [Figures!Days -> SUBSET Figures!Days]
    BY <1>0, <1>d, <2>2, Excusing
  <2> QED BY <1>0, <1>s, <1>7, <2>3, <2>4, <2>5 DEF Figures!FetchFails, Figures!post
<1>8. CASE Figures!WriteTotal
  <2>1. PICK s \in {"batch", "posts"} : job' = [job EXCEPT !.step = s]
    BY <1>8 DEF Figures!WriteTotal
  <2>2. job' \in Syncs
    BY <1>0, <2>1, TaskSteps
  <2>3. provider' = provider /\ UNCHANGED <<hour, ran, captured, missed, flag, backfill>>
    BY <1>8 DEF Figures!WriteTotal, Figures!post, Figures!account
  <2>4. CASE job.total # 0
    <3>1. /\ total' = [total EXCEPT ![job.on] = job.total]
          /\ figures' = [figures EXCEPT ![job.on] = IF figures[job.on] = "none" THEN "total" ELSE figures[job.on]]
          /\ Figures!Excuse(figures', {}, job.on)
      BY <1>8, <2>4 DEF Figures!WriteTotal
    <3>2. total' \in [Figures!Days -> 0..MaxDays]
      BY <1>0, <1>d, <3>1
    <3>3. /\ figures' \in [Figures!Days -> {"none", "total", "figures"}]
          /\ \A e \in Figures!Days : figures[e] # "none" => figures'[e] # "none"
      BY <1>0, <3>1
    <3>4. excused' \in [Figures!Days -> SUBSET Figures!Days]
      BY <1>d, <2>3, <3>1, <3>3, Excusing
    <3> QED BY <1>0, <1>s, <2>2, <2>3, <3>2, <3>3, <3>4
  <2>5. CASE job.total = 0
    BY <1>0, <1>s, <1>8, <2>2, <2>3, <2>5 DEF Figures!WriteTotal, Figures!figures
  <2> QED BY <2>4, <2>5
<1>9. CASE Figures!Batch
  <2>4. job' = [job EXCEPT !.step = "posts", !.flag = TRUE] \/ job' = [job EXCEPT !.step = "posts"]
    BY <1>9 DEF Figures!Batch
  <2>1. job' \in Syncs
    <3>1. CASE job' = [job EXCEPT !.step = "posts", !.flag = TRUE]
      BY <1>0, <3>1, TaskFlagged
    <3>2. CASE job' = [job EXCEPT !.step = "posts"]
      BY <1>0, <3>2, TaskSteps
    <3> QED BY <2>4, <3>1, <3>2
  <2>2. captured' \in Ages
    BY <1>0, <1>9, BoundAssumption DEF Figures!Batch, Ages
  <2>3. flag' \in BOOLEAN
    BY <1>0, <1>9, Zenon DEF Figures!Batch
  <2> QED BY <1>0, <1>s, <1>9, <2>1, <2>2, <2>3 DEF Figures!Batch, Figures!figures
<1>10. CASE Figures!SyncPost
  <2>1. job' \in Syncs
    BY <1>10, FiguresIdle DEF Figures!SyncPost
  <2>2. captured' \in Ages
    BY <1>0, <1>10, BoundAssumption DEF Figures!SyncPost, Ages, Figures!post
  <2>3. missed' \in BOOLEAN
    BY <1>0, <1>10 DEF Figures!SyncPost, Figures!post
  <2>4. flag' \in BOOLEAN
    BY <1>0, <1>10, Zenon DEF Figures!SyncPost
  <2> QED BY <1>0, <1>s, <1>10, <2>1, <2>2, <2>3, <2>4 DEF Figures!SyncPost, Figures!figures
<1>11. CASE Figures!Kill
  <2>1. job' \in Syncs
    BY <1>11, FiguresIdle DEF Figures!Kill
  <2>2. backfill' \in BOOLEAN
    BY <1>0, <1>11 DEF Figures!Kill
  <2>3. PICK D : Figures!Excuse(figures, D, job.on) /\ figures' = figures /\ provider' = provider
    BY <1>11 DEF Figures!Kill
  <2>4. excused' \in [Figures!Days -> SUBSET Figures!Days]
    BY <1>0, <1>d, <2>3, Excusing
  <2> QED BY <1>0, <1>s, <1>11, <2>1, <2>2, <2>4 DEF Figures!Kill
<1>12. CASE UNCHANGED Figures!vars
  BY <1>0, <1>s, <1>12 DEF Figures!vars
<1> QED BY <1>1, <1>2, <1>3, <1>4, <1>5, <1>6, <1>7, <1>8, <1>9, <1>10, <1>11, <1>12 DEF Figures!Next

LEMMA Hourly ==
  ASSUME NEW h \in Figures!Hours, h + 1 \in Figures!Hours
  PROVE  LET t == h \div 2 + 1
             u == (h + 1) \div 2 + 1
         IN  \/ h = 2 * t - 2 /\ h + 1 = 2 * t - 1 /\ u = t
             \/ h = 2 * t - 1 /\ h + 1 = 2 * (t + 1) - 2 /\ u = t + 1
<1>1. h \in Int /\ 0 <= h
  BY BoundAssumption DEF Figures!Hours, Figures!HoursPerDay
<1> QED BY <1>1

LEMMA FiguresNext == FiguresInv /\ [Figures!Next]_Figures!vars => FiguresInv'
<1> SUFFICES ASSUME FiguresInv, [Figures!Next]_Figures!vars PROVE FiguresInv'
  OBVIOUS
<1> DEFINE today == Figures!Today
<1>0. /\ Figures!TypeOK /\ Figures!TypeOK'
      /\ provider \in Figures!Providers /\ hour \in Figures!Hours /\ ran \in BOOLEAN
      /\ figures \in [Figures!Days -> {"none", "total", "figures"}]
      /\ total \in [Figures!Days -> 0..MaxDays] /\ captured \in Ages
      /\ job \in Syncs /\ missed \in BOOLEAN
  BY FiguresTypes, FiguresTypeNext DEF FiguresInv
<1>d. /\ today \in Figures!Days /\ Figures!Days = 1..MaxDays /\ MaxDays \in Nat /\ RecentDays \in Nat
      /\ hour \in {2 * today - 2, 2 * today - 1} /\ Interval \in Nat \ {0}
      /\ job.on \in Figures!Days /\ job.offset \in 0..RecentDays /\ job.total \in 0..MaxDays
      /\ captured.own \in 0..Interval + 2
  BY <1>0, Dates, BoundAssumption DEF Syncs, Ages
<1>x. /\ Figures!TypeOK /\ figures \in [Figures!Days -> {"none", "total", "figures"}]
      /\ job.on \in Figures!Days /\ today \in Figures!Days
  BY <1>0, <1>d
<1>i. Clocked /\ Dated /\ Aged /\ Covered
  BY DEF FiguresInv
\* Of the clauses of Covered, what the days and the task at work are used for.
<1>c. /\ \A n \in Figures!Days : n < today => Synced(n)
      /\ \A d \in Figures!Days : d > today => figures[d] = "none"
      /\ hour = 2 * today - 1 => Synced(today) \/ (AtAccount /\ job.slow /\ job.on = today)
      /\ figures[today] # "none" => Synced(today) \/ (AtAccount /\ job.on = today)
      /\ AtAccount => \A d \in Reach(job.on) : job.on - d < job.offset => Stays(d, job.on)
      /\ job.step \in {"batch", "posts"} => Synced(job.on)
      /\ ~Working /\ ran => Synced(today)
  BY <1>i DEF Covered
<1>w. Working => /\ today \in {job.on, job.on + 1} /\ job.on <= today
                 /\ ~job.slow => today = job.on
                 /\ job.slow => ~ran
  BY <1>i, <1>d DEF Clocked
<1>t. hour' = hour => Figures!Today' = today
  BY DEF Figures!Today
<1>m. ASSUME provider' = provider, \A d, n \in Figures!Days : Stays(d, n) => Stays(d, n)'
      PROVE  /\ \A n : Reach(n)' = Reach(n)
             /\ \A n \in Figures!Days : Synced(n) => Synced(n)'
  <2>1. \A n : Reach(n)' = Reach(n)
    BY <1>m DEF Reach
  <2> QED BY <1>m, <2>1 DEF Synced, Reach
\* A task comes one day further.
<1>k. ASSUME UNCHANGED <<hour, provider>>, \A d, n \in Figures!Days : Stays(d, n) => Stays(d, n)',
             Figures!InWindow, AtAccount, \A d, n : d = Figures!Target /\ n = job.on => Stays(d, n)',
             \A d \in Figures!Days : d # Figures!Target => figures'[d] = figures[d],
             job'.step = job.step, job'.on = job.on, job'.offset = job.offset + 1, job'.slow = job.slow
      PROVE  Covered'
  <2>1. /\ \A n : Reach(n)' = Reach(n)
        /\ \A n \in Figures!Days : Synced(n) => Synced(n)'
    BY <1>k, <1>m
  <2>2. /\ Figures!Target \in Reach(job.on) /\ job.on - Figures!Target = job.offset
        /\ \A d \in Figures!Days : d <= job.on /\ job.on - d = job.offset => d = Figures!Target
    BY <1>0, <1>k, Windows
  <2>3. /\ Figures!Target \in Figures!Days /\ Figures!Target <= job.on /\ job.on <= today
        /\ Figures!Target = today => job.on = today
    <3>1. Figures!Target \in Figures!Days /\ Working
      BY <1>k, <2>2 DEF Reach, AtAccount, Working
    <3> QED BY <1>d, <1>w, <2>2, <3>1
  <2>4. ASSUME NEW d \in Reach(job.on)', job'.on - d < job'.offset PROVE Stays(d, job.on)'
    <3>1. d \in Figures!Days /\ d \in Reach(job.on) /\ d <= job.on
      BY <1>d, <1>k, <2>1, <2>4 DEF Reach
    <3>3. job.on - d < job.offset + 1
      BY <1>k, <2>4
    <3>2. d = Figures!Target \/ job.on - d < job.offset
      BY <1>d, <2>2, <3>1, <3>3
    <3> QED BY <1>c, <1>d, <1>k, <3>1, <3>2
  <2>5. AtAccount' /\ Working' /\ ~(job'.step \in {"batch", "posts"})
    BY <1>k DEF AtAccount, Working
  <2>8. \A d \in Figures!Days : d # Figures!Target => figures'[d] = figures[d]
    BY <1>k
  <2>6. \A d \in Figures!Days : d > today => figures'[d] = "none"
    <3> SUFFICES ASSUME NEW d \in Figures!Days, d > today PROVE figures'[d] = "none"
      OBVIOUS
    <3>1. d # Figures!Target
      BY <1>d, <2>3
    <3> QED BY <1>c, <2>8, <3>1
  <2>7. figures'[today] # "none" => figures[today] # "none" \/ job.on = today
    BY <1>d, <2>3, <2>8
  <2> QED BY <1>c, <1>d, <1>k, <1>t, <2>1, <2>4, <2>5, <2>6, <2>7 DEF Covered
\* A task leaves the account's figures, its day done, or ends.
<1>e. ASSUME UNCHANGED <<hour, provider, ran>>, \A d, n \in Figures!Days : Stays(d, n) => Stays(d, n)',
             Working, \A n : n = job.on => Synced(n)',
             \A d \in Figures!Days : d # job.on => figures'[d] = figures[d],
             (job'.step \in {"batch", "posts"} /\ job'.on = job.on) \/ job'.step = "idle"
      PROVE  Covered'
  <2>1. \A n \in Figures!Days : Synced(n) => Synced(n)'
    BY <1>e, <1>m
  <2>2. ~AtAccount' /\ (~Working' <=> job'.step = "idle")
    BY <1>e DEF AtAccount, Working
  <2>3. \A d \in Figures!Days : d > today => figures'[d] = "none"
    BY <1>c, <1>d, <1>e, <1>w
  <2>4. figures'[today] # "none" => figures[today] # "none" \/ job.on = today
    BY <1>d, <1>e
  <2>5. ran => job.on = today
    BY <1>e, <1>w
  <2>6. job'.step \in {"batch", "posts"} => Synced(job.on)'
    BY <1>e
  <2>7. job.on = today => Synced(today)'
    BY <1>e, <1>t
  <2> QED BY <1>c, <1>d, <1>e, <1>t, <2>1, <2>2, <2>3, <2>4, <2>5, <2>6, <2>7 DEF Covered
\* A task starts.
<1>b. ASSUME UNCHANGED <<hour, provider, figures>>, \A d, n \in Figures!Days : Stays(d, n) => Stays(d, n)',
             ~Working, job'.on = today, job'.offset = 0,
             job'.step = "account" \/ (job'.step = "posts" /\ Synced(today)')
      PROVE  Covered'
  <2>1. \A n \in Figures!Days : Synced(n) => Synced(n)'
    BY <1>b, <1>m
  <2>2. Working' /\ ~AtAccount /\ (AtAccount' <=> job'.step = "account")
    BY <1>b DEF AtAccount, Working
  <2>3. ASSUME NEW d \in Reach(job.on)' PROVE ~(job'.on - d < job'.offset)
    BY <1>b, <1>d, <2>3, Dates, <1>0, <1>m DEF Reach
  <2>4. Synced(today)' => Synced(job.on)'
    BY <1>b, <1>t
  <2> QED BY <1>b, <1>c, <1>d, <1>t, <2>1, <2>2, <2>3, <2>4 DEF Covered
\* Days and figures apart, the other parts of the invariant.
<1>j. ASSUME UNCHANGED <<hour, total>>, Clocked', Aged', Covered', job'.total = 0 \/ (job'.total = job.total /\ job'.on = job.on)
      PROVE  FiguresInv'
  <2>1. Dated'
    BY <1>i, <1>j DEF Dated
  <2> QED BY <1>0, <1>j, <2>1 DEF FiguresInv
<1>u. ASSUME UNCHANGED <<provider, hour, ran, figures, total, captured, job, excused, missed>>
      PROVE  FiguresInv'
  <2>1. Figures!Today' = today /\ \A n : Reach(n)' = Reach(n)
    BY <1>t, <1>u DEF Reach
  <2>2. /\ (Working' <=> Working) /\ (AtAccount' <=> AtAccount)
        /\ \A d, n : Stays(d, n)' <=> Stays(d, n)
    BY <1>u DEF Working, AtAccount, Stays
  <2>3. \A n : Synced(n)' <=> Synced(n)
    BY <2>1, <2>2 DEF Synced
  <2>4. Covered'
    BY <1>i, <1>u, <2>1, <2>2, <2>3 DEF Covered
  <2>5. Clocked' /\ Dated' /\ Aged'
    BY <1>i, <1>u, <2>1, <2>2 DEF Clocked, Dated, Aged
  <2> QED BY <1>0, <2>4, <2>5 DEF FiguresInv
<1>f. ASSUME UNCHANGED <<figures, excused>> PROVE \A d, n \in Figures!Days : Stays(d, n) => Stays(d, n)'
  BY <1>f DEF Stays
<1>1. CASE Figures!Hour
  <2>1. /\ hour' = hour + 1 /\ hour + 1 \in Figures!Hours /\ ran' = FALSE
        /\ captured' = [own |-> Figures!Later(captured.own), batch |-> Figures!Later(captured.batch)]
        /\ UNCHANGED <<provider, flag, backfill, figures, total, excused, missed>>
    BY <1>1 DEF Figures!Hour, Figures!account, Figures!figures
  <2>2. \/ ~Working /\ ran /\ job' = job
        \/ Working /\ ~job.slow /\ job'.slow
    BY <1>0, <1>1, TaskSlows DEF Figures!Hour, Working
  <2>3. job'.step = job.step /\ job'.on = job.on /\ job'.offset = job.offset /\ job'.total = job.total
    BY <1>0, <1>1, TaskSlows DEF Figures!Hour
  <2>4. \/ hour = 2 * today - 2 /\ hour' = 2 * today - 1 /\ Figures!Today' = today
        \/ hour = 2 * today - 1 /\ hour' = 2 * (today + 1) - 2 /\ Figures!Today' = today + 1
    BY <1>0, <2>1, Hourly DEF Figures!Today, Figures!HoursPerDay
  <2>5. /\ (Working' <=> Working) /\ (AtAccount' <=> AtAccount)
        /\ \A n : Reach(n)' = Reach(n)
        /\ \A d, n : Stays(d, n)' <=> Stays(d, n)
    BY <2>1, <2>3 DEF Working, AtAccount, Reach, Stays
  <2>6. \A n : Synced(n)' <=> Synced(n)
    BY <2>5 DEF Synced
  <2>7. Working => today = job.on
    BY <1>w, <2>2
  <2>8. Synced(today) \/ AtAccount
    <3>1. CASE ~Working
      BY <1>c, <2>2, <3>1
    <3>2. CASE Working
      BY <1>0, <1>c, <2>7, <3>2 DEF Syncs, Working, AtAccount
    <3> QED BY <3>1, <3>2
  <2>9. Covered'
    <3>1. CASE Figures!Today' = today /\ hour' = 2 * today - 1
      <4>1. AtAccount => Working
        BY DEF AtAccount, Working
      <4>2. AtAccount => job'.slow /\ job'.on = today
        BY <2>2, <2>3, <2>7, <4>1
      <4> QED BY <1>c, <2>1, <2>3, <2>5, <2>6, <2>8, <3>1, <4>2 DEF Covered
    <3>2. CASE Figures!Today' = today + 1 /\ hour = 2 * today - 1 /\ hour' = 2 * (today + 1) - 2
      <4>1. Synced(today)
        BY <1>c, <2>2, <3>2 DEF AtAccount, Working
      <4>2. \A n \in Figures!Days : n < today + 1 => n < today \/ n = today
        BY <1>d
      <4>3. \A d \in Figures!Days : d > today + 1 => d > today
        BY <1>d
      <4>4. hour' # 2 * (today + 1) - 1 /\ today + 1 > today
        BY <1>d, <3>2
      <4>5. today + 1 \in Figures!Days
        BY <1>d, <2>1, <3>2 DEF Figures!Hours, Figures!HoursPerDay
      <4>6. figures[today + 1] = "none"
        BY <1>c, <4>4, <4>5
      <4> QED BY <1>c, <2>1, <2>3, <2>5, <2>6, <3>2, <4>1, <4>2, <4>3, <4>4, <4>6 DEF Covered
    <3> QED BY <2>4, <3>1, <3>2
  <2>10. Clocked'
    BY <1>d, <2>1, <2>2, <2>3, <2>4, <2>5, <2>7 DEF Clocked
  <2>11. Dated'
    BY <1>i, <2>1, <2>3 DEF Dated
  <2>12. Aged'
    <3>1. captured'.own = IF captured.own < Interval + 2 THEN captured.own + 1 ELSE captured.own
      BY <2>1 DEF Figures!Later
    <3>2. CASE missed
      BY <2>1, <3>2 DEF Aged
    <3>3. CASE ~missed /\ ~Working
      <4>1. captured.own < Interval
        BY <1>i, <2>2, <3>3 DEF Aged
      <4>2. captured'.own <= Interval
        BY <1>d, <3>1, <4>1
      <4> QED BY <2>1, <2>5, <3>3, <4>2 DEF Aged
    <3>4. CASE ~missed /\ Working
      <4>1. captured.own <= Interval
        BY <1>i, <2>2, <3>4 DEF Aged
      <4>2. captured'.own <= Interval + 1
        BY <1>d, <3>1, <4>1
      <4> QED BY <2>2, <2>5, <3>4, <4>2 DEF Aged
    <3> QED BY <3>2, <3>3, <3>4
  <2> QED BY <1>0, <2>9, <2>10, <2>11, <2>12 DEF FiguresInv
<1>2. CASE Figures!Reconnect
  <2>1. UNCHANGED <<provider, hour, ran, figures, total, captured, job, excused, missed>>
    BY <1>2 DEF Figures!Reconnect, Figures!figures, Figures!post
  <2> QED BY <1>u, <2>1
<1>3. CASE Figures!Begin
  <2>1. /\ ~Working /\ ~ran /\ ran' = TRUE
        /\ UNCHANGED <<provider, hour, figures, total, captured, missed>>
    BY <1>3 DEF Figures!Begin, Figures!post, Working
  <2>2. /\ job'.step \in {"account", "posts"} /\ job'.on = today /\ job'.offset = 0
        /\ job'.total = 0 /\ job'.slow = FALSE
    BY <1>0, <1>3, TaskStarts DEF Figures!Begin
  <2>3. /\ \A d, n \in Figures!Days : Stays(d, n) => Stays(d, n)'
        /\ job'.step = "account" \/ Synced(today)'
    <3>1. CASE ~flag /\ figures[today] = "none" /\ Figures!Read("hourly", "account") /\ UNCHANGED excused
      BY <1>0, <1>f, <2>1, <3>1, TaskStarts
    <3>2. CASE ~flag /\ figures[today] # "none" /\ Figures!Read("hourly", "posts") /\ UNCHANGED excused
      <4>1. Synced(today)
        BY <1>c, <2>1, <3>2 DEF AtAccount, Working
      <4>2. \A d, n \in Figures!Days : Stays(d, n) => Stays(d, n)'
        BY <1>f, <2>1, <3>2
      <4>3. \A n \in Figures!Days : Synced(n) => Synced(n)'
        BY <1>m, <2>1, <4>2
      <4>4. \A n : n = today => Synced(n)'
        BY <1>d, <4>1, <4>3
      <4>5. Synced(today)'
        BY <1>t, <2>1, <4>4
      <4> QED BY <4>2, <4>5
    <3>3. CASE flag /\ Figures!Read("hourly", "posts") /\ Figures!Excuse(figures, Figures!Days, today)
      <4>1. /\ \A d, n \in Figures!Days : Stays(d, n) => Stays(d, n)'
            /\ \A n : n = today => \A d \in Reach(n) : d \in Figures!Days => Stays(d, n)'
        <5>1. figures' = figures /\ provider' = provider
          BY <2>1
        <5>2. Figures!Excuse(figures, Figures!Days, today)
          BY <3>3
        <5>3. \A d \in Figures!Days : figures[d] # "none" => figures[d] # "none"
          OBVIOUS
        <5> HIDE DEF today
        <5> QED BY <1>x, <5>1, <5>2, <5>3, Excusing
      <4>2. \A n : Reach(n)' = Reach(n)
        BY <1>m, <2>1, <4>1
      <4>3. \A n : n = today => Synced(n)'
        BY <4>1, <4>2 DEF Synced, Reach
      <4>4. Synced(today)'
        BY <1>t, <2>1, <4>3
      <4> QED BY <4>1, <4>4
    <3>4. CASE Figures!Read("hourly", "account") /\ UNCHANGED excused
      BY <1>0, <1>f, <2>1, <3>4, TaskStarts
    <3> QED BY <1>3, <3>1, <3>2, <3>3, <3>4 DEF Figures!Begin
  <2>4. Covered'
    BY <1>b, <2>1, <2>2, <2>3
  <2>5. Working'
    BY <2>2 DEF Working
  <2>6. Clocked' /\ Aged'
    BY <1>i, <1>t, <2>1, <2>2, <2>5 DEF Clocked, Aged
  <2> QED BY <1>j, <2>1, <2>2, <2>4, <2>6
<1>4. CASE Figures!BeginBackfill
  <2>1. /\ ~Working /\ UNCHANGED <<provider, hour, ran, figures, total, excused, captured, missed>>
    BY <1>4 DEF Figures!BeginBackfill, Figures!post, Figures!figures, Working
  <2>2. /\ job'.step = "account" /\ job'.on = today /\ job'.offset = 0
        /\ job'.total = 0 /\ job'.slow = FALSE
    BY <1>0, <1>4, TaskStarts DEF Figures!BeginBackfill
  <2>4. Covered'
    BY <1>b, <1>f, <2>1, <2>2
  <2>5. Working'
    BY <2>2 DEF Working
  <2>6. Clocked'
    BY <1>t, <2>1, <2>2, <2>5 DEF Clocked
  <2>7. Aged'
    <3>1. captured.own < Interval => captured.own <= Interval
      BY <1>d
    <3> QED BY <1>i, <2>1, <2>2, <2>5, <3>1 DEF Aged
  <2> QED BY <1>j, <2>1, <2>2, <2>4, <2>6, <2>7
\* A task that stays at work keeps its clock and the post its age.
<1>v. ASSUME UNCHANGED <<hour, ran, captured, missed>>, Working, Working',
             job'.on = job.on, job'.slow = job.slow
      PROVE  Clocked' /\ Aged'
  BY <1>i, <1>t, <1>v DEF Clocked, Aged
\* The days before the task's are done, and those ahead are excused.
<1>r. ASSUME AtAccount, provider' = provider, \A d, n \in Figures!Days : Stays(d, n) => Stays(d, n)',
             \A n : n = job.on => \A e \in Reach(n) : e \in Figures!Ahead => Stays(e, n)'
      PROVE  \A n : n = job.on => Synced(n)'
  <2> SUFFICES ASSUME NEW n, n = job.on, NEW d \in Reach(n) PROVE Stays(d, n)'
    BY <1>m, <1>r DEF Synced
  <2>1. d \in Figures!Days /\ n \in Figures!Days /\ d \in Reach(job.on) /\ n = job.on
    BY <1>d DEF Reach
  <2>2. d \in Figures!Ahead \/ job.on - d < job.offset
    BY <1>d, <2>1 DEF Figures!Ahead
  <2>3. CASE d \in Figures!Ahead
    BY <1>r, <2>1, <2>3
  <2>4. CASE job.on - d < job.offset
    BY <1>c, <1>r, <2>1, <2>4
  <2> QED BY <2>2, <2>3, <2>4
<1>a. AtAccount => Working
  BY DEF AtAccount, Working
<1>5. CASE Figures!Skip
  <2>1. /\ Figures!InWindow /\ AtAccount /\ figures[Figures!Target] # "none"
        /\ job' = [job EXCEPT !.offset = job.offset + 1]
        /\ UNCHANGED <<provider, hour, ran, figures, total, excused, captured, missed>>
    BY <1>5 DEF Figures!Skip, Figures!InWindow, AtAccount, Figures!figures, Figures!post
  <2>2. job.offset + 1 \in 0..RecentDays
    BY <1>0, <2>1, Windows
  <2>3. /\ job'.step = job.step /\ job'.on = job.on /\ job'.offset = job.offset + 1
        /\ job'.total = job.total /\ job'.slow = job.slow
    BY <1>0, <2>1, <2>2 DEF Syncs
  <2>4. \A d, n : d = Figures!Target /\ n = job.on => Stays(d, n)'
    BY <2>1 DEF Stays
  <2>5. Covered'
    BY <1>f, <1>k, <2>1, <2>3, <2>4
  <2>6. Working /\ Working'
    BY <1>a, <2>1, <2>3 DEF Working
  <2> QED BY <1>j, <1>v, <2>1, <2>3, <2>5, <2>6
<1>6. CASE Figures!Fetch
  <2> DEFINE d == Figures!Target
  <2>1. /\ Figures!InWindow /\ AtAccount
        /\ UNCHANGED <<provider, hour, ran, total, captured, missed>>
    BY <1>6 DEF Figures!Fetch, Figures!InWindow, AtAccount, Figures!post
  <2>2. PICK some \in BOOLEAN, t \in {0, IF provider.totals THEN today ELSE 0} :
          /\ figures' = [figures EXCEPT ![d] = IF some THEN "figures" ELSE figures[d]]
          /\ Figures!Excuse(figures', IF some THEN {} ELSE {d}, job.on)
          /\ job' = [job EXCEPT !.offset = job.offset + 1, !.total = IF t # 0 THEN t ELSE job.total]
    BY <1>6 DEF Figures!Fetch
  <2> DEFINE o == job.offset + 1
             y == IF t # 0 THEN t ELSE job.total
  <2>3. /\ o \in 0..RecentDays /\ d \in Reach(job.on) /\ d \in Figures!Days
        /\ y \in 0..MaxDays /\ (y # 0 => y = today \/ y = job.total)
    BY <1>0, <1>d, <2>1, Windows DEF Reach
  <2>4. job' = [job EXCEPT !.offset = o, !.total = y]
    BY <2>2
  <2> HIDE DEF o, y
  <2>5. /\ job'.step = job.step /\ job'.on = job.on /\ job'.offset = o
        /\ job'.total = y /\ job'.slow = job.slow
    <3> DEFINE k == [job EXCEPT !.offset = o, !.total = y]
    <3>1. k.step = job.step /\ k.on = job.on /\ k.offset = o /\ k.total = y /\ k.slow = job.slow
      BY <1>0, <2>3 DEF Syncs
    <3> QED BY <2>4, <3>1
  <2>6. /\ figures' \in [Figures!Days -> {"none", "total", "figures"}]
        /\ \A e \in Figures!Days : figures[e] # "none" => figures'[e] # "none"
        /\ \A e \in Figures!Days : e # d => figures'[e] = figures[e]
        /\ some => figures'[d] # "none"
    BY <1>0, <2>1, <2>2, <2>3
  <2>7. /\ \A e, n \in Figures!Days : Stays(e, n) => Stays(e, n)'
        /\ \A n : n = job.on => \A e \in Reach(n) : e \in (IF some THEN {} ELSE {d}) => Stays(e, n)'
    <3>1. figures' \in [Figures!Days -> {"none", "total", "figures"}] /\ provider' = provider
          /\ Figures!Excuse(figures', IF some THEN {} ELSE {d}, job.on)
      BY <2>1, <2>2, <2>6
    <3>2. \A e \in Figures!Days : figures[e] # "none" => figures'[e] # "none"
      BY <2>6
    <3> HIDE DEF d
    <3> QED BY <1>x, <3>1, <3>2, Excusing
  <2>8. \A e, n : e = d /\ n = job.on => Stays(e, n)'
    <3>1. CASE some
      BY <2>6, <3>1 DEF Stays
    <3>2. CASE ~some
      BY <2>3, <2>7, <3>2
    <3> QED BY <3>1, <3>2
  <2>9. Working /\ Working'
    BY <1>a, <2>1, <2>5 DEF Working
  <2>10. Covered'
    BY <1>k, <2>1, <2>5, <2>6, <2>7, <2>8 DEF o
  <2>11. Clocked' /\ Aged'
    BY <1>v, <2>1, <2>5, <2>9
  <2>12. Dated'
    <3>1. today \in {job.on, job.on + 1}
      BY <1>w, <2>9
    <3> QED BY <1>i, <2>1, <2>3, <2>5, <3>1 DEF Dated
  <2> QED BY <1>0, <2>10, <2>11, <2>12 DEF FiguresInv
<1>7. CASE Figures!FetchFails
  <2>1. /\ Figures!InWindow /\ AtAccount /\ Figures!Excuse(figures, Figures!Ahead, job.on)
        /\ job' = [job EXCEPT !.step = "posts", !.flag = TRUE] \/ job' = [job EXCEPT !.step = "posts"]
        /\ UNCHANGED <<provider, hour, ran, figures, total, captured, missed>>
    BY <1>7 DEF Figures!FetchFails, Figures!InWindow, AtAccount, Figures!post
  <2>2. job'.step = "posts" /\ job'.on = job.on /\ job'.total = job.total /\ job'.slow = job.slow
    <3>1. CASE job' = [job EXCEPT !.step = "posts", !.flag = TRUE]
      BY <1>0, <3>1, TaskFlagged
    <3>2. CASE job' = [job EXCEPT !.step = "posts"]
      BY <1>0, <3>2, TaskSteps
    <3> QED BY <2>1, <3>1, <3>2
  <2>3. /\ \A e, n \in Figures!Days : Stays(e, n) => Stays(e, n)'
        /\ \A n : n = job.on => \A e \in Reach(n) : e \in Figures!Ahead => Stays(e, n)'
    <3>1. Figures!Excuse(figures, Figures!Ahead, job.on) /\ figures' = figures /\ provider' = provider
      BY <2>1
    <3>2. \A e \in Figures!Days : figures[e] # "none" => figures[e] # "none"
      OBVIOUS
    <3> QED BY <1>x, <3>1, <3>2, Excusing
  <2>4. \A n : n = job.on => Synced(n)'
    BY <1>r, <2>1, <2>3
  <2>5. Working /\ Working'
    BY <1>a, <2>1, <2>2 DEF Working
  <2>6. Covered'
    BY <1>e, <2>1, <2>2, <2>3, <2>4, <2>5
  <2> QED BY <1>j, <1>v, <2>1, <2>2, <2>5, <2>6
<1>8. CASE Figures!WriteTotal
  <2>1. /\ AtAccount /\ ~Figures!InWindow
        /\ UNCHANGED <<provider, hour, ran, captured, missed>>
    BY <1>8 DEF Figures!WriteTotal, AtAccount, Figures!post
  <2>2. PICK s \in {"batch", "posts"} : job' = [job EXCEPT !.step = s]
    BY <1>8 DEF Figures!WriteTotal
  <2>3. job'.step = s /\ job'.on = job.on /\ job'.total = job.total /\ job'.slow = job.slow
    BY <1>0, <2>2, TaskSteps
  <2>4. Synced(job.on)
    BY <1>0, <1>c, <2>1, Windows DEF Synced
  <2>5. /\ \A e, n \in Figures!Days : Stays(e, n) => Stays(e, n)'
        /\ \A e \in Figures!Days : e # job.on => figures'[e] = figures[e]
        /\ \A e \in Figures!Days : total'[e] = total[e] \/ (e = job.on /\ total'[e] = job.total)
    <3>1. CASE job.total # 0
      <4>1. /\ total' = [total EXCEPT ![job.on] = job.total]
            /\ figures' = [figures EXCEPT ![job.on] = IF figures[job.on] = "none" THEN "total" ELSE figures[job.on]]
            /\ Figures!Excuse(figures', {}, job.on)
        BY <1>8, <3>1 DEF Figures!WriteTotal
      <4>2. /\ figures' \in [Figures!Days -> {"none", "total", "figures"}]
            /\ \A e \in Figures!Days : figures[e] # "none" => figures'[e] # "none"
        BY <1>0, <4>1
      <4>3. \A e, n \in Figures!Days : Stays(e, n) => Stays(e, n)'
        BY <1>x, <2>1, <4>1, <4>2, Excusing
      <4> QED BY <1>0, <1>d, <4>1, <4>3
    <3>2. CASE job.total = 0
      BY <1>8, <1>f, <3>2 DEF Figures!WriteTotal, Figures!figures
    <3> QED BY <3>1, <3>2
  <2>6. \A n : n = job.on => Synced(n)'
    BY <1>d, <1>m, <2>1, <2>4, <2>5
  <2>7. Working /\ Working'
    BY <1>a, <2>1, <2>3 DEF Working
  <2>8. Covered'
    BY <1>e, <2>1, <2>3, <2>5, <2>6, <2>7
  <2>9. Clocked' /\ Aged'
    BY <1>v, <2>1, <2>3, <2>7
  <2>10. Dated'
    BY <1>i, <2>3, <2>5 DEF Dated
  <2> QED BY <1>0, <2>8, <2>9, <2>10 DEF FiguresInv
<1>9. CASE Figures!Batch
  <2>1. /\ job.step = "batch"
        /\ job' = [job EXCEPT !.step = "posts"] \/ job' = [job EXCEPT !.step = "posts", !.flag = TRUE]
        /\ captured' \in {captured, [captured EXCEPT !.batch = 0]}
        /\ UNCHANGED <<provider, hour, ran, figures, total, excused, missed>>
    BY <1>9 DEF Figures!Batch, Figures!figures
  <2>2. job'.step = "posts" /\ job'.on = job.on /\ job'.total = job.total /\ job'.slow = job.slow
    <3>1. CASE job' = [job EXCEPT !.step = "posts", !.flag = TRUE]
      BY <1>0, <3>1, TaskFlagged
    <3>2. CASE job' = [job EXCEPT !.step = "posts"]
      BY <1>0, <3>2, TaskSteps
    <3> QED BY <2>1, <3>1, <3>2
  <2>3. captured'.own = captured.own
    BY <1>0, <2>1 DEF Ages
  <2>4. Working /\ Working' /\ Synced(job.on)
    BY <1>c, <2>1, <2>2 DEF Working
  <2>5. \A n : n = job.on => Synced(n)'
    BY <1>d, <1>f, <1>m, <2>1, <2>4
  <2>6. Covered'
    BY <1>e, <1>f, <2>1, <2>2, <2>4, <2>5
  <2>7. Clocked'
    BY <1>i, <1>t, <2>1, <2>2, <2>4 DEF Clocked
  <2>8. Aged'
    BY <1>i, <2>1, <2>2, <2>3, <2>4 DEF Aged
  <2> QED BY <1>j, <2>1, <2>2, <2>6, <2>7, <2>8
<1>10. CASE Figures!SyncPost
  <2>1. /\ job.step = "posts" /\ job' = Figures!Idle
        /\ UNCHANGED <<provider, hour, ran, figures, total, excused>>
        /\ \/ captured.own < Interval /\ captured' = captured /\ missed' = missed
           \/ captured' = [captured EXCEPT !.own = 0] /\ missed' = FALSE
           \/ missed' = TRUE
    BY <1>10, <1>d DEF Figures!SyncPost, Figures!figures, Figures!post, Figures!PostDue
  <2>2. job'.step = "idle" /\ job'.total = 0 /\ ~Working'
    BY <2>1, FiguresIdle DEF Working
  <2>3. Working /\ Synced(job.on)
    BY <1>c, <2>1 DEF Working
  <2>4. \A n : n = job.on => Synced(n)'
    BY <1>d, <1>f, <1>m, <2>1, <2>3
  <2>5. Covered'
    BY <1>e, <1>f, <2>1, <2>2, <2>3, <2>4
  <2>6. Clocked'
    BY <2>2 DEF Clocked
  <2>7. Aged'
    <3>1. missed' \/ captured'.own < Interval
      BY <1>0, <1>d, <2>1 DEF Ages
    <3>2. captured' \in Ages
      BY <1>0 DEF Figures!TypeOK, Ages
    <3>3. missed' \/ (captured'.own < Interval /\ captured'.own <= Interval)
      BY <1>d, <3>1, <3>2 DEF Ages
    <3> QED BY <2>2, <3>3 DEF Aged
  <2> QED BY <1>j, <2>1, <2>2, <2>5, <2>6, <2>7
<1>11. CASE Figures!Kill
  <2>1. /\ Working /\ job' = Figures!Idle /\ missed' = TRUE
        /\ Figures!Excuse(figures, IF job.step = "account" THEN Figures!Ahead ELSE {}, job.on)
        /\ UNCHANGED <<provider, hour, ran, figures, total, captured>>
    BY <1>11 DEF Figures!Kill, Working
  <2>2. job'.step = "idle" /\ job'.total = 0 /\ ~Working'
    BY <2>1, FiguresIdle DEF Working
  <2>3. /\ \A e, n \in Figures!Days : Stays(e, n) => Stays(e, n)'
        /\ \A n : n = job.on => \A e \in Reach(n) :
             e \in (IF job.step = "account" THEN Figures!Ahead ELSE {}) => Stays(e, n)'
    <3>1. /\ Figures!Excuse(figures, IF job.step = "account" THEN Figures!Ahead ELSE {}, job.on)
          /\ figures' = figures /\ provider' = provider
      BY <2>1
    <3>2. \A e \in Figures!Days : figures[e] # "none" => figures[e] # "none"
      OBVIOUS
    <3> QED BY <1>x, <3>1, <3>2, Excusing
  <2>4. \A n : n = job.on => Synced(n)'
    <3>1. CASE AtAccount
      BY <1>r, <2>1, <2>3, <3>1 DEF AtAccount
    <3>2. CASE ~AtAccount
      <4>1. Synced(job.on)
        BY <1>0, <1>c, <2>1, <3>2 DEF AtAccount, Working, Syncs
      <4> QED BY <1>d, <1>m, <2>1, <2>3, <4>1
    <3> QED BY <3>1, <3>2
  <2>5. Covered'
    BY <1>e, <2>1, <2>2, <2>3, <2>4
  <2>6. Clocked' /\ Aged'
    BY <2>1, <2>2 DEF Clocked, Aged
  <2> QED BY <1>j, <2>1, <2>2, <2>5, <2>6
<1>12. CASE UNCHANGED Figures!vars
  BY <1>u, <1>12 DEF Figures!vars
<1> QED BY <1>1, <1>2, <1>3, <1>4, <1>5, <1>6, <1>7, <1>8, <1>9, <1>10, <1>11, <1>12 DEF Figures!Next

-----------------------------------------------------------------------------
(* The parts together.                                                     *)

WorkspaceInv ==
  /\ ShootInv /\ DashInv /\ PlacesInv /\ PortalInv /\ AccessInv /\ PeopleInv
  /\ MediaInv /\ FilesInv /\ ApiInv /\ CountInv /\ InboxInv /\ FiguresInv

\* The step of one part is a step of its module, and the others stand still.
LEMMA StepsOfParts ==
  [Next]_vars => /\ [Shooting!Next]_Shooting!vars
                 /\ [Posts!Next]_Posts!vars
                 /\ [Places!Next]_Places!vars
                 /\ [Portal!Next]_Portal!vars
                 /\ [Access!Next]_Access!vars
                 /\ [People!Next]_People!vars
                 /\ [Media!Next]_Media!vars
                 /\ [Files!Next]_Files!vars
                 /\ [Api!Next]_Api!vars
                 /\ [Messages!Next]_Messages!vars
                 /\ [Figures!Next]_Figures!vars
<1> SUFFICES ASSUME [Next]_vars
             PROVE  /\ [Shooting!Next]_Shooting!vars
                    /\ [Posts!Next]_Posts!vars
                    /\ [Places!Next]_Places!vars
                    /\ [Portal!Next]_Portal!vars
                    /\ [Access!Next]_Access!vars
                    /\ [People!Next]_People!vars
                    /\ [Media!Next]_Media!vars
                    /\ [Files!Next]_Files!vars
                    /\ [Api!Next]_Api!vars
                    /\ [Messages!Next]_Messages!vars
                    /\ [Figures!Next]_Figures!vars
                 /\ [Media!Next]_Media!vars
                 /\ [Files!Next]_Files!vars
                 /\ [Api!Next]_Api!vars
                 /\ [Messages!Next]_Messages!vars
                 /\ [Figures!Next]_Figures!vars
  OBVIOUS
<1> USE DEF Only, vars, api, access, media, analytics, people, portal, inbox, places, posts, shooting, files
<1>1. [Shooting!Next]_Shooting!vars
  BY DEF Next, Shooting!vars
<1>2. [Posts!Next]_Posts!vars
  BY DEF Next, Posts!vars
<1>3. [Places!Next]_Places!vars
  BY DEF Next, Places!vars
<1>4. [Portal!Next]_Portal!vars
  BY DEF Next, Portal!vars
<1>5. [Access!Next]_Access!vars
  BY DEF Next, Access!vars
<1>6. [People!Next]_People!vars
  BY DEF Next, People!vars
<1>7. [Media!Next]_Media!vars
  BY DEF Next, Media!vars
<1>8. [Files!Next]_Files!vars
  BY DEF Next, Files!vars
<1>9. [Api!Next]_Api!vars
  BY DEF Next, Api!vars
<1>10. [Messages!Next]_Messages!vars
  BY SMTT(20) DEF Next, Messages!vars
<1>11. [Figures!Next]_Figures!vars
  BY DEF Next, Figures!vars
<1> QED BY <1>1, <1>2, <1>3, <1>4, <1>5, <1>6, <1>7, <1>8, <1>9, <1>10, <1>11

LEMMA WorkspaceHolds == Spec => []WorkspaceInv
<1>1. Init => WorkspaceInv
  BY ShootInit, DashInit, PlacesInit, PortalInit, AccessInit, PeopleInit,
     MediaInit, FilesInit, ApiInit, CountInit, InboxInit, FiguresInit DEF Init, WorkspaceInv
<1>2. WorkspaceInv /\ [Next]_vars => WorkspaceInv'
  BY StepsOfParts, ShootNext, DashNext, PlacesNext, PortalNext, AccessNext, PeopleNext,
     MediaNext, FilesNext, ApiNext, CountNext, InboxNext, FiguresNext DEF WorkspaceInv
<1> QED BY <1>1, <1>2, PTL DEF Spec

\* For any number of requests, accounts and publishing attempts beside them: an
\* account whose post was not taken from it is posted to once, the children
\* that wait move with their post and have a time when they are scheduled, and
\* a shooting session ends after it begins, unless it was dragged.
THEOREM DashboardStaysTrue == Spec => []DashboardIsTrue
<1>1. ASSUME DashInv PROVE Posts!PostedOnce
  BY <1>1 DEF DashInv, Once, Posts!PostedOnce
<1>2. ASSUME DashInv PROVE Posts!ChildrenMoveTogether
  <2> SUFFICES ASSUME NEW a \in Accounts \ left, child[a].status \in Posts!Waiting
               PROVE  child[a].time = time
    BY DEF Posts!ChildrenMoveTogether
  <2>1. child[a].status # "none"
    BY DEF Posts!Waiting
  <2> QED BY <1>2, <2>1 DEF DashInv, Together
<1>3. ASSUME DashInv PROVE Posts!ScheduledHasTime
  BY <1>3 DEF DashInv, Timed, Posts!ScheduledHasTime, Posts!Due, Posts!Unset
<1>4. WorkspaceInv => DashboardIsTrue
  BY <1>1, <1>2, <1>3 DEF WorkspaceInv, ShootInv, DashboardIsTrue
<1> QED BY <1>4, WorkspaceHolds, PTL

LEMMA PeopleCount == ASSUME NEW S PROVE People!Cardinality(S) = Cardinality(S)
BY SMT DEF People!Cardinality, Cardinality

\* For any number of workers, users, invitations, links and workspaces: a
\* request is admitted with an outdated key only within the TTL of the change;
\* who is in a workspace is in its organization, an invitation admits one user
\* and who signed up is somewhere; a link opens once and a removed client holds
\* none that opens; a user's last workspace is not closed: each but for the
\* overlaps and interrupted requests that the property names.
THEOREM AccessStaysAccountedFor == Spec => []AccessIsAccountedFor
<1>1. ASSUME AccessInv PROVE Access!OutdatedKeyExpires
  BY <1>1 DEF AccessInv, Access!OutdatedKeyExpires
<1>2. ASSUME PeopleInv PROVE People!AccessIsMembership
  BY <1>2 DEF PeopleInv, People!AccessIsMembership
<1>3. ASSUME PeopleInv PROVE People!AdmitsOnce
  <2> SUFFICES ASSUME NEW i \in Invitations \ shared PROVE Cardinality(admitted[i]) <= 1
    BY PeopleCount DEF People!AdmitsOnce
  <2>1. \A u, v \in admitted[i] : u = v
    BY <1>3 DEF PeopleInv, Joining
  <2>2. admitted[i] = {} \/ \E u : admitted[i] = {u}
    BY <2>1
  <2> QED BY <2>2, FS_EmptySet, FS_Singleton
<1>4. ASSUME PeopleInv PROVE People!EverybodyIsSomewhere
  BY <1>4 DEF PeopleInv, Signing, People!EverybodyIsSomewhere, People!User
<1>5. ASSUME PortalInv PROVE Portal!LinksOpenOnce
  BY <1>5 DEF PortalInv, Taken, Portal!LinksOpenOnce
<1>6. ASSUME PortalInv PROVE Portal!LinksAreClients
  BY <1>6 DEF PortalInv, Closed, Portal!LinksAreClients
<1>7. ASSUME PlacesInv PROVE Places!LastWorkspaceStays
  <2>1. CASE together \/ torn # {}
    BY <2>1 DEF Places!LastWorkspaceStays
  <2>2. CASE ~(together \/ torn # {})
    <3>1. PICK w \in owned : space[w] = "active"
      BY <1>7, <2>2 DEF PlacesInv, Alone
    <3>2. w \in Workspaces
      BY <1>7, <3>1 DEF PlacesInv, Places!TypeOK
    <3>3. w \in Places!Active \cap owned
      BY <3>1, <3>2 DEF Places!Active
    <3> QED BY <3>3 DEF Places!LastWorkspaceStays
  <2> QED BY <2>1, <2>2
<1>8. WorkspaceInv => AccessIsAccountedFor
  BY <1>1, <1>2, <1>3, <1>4, <1>5, <1>6, <1>7 DEF WorkspaceInv, AccessIsAccountedFor
<1> QED BY <1>8, WorkspaceHolds, PTL

\* For any number of uploads, requests and assets, however often an upload is
\* finalized: at most one living asset has an object, and an asset has its file
\* until a deletion of that asset has begun, unless operations on the file
\* overlapped.
THEOREM FilesStayKept == Spec => []FilesAreKept
<1>1. MediaInv => Media!AssetKeepsItsFile
  BY DEF MediaInv, Filed, Media!AssetKeepsItsFile
<1>2. WorkspaceInv => FilesAreKept
  BY <1>1 DEF WorkspaceInv, MediaInv, FilesAreKept
<1> QED BY <1>2, WorkspaceHolds, PTL

\* For any number of requests, retries and keys, and wherever a request is
\* killed: one post and one file per idempotency key, a replayed answer is that
\* of the same request, what an agent is told of is processed, and the daily
\* limit is exceeded by no more posts than requests overlapped past the count.
THEOREM CreatesStayCounted == Spec => []CreatesAreCounted
<1>1. ASSUME ApiInv, CountInv PROVE Api!QuotaOvershootIsBounded
  <2>1. Scheduled \in SUBSET Callers /\ Api!Counted \in SUBSET Callers
    BY <1>1 DEF ApiInv, ApiTyped, Scheduled, Api!Counted
  <2>2. Cardinality(Scheduled) \in Nat /\ Cardinality(Api!Counted) \in Nat /\ Cardinality(Callers) \in Nat
    BY <2>1, Callings
  <2>3. Cardinality(Scheduled) <= Limit + peak - 1
    BY <1>1, <2>2, BoundAssumption DEF CountInv
  <2> QED BY <2>3, ApiCount DEF Scheduled, Api!QuotaOvershootIsBounded
<1>2. WorkspaceInv => CreatesAreCounted
  BY <1>1 DEF WorkspaceInv, ApiInv, FilesInv, CreatesAreCounted
<1> QED BY <1>2, WorkspaceHolds, PTL

\* For any number of days, messages and kills, and any window and interval: a
\* day without figures was out of reach each time it could be fetched, a total
\* is of its day or the one after, the post is refreshed within its interval
\* unless a sync brought nothing, members are told of a message once, and of its
\* lateness once more per interrupted cycle, and a recorded reply was delivered.
THEOREM WhatIsShownStaysTrue == Spec => []WhatIsShownIsTrue
<1>1. ASSUME FiguresInv PROVE Figures!GapsAreExcused
  <2>1. Figures!Today \in Nat /\ Figures!Days = 1..MaxDays /\ provider.recent \in Nat /\ MaxDays \in Nat
        /\ Figures!Today <= MaxDays
    BY <1>1, Dates DEF FiguresInv
  <2> SUFFICES ASSUME NEW d \in Figures!Days, d + provider.recent <= Figures!Today, figures[d] = "none",
                      NEW n \in 0..provider.recent - 1
               PROVE  d + n \in excused[d]
    BY DEF Figures!GapsAreExcused
  <2>2. d + n \in Figures!Days /\ d + n < Figures!Today /\ (d + n) - d = n
    BY <2>1
  <2>3. Synced(d + n) /\ d \in Reach(d + n)
    BY <1>1, <2>2 DEF FiguresInv, Covered, Reach
  <2> QED BY <2>3 DEF Synced, Stays
<1>2. ASSUME FiguresInv PROVE Figures!TotalsAreOfTheirDay
  BY <1>2 DEF FiguresInv, Dated, Figures!TotalsAreOfTheirDay
<1>3. ASSUME FiguresInv PROVE Figures!PostsAreRefreshed
  <2>1. captured.own \in Nat /\ Interval \in Nat
    BY <1>3, BoundAssumption DEF FiguresInv, Figures!TypeOK
  <2> QED BY <1>3, <2>1 DEF FiguresInv, Aged, Figures!PostsAreRefreshed
<1>4. ASSUME InboxInv PROVE Messages!ToldOnce
  <2> SUFFICES ASSUME NEW m \in 1..MaxMessages PROVE notified[m] <= 1 /\ told[m] <= 1 + kills
    BY DEF Messages!ToldOnce, Messages!Messages
  <2>1. /\ notified[m] \in 0..2 /\ told[m] \in Nat /\ kills \in Nat
        /\ notified[m] + Noticing(m) <= Stored(m) /\ told[m] <= kills + Marked(m) + Telling(m)
    BY <1>4 DEF InboxInv, Counts, Messages!TypeOK, Messages!Messages
  <2>2. Noticing(m) \in {0, 1} /\ Stored(m) \in {0, 1}
    BY DEF Noticing, Stored
  <2>3. Marked(m) + Telling(m) <= 1
    BY <1>4 DEF InboxInv, Cycling, Marked, Telling
  <2>4. Marked(m) \in {0, 1} /\ Telling(m) \in {0, 1}
    BY DEF Marked, Telling
  <2> QED BY <2>1, <2>2, <2>3, <2>4
<1>5. ASSUME InboxInv PROVE Messages!RepliesAreReal
  <2>1. recorded \in Nat /\ delivered \in Nat /\ recorded + Recording <= delivered
    BY <1>5 DEF InboxInv, Replying, Messages!TypeOK
  <2>2. Recording \in {0, 1}
    BY DEF Recording
  <2> QED BY <2>1, <2>2 DEF Messages!RepliesAreReal
<1>6. WorkspaceInv => WhatIsShownIsTrue
  BY <1>1, <1>2, <1>3, <1>4, <1>5 DEF WorkspaceInv, WhatIsShownIsTrue
<1> QED BY <1>6, WorkspaceHolds, PTL

\* Whichever part is at work, what it keeps stays in the states that its
\* database rows and its requests can have.
THEOREM WorkspaceTypes == Spec => []TypeOK
<1>1. ASSUME ApiInv, CountInv PROVE Api!TypeOK
  BY <1>1, ApiCount DEF ApiInv, ApiTyped, CountInv, Api!TypeOK
<1>2. WorkspaceInv => TypeOK
  BY <1>1 DEF WorkspaceInv, TypeOK, ShootInv, DashInv, PlacesInv, PortalInv, AccessInv, PeopleInv,
     MediaInv, FilesInv, InboxInv, FiguresInv
<1> QED BY <1>2, WorkspaceHolds, PTL

=============================================================================
