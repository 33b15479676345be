--------------------------- MODULE BackgroundProofs ---------------------------
(***************************************************************************)
(* What holds of the background work for any number of users, editors,     *)
(* members, deliveries and messages and any bound on attempts, kills and    *)
(* requests: the subscription's key works, nobody is told too often, and a  *)
(* cancelled deletion does not happen.                                      *)
(***************************************************************************)
EXTENDS MCBackground, TLAPS

\* The step of one part is a step of its module, and the others stand still.
LEMMA StepsOfParts ==
  [Next]_vars => /\ [Activating!Next]_Activating!vars
                 /\ [Paying!Next]_Paying!vars
                 /\ [Reminding!Next]_Reminding!vars
                 /\ [Delivering!Next]_Delivering!vars
                 /\ [Processing!Next]_Processing!vars
                 /\ [Polling!Next]_Polling!vars
                 /\ [Deleting!Next]_Deleting!vars
<1> SUFFICES ASSUME [Next]_vars
             PROVE  /\ [Activating!Next]_Activating!vars
                    /\ [Paying!Next]_Paying!vars
                    /\ [Reminding!Next]_Reminding!vars
                    /\ [Delivering!Next]_Delivering!vars
                    /\ [Processing!Next]_Processing!vars
                    /\ [Polling!Next]_Polling!vars
                    /\ [Deleting!Next]_Deleting!vars
  OBVIOUS
<1> USE DEF Only, vars, activation, checkout, reminders, deliveries, versions, inbox, deletion
<1>1. [Activating!Next]_Activating!vars
  BY DEF Next, Activating!vars
<1>2. [Paying!Next]_Paying!vars
  BY DEF Next, Paying!vars
<1>3. [Reminding!Next]_Reminding!vars
  BY DEF Next, Reminding!vars
<1>4. [Delivering!Next]_Delivering!vars
  BY DEF Next, Delivering!vars
<1>5. [Processing!Next]_Processing!vars
  BY DEF Next, Processing!vars
<1>6. [Polling!Next]_Polling!vars
  BY DEF Next, Polling!vars
<1>7. [Deleting!Next]_Deleting!vars
  BY DEF Next, Deleting!vars
<1> QED BY <1>1, <1>2, <1>3, <1>4, <1>5, <1>6, <1>7

-----------------------------------------------------------------------------
(* Activation.  An answer to the commit is held only while it is stored;    *)
(* while no two actors held one at once, at most one actor stores, so no    *)
(* key that is stored or about to be has been revoked.                      *)

Busy == {"preflight", "validated", "commit", "finalize"}
Storing(x) == at[x] = "finalize"

Worked == at["worker"] \in Busy => tasks > 0
Read == at["worker"] \in {"loaded", "answered"} => sub.status # "none"
HeldToStore == \A x \in Activating!Actors : held[x] # "none" => Storing(x)
OneStores == \A x, y \in Activating!Actors : Storing(x) /\ Storing(y) => x = y
NoneDead == \A x \in Activating!Actors : held[x] # "dead"

KeyInv ==
  /\ Activating!TypeOK
  /\ Worked /\ Read /\ HeldToStore
  /\ apart => /\ OneStores /\ NoneDead
              /\ sub.key # "dead"
              /\ sub.status # "none" => sub.key = "live"

-----------------------------------------------------------------------------
(* Reminders.  What was sent in a round is what the row counts, and one     *)
(* for the notice being sent and for each check killed after its notice.    *)

Sending(s) == IF doing.step = "reminded" /\ doing.stage = s THEN 1 ELSE 0
RemindInv ==
  /\ Reminding!TypeOK
  /\ doing.step \in {"remind", "reminded"} => doing.row.count < MaxReminders
  /\ alone /\ doing.step # "idle" => doing.row.count = reminder[doing.stage].count
  /\ alone => \A s \in Reminding!Stages : reminded[s] <= reminder[s].count + cuts + Sending(s)

-----------------------------------------------------------------------------
(* Deliveries.  An attempt is counted before it is made.                    *)

Attempting(d) == IF d \in trying THEN 1 ELSE 0
DeliverInv ==
  /\ Delivering!TypeOK
  /\ \A d \in 1..MaxDeliveries :
       /\ sent[d] + Attempting(d) <= delivery[d].attempts
       /\ d \in batch \ trying => delivery[d].attempts < 3
       /\ d \in batch => delivery[d].status # "absent"
       /\ delivery[d].status = "absent" => delivery[d].attempts = 0 /\ d \notin trying

-----------------------------------------------------------------------------
(* The inbox.  A message is noticed once it is created, and once told late  *)
(* it is marked before it can be told again, unless the cycle is cut.       *)

Noticing(m) == IF cycle.step = "created" /\ cycle.msg = m THEN 1 ELSE 0
Telling(m) == IF cycle.step = "told" /\ cycle.msg = m THEN 1 ELSE 0
Marked(m) == IF row[m].late THEN 1 ELSE 0
Stored(m) == IF row[m].known THEN 1 ELSE 0
Recording == IF reply.step = "sent" THEN 1 ELSE 0

Cycling ==
  /\ cycle.step \in {"created", "told"} => cycle.msg \in 1..MaxMessages
  /\ cycle.step \in {"late", "told"} =>
       \A m \in cycle.left : ~row[m].late /\ (cycle.step = "told" => cycle.msg # m)
  /\ cycle.step = "told" => ~row[cycle.msg].late
Replying ==
  /\ reply.step # "none" => reply.msg \in 1..MaxMessages
  /\ reply.step = "asked" => delivered < MaxReplies
  /\ recorded + Recording <= delivered
Counts(m) ==
  /\ notified[m] + Noticing(m) <= Stored(m)
  /\ told[m] <= breaks + Marked(m) + Telling(m)

InboxInv ==
  /\ Polling!TypeOK /\ Cycling /\ Replying
  /\ \A m \in 1..MaxMessages : Counts(m)

-----------------------------------------------------------------------------
(* The processing of media.                                                *)

VersionInv ==
  /\ Processing!TypeOK
  /\ \A e \in Editors : numbered[e].number = -1 => numbered[e] = Processing!NotEditing

-----------------------------------------------------------------------------
(* The deletion of an organization.                                        *)

DeletionInv ==
  /\ Deleting!TypeOK
  /\ scheduled <= latest /\ ripe <= latest
  /\ \A r \in 1..2 : web[r].step = "enqueue" => web[r].number # 0
  /\ worker.step = "delete" => scheduled # 0 \/ crossed
  /\ erased => scheduled # 0 \/ crossed

BackgroundInv ==
  /\ KeyInv /\ Paying!TypeOK /\ RemindInv /\ DeliverInv /\ VersionInv /\ InboxInv
  /\ DeletionInv

\* A queue of numbered tasks that one more joins.
LEMMA OneMore ==
  ASSUME NEW q, NEW S, NEW t \in S, q \subseteq S
  PROVE  q \cup {t} \subseteq S /\ q \subseteq q \cup {t}
OBVIOUS

WebTypes == [step: {"idle", "enqueue", "clear"}, number: 0..MaxRequests]

LEMMA IdleRequest == Deleting!Idle \in WebTypes
BY BoundAssumption DEF Deleting!Idle, WebTypes

LEMMA DeletionInit == Deleting!Init => DeletionInv
<1> SUFFICES ASSUME Deleting!Init PROVE DeletionInv
  OBVIOUS
<1>1. web \in [1..2 -> WebTypes] /\ \A r \in 1..2 : web[r].step = "idle"
  BY IdleRequest DEF Deleting!Init, Deleting!Idle
<1>2. worker \in [step: {"idle", "delete", "settle"}, number: 0..MaxRequests] /\ worker.step = "idle"
  BY BoundAssumption DEF Deleting!Init, Deleting!Idle
<1>3. Deleting!TypeOK
  <2>1. 0 \in Deleting!Numbers
    BY BoundAssumption DEF Deleting!Numbers
  <2>2. worker \in [step: {"idle", "delete", "settle"}, number: Deleting!Numbers]
    BY <1>2 DEF Deleting!Numbers
  <2>3. web \in [1..2 -> [step: {"idle", "enqueue", "clear"}, number: Deleting!Numbers]]
    BY <1>1 DEF WebTypes, Deleting!Numbers
  <2>4. jobs = {} /\ homeless = {} /\ scheduled = 0 /\ latest = 0 /\ ripe = 0
        /\ erased = FALSE /\ crossed = FALSE /\ hurt = FALSE
    BY DEF Deleting!Init
  <2> QED BY <2>1, <2>2, <2>3, <2>4 DEF Deleting!TypeOK
<1>4. scheduled <= latest /\ ripe <= latest /\ ~erased
  BY DEF Deleting!Init
<1> QED BY <1>1, <1>2, <1>3, <1>4 DEF DeletionInv

LEMMA DeletionNext == DeletionInv /\ [Deleting!Next]_Deleting!vars => DeletionInv'
<1> SUFFICES ASSUME DeletionInv, [Deleting!Next]_Deleting!vars PROVE DeletionInv'
  OBVIOUS
<1> USE BoundAssumption DEF DeletionInv, Deleting!TypeOK, Deleting!Numbers, Deleting!Idle
<1>1. ASSUME NEW r \in 1..2, Deleting!Request(r) PROVE DeletionInv'
  BY <1>1 DEF Deleting!Request, Deleting!Begins
<1>2. ASSUME NEW r \in 1..2, Deleting!Enqueue(r) PROVE DeletionInv'
  <2>1. web' \in [1..2 -> WebTypes] /\ \A q \in 1..2 : web'[q] = IF q = r THEN Deleting!Idle ELSE web[q]
    BY <1>2, IdleRequest DEF Deleting!Enqueue, Deleting!Ends, WebTypes
  <2>2. web[r].number \in 1..MaxRequests
    BY <1>2 DEF Deleting!Enqueue
  <2>3. \A n \in jobs' : n \in 1..MaxRequests
    BY <1>2, <2>2 DEF Deleting!Enqueue
  <2>4. Deleting!TypeOK'
    BY <1>2, <2>1, <2>3 DEF Deleting!Enqueue, WebTypes
  <2>5. \A q \in 1..2 : web'[q].step = "enqueue" => web'[q].number # 0
    BY <2>1
  <2> QED BY <1>2, <2>4, <2>5 DEF Deleting!Enqueue
<1>3. ASSUME NEW r \in 1..2, Deleting!Cancel(r) PROVE DeletionInv'
  BY <1>3 DEF Deleting!Cancel, Deleting!Begins
<1>4. ASSUME NEW r \in 1..2, Deleting!Clear(r) PROVE DeletionInv'
  <2>1. web' \in [1..2 -> WebTypes] /\ \A q \in 1..2 : web'[q] = IF q = r THEN Deleting!Idle ELSE web[q]
    BY <1>4, IdleRequest DEF Deleting!Clear, Deleting!Ends, WebTypes
  <2>2. crossed' \in BOOLEAN
    BY <1>4 DEF Deleting!Clear
  <2>3. Deleting!TypeOK'
    BY <1>4, <2>1, <2>2 DEF Deleting!Clear, WebTypes
  <2>4. \A q \in 1..2 : web'[q].step = "enqueue" => web'[q].number # 0
    BY <2>1
  <2>5. scheduled' \in {0, scheduled} /\ (erased => scheduled' = scheduled)
    BY <1>4 DEF Deleting!Clear
  <2>6. scheduled' <= latest' /\ ripe' <= latest'
    BY <1>4, <2>5 DEF Deleting!Clear
  <2>7. (worker'.step = "delete" => crossed') /\ (erased' => scheduled' # 0 \/ crossed')
    BY <1>4, <2>5 DEF Deleting!Clear
  <2> QED BY <2>3, <2>4, <2>6, <2>7
<1>5. ASSUME NEW r \in 1..2, Deleting!DeleteNow(r) PROVE DeletionInv'
  BY <1>5 DEF Deleting!DeleteNow
<1>6. ASSUME NEW r \in 1..2, Deleting!KillWeb(r) PROVE DeletionInv'
  BY <1>6 DEF Deleting!KillWeb, Deleting!Ends
<1>7. CASE Deleting!GraceEnds
  BY <1>7 DEF Deleting!GraceEnds
<1>8. CASE Deleting!Delete
  BY <1>8 DEF Deleting!Delete
<1>9. CASE Deleting!Done
  <2>1. jobs' \subseteq jobs
    BY <1>9 DEF Deleting!Done
  <2>2. worker' \in [step: {"idle", "delete", "settle"}, number: 0..MaxRequests] /\ worker'.step = "idle"
    BY <1>9 DEF Deleting!Done
  <2> QED BY <1>9, <2>1, <2>2 DEF Deleting!Done
<1>10. CASE Deleting!Kill
  BY <1>10 DEF Deleting!Kill
<1>11. ASSUME NEW n \in 1..MaxRequests, Deleting!Run(n) PROVE DeletionInv'
  <2>1. jobs' \subseteq jobs
    BY <1>11 DEF Deleting!Run
  <2>2. n \in Deleting!Numbers
    OBVIOUS
  <2>3. \/ worker' = worker
        \/ /\ worker' = [step |-> "delete", number |-> n]
           /\ scheduled # 0
    BY <1>11 DEF Deleting!Run
  <2>4. worker' \in [step: {"idle", "delete", "settle"}, number: 0..MaxRequests]
    BY <2>2, <2>3
  <2> QED BY <1>11, <2>1, <2>3, <2>4 DEF Deleting!Run
<1>12. ASSUME NEW m \in Members, Deleting!Settle(m) PROVE DeletionInv'
  BY <1>12 DEF Deleting!Settle
<1>13. CASE UNCHANGED Deleting!vars
  BY <1>13 DEF Deleting!vars
<1> QED BY <1>1, <1>2, <1>3, <1>4, <1>5, <1>6, <1>7, <1>8, <1>9, <1>10, <1>11, <1>12, <1>13
        DEF Deleting!Next

-----------------------------------------------------------------------------
(* Checkouts: only the types matter here.                                  *)

Attempts == [status: {"absent", "activated", "expired", "canceled", "creating", "open"},
             linked: BOOLEAN]

LEMMA OpenAttempt == [status |-> "open", linked |-> TRUE] \in Attempts
BY DEF Attempts

LEMMA CheckoutRows == \A s \in {"s1", "s2"} : <<s, "checkout">> \in Paying!Rows
BY DEF Paying!Rows

LEMMA CheckoutInit == Paying!Init => Paying!TypeOK
BY DEF Paying!Init, Paying!TypeOK, Paying!NoRow, Paying!Taken, Paying!None, Paying!InProgress

LEMMA CheckoutNext == Paying!TypeOK /\ [Paying!Next]_Paying!vars => Paying!TypeOK'
<1> SUFFICES ASSUME Paying!TypeOK, [Paying!Next]_Paying!vars PROVE Paying!TypeOK'
  OBVIOUS
<1> USE DEF Paying!TypeOK, Paying!NoRow, Paying!Taken, Paying!None, Paying!InProgress, Paying!Rows,
            Paying!Go, Paying!Set, Paying!Own, Paying!Current, Paying!Linked
<1>1. ASSUME NEW s \in {"s1", "s2"}, Paying!Reserve(s) PROVE Paying!TypeOK'
  BY <1>1 DEF Paying!Reserve
<1>2. ASSUME NEW s \in {"s1", "s2"}, Paying!Opened(s) PROVE Paying!TypeOK'
  BY <1>2 DEF Paying!Opened
<1>3. ASSUME NEW s \in {"s1", "s2"}, Paying!Refused(s) PROVE Paying!TypeOK'
  BY <1>3 DEF Paying!Refused
<1>4. ASSUME NEW s \in {"s1", "s2"}, Paying!NoAnswer(s) PROVE Paying!TypeOK'
  BY <1>4 DEF Paying!NoAnswer
<1>5. ASSUME NEW s \in {"s1", "s2"}, Paying!Save(s) PROVE Paying!TypeOK'
  <2>1. paying' = paying \/ paying' = [paying EXCEPT ![<<s, "checkout">>] = [status |-> "open", linked |-> TRUE]]
    BY <1>5 DEF Paying!Save
  <2>2. paying' \in [Paying!Rows -> Attempts]
    <3>1. paying \in [Paying!Rows -> Attempts]
      BY DEF Attempts
    <3> HIDE DEF Paying!Rows, Paying!TypeOK
    <3> QED BY <2>1, <3>1, OpenAttempt
  <2> QED BY <1>5, <2>2 DEF Paying!Save, Attempts
<1>6. ASSUME NEW s \in {"s1", "s2"}, Paying!Kill(s) PROVE Paying!TypeOK'
  BY <1>6 DEF Paying!Kill
<1>7. ASSUME NEW s \in {"s1", "s2"}, Paying!Pay(s) \/ Paying!Lapse(s) PROVE Paying!TypeOK'
  BY <1>7 DEF Paying!Pay, Paying!Lapse
<1>8. ASSUME NEW s \in {"s1", "s2"}, Paying!Activate(s) PROVE Paying!TypeOK'
  BY <1>8 DEF Paying!Activate
<1>9. ASSUME NEW s \in {"s1", "s2"}, Paying!Recover(s) PROVE Paying!TypeOK'
  <2> DEFINE opened == [status |-> "open", linked |-> TRUE]
             swept(r) == [paying[r] EXCEPT !.status = "expired"]
  <2>0. paying \in [Paying!Rows -> Attempts]
    BY DEF Attempts
  <2>1. \/ \E r \in Paying!Rows : paying' = [paying EXCEPT ![r] = [paying[r] EXCEPT !.status = "open"]]
        \/ paying' = [r \in Paying!Rows |-> IF r = <<s, "recover">> THEN opened
                        ELSE IF paying[r].status \in Paying!InProgress THEN swept(r) ELSE paying[r]]
    BY <1>9 DEF Paying!Recover
  <2>2. \A r \in Paying!Rows : paying[r] \in Attempts /\ swept(r) \in Attempts
    BY DEF Attempts
  <2>3. \A r \in Paying!Rows : [paying[r] EXCEPT !.status = "open"] \in Attempts
    BY DEF Attempts
  <2>4. opened \in Attempts
    BY OpenAttempt
  <2> HIDE DEF opened, swept, Paying!Rows, Paying!TypeOK
  <2>5. paying' \in [Paying!Rows -> Attempts]
    <3>1. CASE \E r \in Paying!Rows : paying' = [paying EXCEPT ![r] = [paying[r] EXCEPT !.status = "open"]]
      BY <2>0, <2>3, <3>1
    <3>2. CASE paying' = [r \in Paying!Rows |-> IF r = <<s, "recover">> THEN opened
                           ELSE IF paying[r].status \in Paying!InProgress THEN swept(r) ELSE paying[r]]
      BY <2>2, <2>4, <3>2
    <3> QED BY <2>1, <3>1, <3>2
  <2> QED BY <1>9, <2>5 DEF Paying!Recover, Attempts, Paying!TypeOK
<1>10. CASE Paying!DiscardRead
  BY <1>10 DEF Paying!DiscardRead
<1>11. CASE Paying!DiscardCancel
  BY <1>11 DEF Paying!DiscardCancel
<1>12. CASE Paying!DiscardFails
  BY <1>12 DEF Paying!DiscardFails
<1>13. CASE Paying!DiscardSave
  BY <1>13 DEF Paying!DiscardSave
<1>14. CASE UNCHANGED Paying!vars
  BY <1>14 DEF Paying!vars
<1> QED BY <1>1, <1>2, <1>3, <1>4, <1>5, <1>6, <1>7, <1>8, <1>9, <1>10, <1>11, <1>12, <1>13, <1>14
        DEF Paying!Next

-----------------------------------------------------------------------------
(* Media.                                                                  *)

Edits == [number: 1..MaxVersions \cup {-1}, from: 1..MaxVersions \cup {-1}, copy: 0..MaxVersions]

LEMMA NoEdit == Processing!NotEditing \in Edits
BY BoundAssumption DEF Processing!NotEditing, Edits, Processing!None, Processing!Original

LEMMA VersionInit == Processing!Init => VersionInv
<1> SUFFICES ASSUME Processing!Init PROVE VersionInv
  OBVIOUS
<1>1. numbered \in [Editors -> Edits] /\ \A e \in Editors : numbered[e] = Processing!NotEditing
  BY NoEdit DEF Processing!Init
<1>2. Processing!TypeOK
  <2>1. 0 \in Processing!Files /\ 0 \in 0..MaxKills
    BY BoundAssumption DEF Processing!Files
  <2>2. version \in [Processing!Numbers -> Processing!Files \cup {Processing!None}]
    BY DEF Processing!Init
  <2>3. numbered \in [Editors -> [number: Processing!Numbers \cup {Processing!None},
                         from: Processing!Numbers \cup {Processing!None}, copy: Processing!Files]]
    BY <1>1 DEF Edits, Processing!Numbers, Processing!None, Processing!Files
  <2>4. status = "none" /\ shared = FALSE /\ uploading = FALSE /\ file = 0 /\ queue = {}
        /\ thumb = Processing!None /\ running = Processing!None /\ base = 0 /\ gone = FALSE /\ stops = 0
    BY DEF Processing!Init, Processing!Original
  <2> QED BY <2>1, <2>2, <2>3, <2>4 DEF Processing!TypeOK
<1> QED BY <1>1, <1>2 DEF VersionInv

LEMMA VersionNext == VersionInv /\ [Processing!Next]_Processing!vars => VersionInv'
<1> SUFFICES ASSUME VersionInv, [Processing!Next]_Processing!vars PROVE VersionInv'
  OBVIOUS
<1> USE BoundAssumption DEF VersionInv, Processing!TypeOK, Processing!Files, Processing!None,
   Processing!Original, Processing!NotEditing, Processing!Tasks, Processing!Numbers, Processing!upload,
   Processing!Process
<1>1. CASE Processing!Upload \/ Processing!SharedUpload
  BY <1>1 DEF Processing!Upload, Processing!SharedUpload, Processing!Insert
<1>2. CASE Processing!Enqueue \/ Processing!KillUpload
  <2>1. queue' = queue \/ queue' = queue \cup {0}
    BY <1>2 DEF Processing!Enqueue, Processing!KillUpload
  <2>2. queue' \subseteq 0..MaxVersions /\ queue \subseteq queue'
    <3>1. 0 \in 0..MaxVersions
      OBVIOUS
    <3> QED BY <2>1, <3>1, OneMore
  <2>3. Processing!TypeOK'
    <3>1. running' = running /\ uploading' = FALSE
          /\ (stops' = stops \/ (stops < MaxKills /\ stops' = stops + 1))
      BY <1>2 DEF Processing!Enqueue, Processing!KillUpload
    <3>2. UNCHANGED <<status, shared, file, thumb, version, base, numbered, gone>>
      BY <1>2 DEF Processing!Enqueue, Processing!KillUpload
    <3>3. stops' \in 0..MaxKills
      BY <3>1
    <3>4. running' \in queue' \cup {-1}
      BY <2>2, <3>1
    <3> QED BY <2>2, <3>1, <3>2, <3>3, <3>4
  <2> QED BY <1>2, <2>3 DEF Processing!Enqueue, Processing!KillUpload
<1>3. ASSUME NEW e \in Editors, Processing!BeginEdit(e) \/ Processing!BeginSharedEdit(e) PROVE VersionInv'
  <2>1. PICK n \in 1..MaxVersions :
          numbered' = [numbered EXCEPT ![e] = [number |-> n, from |-> -1, copy |-> file]]
    BY <1>3 DEF Processing!BeginEdit, Processing!BeginSharedEdit, Processing!Begin
  <2>2. [number |-> n, from |-> -1, copy |-> file] \in Edits
    BY DEF Edits
  <2>3. numbered' \in [Editors -> Edits]
    BY <2>1, <2>2 DEF Edits
  <2>4. \A f \in Editors : numbered'[f].number = -1 => numbered'[f] = Processing!NotEditing
    BY <2>1
  <2> QED BY <1>3, <2>3, <2>4 DEF Processing!BeginEdit, Processing!BeginSharedEdit, Processing!Begin, Edits
<1>4. ASSUME NEW e \in Editors, NEW n \in 1..MaxVersions, Processing!BeginRestore(e, n) PROVE VersionInv'
  BY <1>4 DEF Processing!BeginRestore, Processing!Begin, Processing!Made
<1>5. ASSUME NEW e \in Editors, Processing!InsertVersion(e) PROVE VersionInv'
  <2> DEFINE n == numbered[e].number
             copy == numbered[e].copy
             from == numbered[e].from
  <2>1. numbered' = [numbered EXCEPT ![e] = Processing!NotEditing]
    BY <1>5 DEF Processing!InsertVersion
  <2>2. numbered' \in [Editors -> Edits]
    BY <2>1, NoEdit DEF Edits
  <2>3. \A f \in Editors : numbered'[f].number = -1 => numbered'[f] = Processing!NotEditing
    BY <2>1
  <2>4. n \in 1..MaxVersions /\ copy \in 0..MaxVersions /\ from \in 1..MaxVersions \cup {-1}
    BY <1>5 DEF Processing!InsertVersion
  <2>5. /\ version' = version \/ version' = [version EXCEPT ![n] = copy]
        /\ queue' = queue \/ queue' = queue \cup {n}
        /\ file' \in {file, copy}
        /\ thumb' \in {thumb, -1} \/ (from # -1 /\ thumb' = from)
    BY <1>5 DEF Processing!InsertVersion
  <2> HIDE DEF n, copy, from
  <2>6. version' \in [1..MaxVersions -> 0..MaxVersions \cup {-1}]
    BY <2>4, <2>5
  <2>7. queue' \subseteq 0..MaxVersions /\ queue \subseteq queue'
    <3>1. n \in 0..MaxVersions
      BY <2>4
    <3> QED BY <2>5, <3>1, OneMore
  <2>8. file' \in 0..MaxVersions /\ thumb' \in 0..MaxVersions \cup {-1}
    BY <2>4, <2>5
  <2> QED BY <1>5, <2>2, <2>3, <2>6, <2>7, <2>8 DEF Processing!InsertVersion, Edits
<1>6. ASSUME NEW t \in Processing!Tasks, Processing!Start(t) \/ Processing!Skip(t) PROVE VersionInv'
  BY <1>6 DEF Processing!Start, Processing!Skip
<1>7. CASE Processing!Delete \/ Processing!SharedDelete
  BY <1>7 DEF Processing!Delete, Processing!SharedDelete, Processing!DeleteRow
<1>8. CASE Processing!Succeed
  BY <1>8 DEF Processing!Succeed, Processing!Finish
<1>9. CASE Processing!Fail
  BY <1>9 DEF Processing!Fail, Processing!Finish
<1>10. CASE Processing!Kill
  BY <1>10 DEF Processing!Kill
<1>11. CASE UNCHANGED Processing!vars
  BY <1>11 DEF Processing!vars
<1> QED BY <1>1, <1>2, <1>3, <1>4, <1>5, <1>6, <1>7, <1>8, <1>9, <1>10, <1>11 DEF Processing!Next

LEMMA DeliverInit == Delivering!Init => DeliverInv
<1> SUFFICES ASSUME Delivering!Init PROVE DeliverInv
  OBVIOUS
<1>1. [status |-> "absent", attempts |-> 0, retry |-> "none"] \in Delivering!Row
  BY DEF Delivering!Row, Delivering!Ended
<1>2. \A d \in 1..MaxDeliveries : sent[d] = 0 /\ d \notin batch /\ d \notin trying
  BY DEF Delivering!Init
<1>3. \A d \in 1..MaxDeliveries : delivery[d].attempts = 0 /\ delivery[d].status = "absent"
  BY DEF Delivering!Init
<1>4. Delivering!TypeOK
  BY <1>1 DEF Delivering!Init, Delivering!TypeOK
<1> QED BY <1>2, <1>3, <1>4 DEF DeliverInv, Attempting

\* What a step does to one delivery leaves the others as they were.
Kept(d) ==
  /\ sent[d] + Attempting(d) <= delivery[d].attempts
  /\ d \in batch \ trying => delivery[d].attempts < 3
  /\ d \in batch => delivery[d].status # "absent"
  /\ delivery[d].status = "absent" => delivery[d].attempts = 0 /\ d \notin trying

Others(d) == \A e \in (1..MaxDeliveries) \ {d} :
  /\ delivery'[e] = delivery[e] /\ sent'[e] = sent[e]
  /\ e \in trying' <=> e \in trying
  /\ e \in batch' => e \in batch

LEMMA OthersAreKept ==
  ASSUME DeliverInv, NEW d \in 1..MaxDeliveries, Others(d), Kept(d)', Delivering!TypeOK'
  PROVE  DeliverInv'
<1>1. ASSUME NEW e \in 1..MaxDeliveries, e # d PROVE Kept(e)'
  <2>1. Kept(e)
    BY DEF DeliverInv, Kept
  <2>2. /\ delivery'[e] = delivery[e] /\ sent'[e] = sent[e]
        /\ e \in trying' <=> e \in trying
        /\ e \in batch' => e \in batch
    BY <1>1 DEF Others
  <2> QED BY <2>1, <2>2 DEF Kept, Attempting
<1>2. \A e \in 1..MaxDeliveries : Kept(e)'
  BY <1>1
<1> QED BY <1>2 DEF DeliverInv, Kept

\* A message that reached the channel is counted once.
LEMMA Counted ==
  ASSUME sent \in [1..MaxDeliveries -> 0..4], NEW d \in 1..MaxDeliveries,
         UNCHANGED sent \/ Delivering!Reached(d)
  PROVE  /\ sent' \in [1..MaxDeliveries -> 0..4] /\ sent'[d] <= sent[d] + 1
         /\ \A e \in (1..MaxDeliveries) \ {d} : sent'[e] = sent[e]
<1> DEFINE n == IF sent[d] > 3 THEN sent[d] ELSE sent[d] + 1
<1>1. n \in 0..4 /\ n <= sent[d] + 1 /\ sent[d] \in 0..4
  OBVIOUS
<1>2. CASE UNCHANGED sent
  BY <1>1, <1>2
<1>3. CASE Delivering!Reached(d)
  <2>1. sent' = [sent EXCEPT ![d] = n]
    BY <1>3 DEF Delivering!Reached
  <2> HIDE DEF n
  <2> QED BY <1>1, <2>1
<1> QED BY <1>2, <1>3

LEMMA DeliverNext == DeliverInv /\ [Delivering!Next]_Delivering!vars => DeliverInv'
<1> SUFFICES ASSUME DeliverInv, [Delivering!Next]_Delivering!vars PROVE DeliverInv'
  OBVIOUS
<1>0. Delivering!TypeOK /\ \A d \in 1..MaxDeliveries : Kept(d)
  BY DEF DeliverInv, Kept
<1>a. \A d \in 1..MaxDeliveries : delivery[d] \in Delivering!Row /\ sent[d] \in 0..4
  BY <1>0 DEF Delivering!TypeOK
<1>1. ASSUME NEW d \in 1..MaxDeliveries, Delivering!Notify(d) PROVE DeliverInv'
  <2> DEFINE r == [delivery[d] EXCEPT !.status = "pending", !.attempts = 1]
  <2>1. r \in Delivering!Row /\ r.status = "pending" /\ r.attempts = 1
    <3> DEFINE p == [delivery[d] EXCEPT !.status = "pending"]
    <3>1. p \in Delivering!Row /\ p.status = "pending"
      BY <1>a DEF Delivering!Row
    <3>2. r = [p EXCEPT !.attempts = 1]
      OBVIOUS
    <3> HIDE DEF p, r
    <3> QED BY <3>1, <3>2 DEF Delivering!Row
  <2>2. delivery' = [delivery EXCEPT ![d] = r] /\ trying' = trying \cup {d} /\ UNCHANGED <<batch, sent, cut>>
    BY <1>1 DEF Delivering!Notify
  <2>3. delivery[d].status = "absent"
    BY <1>1 DEF Delivering!Notify
  <2> HIDE DEF r
  <2>4. Delivering!TypeOK' /\ delivery'[d] = r
    BY <1>0, <2>1, <2>2 DEF Delivering!TypeOK
  <2>5. Others(d)
    BY <1>0, <2>2 DEF Others, Delivering!TypeOK
  <2>6. Kept(d)'
    BY <1>0, <1>a, <2>1, <2>2, <2>3, <2>4 DEF Kept, Attempting, Delivering!Row
  <2> QED BY <2>4, <2>5, <2>6, OthersAreKept
<1>2. ASSUME NEW d \in 1..MaxDeliveries, Delivering!FallDue(d) PROVE DeliverInv'
  <2> DEFINE r == [delivery[d] EXCEPT !.retry = "due"]
  <2>1. r \in Delivering!Row /\ r.status = delivery[d].status /\ r.attempts = delivery[d].attempts
    BY <1>a DEF Delivering!Row
  <2>2. delivery' = [delivery EXCEPT ![d] = r] /\ UNCHANGED <<trying, batch, sent, cut>>
    BY <1>2 DEF Delivering!FallDue
  <2> HIDE DEF r
  <2>4. Delivering!TypeOK' /\ delivery'[d] = r
    BY <1>0, <2>1, <2>2 DEF Delivering!TypeOK
  <2>5. Others(d)
    BY <1>0, <2>2 DEF Others, Delivering!TypeOK
  <2>6. Kept(d)'
    BY <1>0, <2>1, <2>2, <2>4 DEF Kept, Attempting
  <2> QED BY <2>4, <2>5, <2>6, OthersAreKept
<1>3. ASSUME NEW d \in 1..MaxDeliveries, Delivering!Retry(d) PROVE DeliverInv'
  <2> DEFINE r == [delivery[d] EXCEPT !.attempts = @ + 1]
  <2>1. d \in batch /\ d \notin trying
    BY <1>3 DEF Delivering!Retry
  <2>2. r \in Delivering!Row /\ r.status = delivery[d].status /\ r.attempts = delivery[d].attempts + 1
    BY <1>0, <1>a, <2>1 DEF Delivering!Row, Kept
  <2>3. delivery' = [delivery EXCEPT ![d] = r] /\ trying' = trying \cup {d} /\ UNCHANGED <<batch, sent, cut>>
    BY <1>3 DEF Delivering!Retry
  <2> HIDE DEF r
  <2>4. Delivering!TypeOK' /\ delivery'[d] = r
    BY <1>0, <2>2, <2>3 DEF Delivering!TypeOK
  <2>5. Others(d)
    BY <1>0, <2>3 DEF Others, Delivering!TypeOK
  <2>6. Kept(d)'
    BY <1>0, <1>a, <2>1, <2>2, <2>3, <2>4 DEF Kept, Attempting, Delivering!Row
  <2> QED BY <2>4, <2>5, <2>6, OthersAreKept
<1>4. ASSUME NEW d \in 1..MaxDeliveries, NEW r \in Delivering!Row, Delivering!Result(d, r),
             r.status # "absent", r.attempts = delivery[d].attempts,
             UNCHANGED sent \/ Delivering!Reached(d)
      PROVE  DeliverInv'
  <2>1. /\ delivery' = [delivery EXCEPT ![d] = r] /\ UNCHANGED cut
        /\ trying' = trying \ {d} /\ batch' = batch \ {d} /\ d \in trying
    BY <1>4 DEF Delivering!Result
  <2>2. sent' \in [1..MaxDeliveries -> 0..4] /\ sent'[d] <= sent[d] + 1
        /\ \A e \in (1..MaxDeliveries) \ {d} : sent'[e] = sent[e]
    BY <1>0, <1>4, Counted DEF Delivering!TypeOK
  <2>3. Delivering!TypeOK' /\ delivery'[d] = r
    BY <1>0, <2>1, <2>2 DEF Delivering!TypeOK
  <2>4. Others(d)
    BY <1>0, <2>1, <2>2 DEF Others, Delivering!TypeOK
  <2>5. Kept(d)'
    BY <1>0, <1>4, <1>a, <2>1, <2>2, <2>3 DEF Kept, Attempting, Delivering!Row
  <2> QED BY <2>3, <2>4, <2>5, OthersAreKept
<1>5. ASSUME NEW d \in 1..MaxDeliveries, Delivering!Delivered(d) PROVE DeliverInv'
  <2> DEFINE r == [delivery[d] EXCEPT !.status = "delivered"]
  <2>1. r \in Delivering!Row /\ r.status = "delivered" /\ r.attempts = delivery[d].attempts
    BY <1>a DEF Delivering!Row, Delivering!Ended
  <2> QED BY <1>4, <1>5, <2>1 DEF Delivering!Delivered
<1>6. ASSUME NEW d \in 1..MaxDeliveries, Delivering!Failed(d) PROVE DeliverInv'
  <2> DEFINE f == [delivery[d] EXCEPT !.status = "failed"]
             p == [delivery[d] EXCEPT !.status = "pending", !.retry = "later"]
  <2>1. f \in Delivering!Row /\ f.status = "failed" /\ f.attempts = delivery[d].attempts
    BY <1>a DEF Delivering!Row, Delivering!Ended
  <2>2. p \in Delivering!Row /\ p.status = "pending" /\ p.attempts = delivery[d].attempts
    BY <1>a DEF Delivering!Row, Delivering!Ended
  <2>3. (Delivering!Result(d, f) \/ Delivering!Result(d, p)) /\ (UNCHANGED sent \/ Delivering!Reached(d))
    BY <1>6 DEF Delivering!Failed
  <2> HIDE DEF f, p
  <2> QED BY <1>4, <2>1, <2>2, <2>3
<1>7. ASSUME NEW d \in 1..MaxDeliveries, Delivering!Kill(d) PROVE DeliverInv'
  <2>1. /\ delivery' = delivery /\ cut' = cut \cup {d} /\ d \in trying
        /\ trying' = trying \ {d} /\ batch' \in {batch, {}} /\ d \notin batch'
    BY <1>7 DEF Delivering!Kill
  <2>2. sent' \in [1..MaxDeliveries -> 0..4] /\ sent'[d] <= sent[d] + 1
        /\ \A e \in (1..MaxDeliveries) \ {d} : sent'[e] = sent[e]
    <3>1. UNCHANGED sent \/ Delivering!Reached(d)
      BY <1>7 DEF Delivering!Kill
    <3> QED BY <1>0, <3>1, Counted DEF Delivering!TypeOK
  <2>3. Delivering!TypeOK'
    BY <1>0, <2>1, <2>2 DEF Delivering!TypeOK
  <2>4. Others(d)
    BY <2>1, <2>2 DEF Others
  <2>5. Kept(d)'
    BY <1>0, <1>a, <2>1, <2>2 DEF Kept, Attempting, Delivering!Row
  <2> QED BY <2>3, <2>4, <2>5, OthersAreKept
<1>8. ASSUME NEW D \in SUBSET (1..MaxDeliveries), Delivering!Sweep(D) PROVE DeliverInv'
  <2>1. batch' = D /\ D \subseteq Delivering!Due /\ UNCHANGED <<delivery, trying, sent, cut>>
    BY <1>8 DEF Delivering!Sweep
  <2>2. Delivering!TypeOK'
    BY <1>0, <2>1 DEF Delivering!TypeOK
  <2>3. ASSUME NEW d \in 1..MaxDeliveries PROVE Kept(d)'
    BY <1>0, <2>1 DEF Kept, Attempting, Delivering!Due, Delivering!Pending, Delivering!Attempts
  <2> QED BY <2>2, <2>3 DEF DeliverInv, Kept
<1>9. CASE UNCHANGED Delivering!vars
  BY <1>9 DEF DeliverInv, Delivering!vars, Delivering!TypeOK, Attempting
<1> QED BY <1>1, <1>2, <1>3, <1>5, <1>6, <1>7, <1>8, <1>9 DEF Delivering!Next

-----------------------------------------------------------------------------
(* Reminders.                                                              *)

LEMMA RemindInit == Reminding!Init => RemindInv
<1> SUFFICES ASSUME Reminding!Init PROVE RemindInv
  OBVIOUS
<1>1. Reminding!NoReminder \in Reminding!Rows
  BY BoundAssumption DEF Reminding!NoReminder, Reminding!Rows, Reminding!Old
<1>2. doing = Reminding!Idle /\ doing.step = "idle"
  BY DEF Reminding!Init, Reminding!Idle
<1>3. doing \in [step: Reminding!Steps, stage: Reminding!Stages, row: Reminding!Rows]
  BY <1>1, <1>2 DEF Reminding!Idle, Reminding!Steps, Reminding!Stages
<1>4. Reminding!TypeOK
  BY <1>1, <1>3, BoundAssumption DEF Reminding!Init, Reminding!TypeOK, Reminding!Old
<1>5. \A s \in Reminding!Stages : reminder[s].count = 0 /\ reminded[s] = 0
  BY DEF Reminding!Init, Reminding!NoReminder
<1>6. cuts = 0
  BY DEF Reminding!Init
<1> QED BY <1>2, <1>4, <1>5, <1>6 DEF RemindInv, Sending

LEMMA RemindNext == RemindInv /\ [Reminding!Next]_Reminding!vars => RemindInv'
<1> SUFFICES ASSUME RemindInv, [Reminding!Next]_Reminding!vars PROVE RemindInv'
  OBVIOUS
<1>0. /\ Reminding!TypeOK
      /\ doing.step \in {"remind", "reminded"} => doing.row.count < MaxReminders
      /\ alone /\ doing.step # "idle" => doing.row.count = reminder[doing.stage].count
      /\ alone => \A s \in Reminding!Stages : reminded[s] <= reminder[s].count + cuts + Sending(s)
  BY DEF RemindInv
<1>a. /\ doing \in [step: Reminding!Steps, stage: Reminding!Stages, row: Reminding!Rows]
      /\ reminder \in [Reminding!Stages -> Reminding!Rows]
      /\ reminded \in [Reminding!Stages -> Nat] /\ cuts \in 0..MaxKills
  BY <1>0 DEF Reminding!TypeOK
<1>b. \A s \in Reminding!Stages : reminder[s] \in Reminding!Rows /\ reminder[s].count \in 0..MaxReminders
                                  /\ reminded[s] \in Nat
  BY <1>a DEF Reminding!Rows
<1>c. Reminding!NoReminder \in Reminding!Rows /\ Reminding!NoReminder.count = 0
  BY BoundAssumption DEF Reminding!NoReminder, Reminding!Rows, Reminding!Old
<1>d. Reminding!Idle \in [step: Reminding!Steps, stage: Reminding!Stages, row: Reminding!Rows]
      /\ Reminding!Idle.step = "idle"
  BY <1>c DEF Reminding!Idle, Reminding!Steps, Reminding!Stages
<1>1. ASSUME NEW s \in Reminding!Stages, Reminding!Enter(s) PROVE RemindInv'
  <2>1. /\ reminder' = [reminder EXCEPT ![s] = Reminding!NoReminder]
        /\ reminded' = [reminded EXCEPT ![s] = 0] /\ escalated' = [escalated EXCEPT ![s] = FALSE]
        /\ rounds' = rounds + 1 /\ rounds < MaxRounds /\ waiting' = waiting \cup {s}
        /\ mute' = [mute EXCEPT ![s] = FALSE]
        /\ UNCHANGED <<age, doing, cuts>> /\ alone' \in BOOLEAN
        /\ alone' => alone /\ (doing.step = "idle" \/ doing.stage # s)
    BY <1>0, <1>1 DEF Reminding!Enter, Reminding!Round, Reminding!TypeOK
  <2>2. Reminding!TypeOK'
    BY <1>0, <1>c, <2>1, BoundAssumption DEF Reminding!TypeOK
  <2>3. ASSUME alone', NEW z \in Reminding!Stages
        PROVE  reminded'[z] <= reminder'[z].count + cuts' + Sending(z)'
    <3>1. CASE z = s
      <4>1. reminded'[z] = 0 /\ reminder'[z].count = 0
        BY <1>a, <1>c, <2>1, <3>1
      <4> QED BY <1>a, <2>1, <4>1, BoundAssumption DEF Sending
    <3>2. CASE z # s
      <4>1. reminded'[z] = reminded[z] /\ reminder'[z] = reminder[z] /\ cuts' = cuts /\ doing' = doing
        BY <1>a, <2>1, <3>2
      <4> QED BY <1>0, <2>1, <2>3, <4>1 DEF Sending
    <3> QED BY <3>1, <3>2
  <2>4. ASSUME alone', doing'.step # "idle" PROVE doing'.row.count = reminder'[doing'.stage].count
    <3>1. doing.stage \in Reminding!Stages /\ doing.stage # s
      BY <1>a, <2>1, <2>4
    <3>2. reminder'[doing.stage] = reminder[doing.stage]
      BY <1>a, <2>1, <3>1
    <3> QED BY <1>0, <2>1, <2>4, <3>2
  <2> QED BY <1>0, <2>1, <2>2, <2>3, <2>4 DEF RemindInv
<1>10. ASSUME NEW s \in Reminding!Stages, Reminding!EnterQuietly(s) PROVE RemindInv'
  <2>1. /\ reminder' = reminder /\ age' \in {0, age}
        /\ reminded' = [reminded EXCEPT ![s] = 0] /\ escalated' = [escalated EXCEPT ![s] = FALSE]
        /\ rounds' = rounds + 1 /\ rounds < MaxRounds /\ waiting' = waiting \cup {s}
        /\ mute' = [mute EXCEPT ![s] = reminder[s].escalated]
        /\ UNCHANGED <<doing, cuts>> /\ alone' \in BOOLEAN /\ (alone' => alone)
    BY <1>0, <1>10 DEF Reminding!EnterQuietly, Reminding!Round, Reminding!TypeOK
  <2>2. reminder[s].escalated \in BOOLEAN /\ age' \in 0..Reminding!Old
    BY <1>0, <1>b, <2>1 DEF Reminding!Rows, Reminding!TypeOK, Reminding!Old
  <2>3. Reminding!TypeOK'
    BY <1>0, <2>1, <2>2, BoundAssumption DEF Reminding!TypeOK
  <2>4. ASSUME alone', NEW z \in Reminding!Stages
        PROVE  reminded'[z] <= reminder'[z].count + cuts' + Sending(z)'
    <3>1. reminded'[z] <= reminded[z]
      BY <1>a, <1>b, <2>1
    <3>2. reminder'[z] = reminder[z] /\ cuts' = cuts /\ doing' = doing /\ reminded'[z] \in Nat
      BY <1>a, <2>1
    <3>3. reminded[z] <= reminder[z].count + cuts + Sending(z)
      BY <1>0, <2>1, <2>4
    <3> QED BY <1>a, <1>b, <3>1, <3>2, <3>3, BoundAssumption DEF Sending
  <2> QED BY <1>0, <2>1, <2>3, <2>4 DEF RemindInv
<1>2. ASSUME NEW s \in Reminding!Stages, Reminding!Leave(s) PROVE RemindInv'
  <2>1. waiting' \subseteq waiting /\ UNCHANGED <<age, reminder, doing, reminded, escalated, rounds, cuts, alone, mute>>
    BY <1>2 DEF Reminding!Leave, Reminding!history
  <2> QED BY <2>1 DEF RemindInv, Reminding!TypeOK, Sending
<1>3. CASE Reminding!Edit
  <2>1. age' = 0 /\ UNCHANGED <<waiting, reminder, doing, reminded, escalated, rounds, cuts, alone, mute>>
    BY <1>3 DEF Reminding!Edit, Reminding!history
  <2>2. 0 \in 0..Reminding!Old
    BY DEF Reminding!Old
  <2> QED BY <2>1, <2>2 DEF RemindInv, Reminding!TypeOK, Sending
<1>4. CASE Reminding!Day
  <2>1. /\ doing.step = "idle" /\ age' \in {age, age + 1} /\ age' \in 0..Reminding!Old
        /\ UNCHANGED <<waiting, doing, reminded, escalated, rounds, cuts, alone, mute>>
    BY <1>0, <1>4 DEF Reminding!Day, Reminding!history, Reminding!TypeOK, Reminding!Old
  <2>2. \A s \in Reminding!Stages : /\ reminder'[s] \in Reminding!Rows
                                    /\ reminder'[s].count = reminder[s].count
    <3> TAKE s \in Reminding!Stages
    <3> DEFINE n == IF reminder[s].since < Reminding!Old THEN reminder[s].since + 1 ELSE reminder[s].since
    <3>1. reminder'[s] = [reminder[s] EXCEPT !.since = n]
      BY <1>4 DEF Reminding!Day
    <3>2. n \in 0..Reminding!Old
      BY <1>b DEF Reminding!Rows, Reminding!Old
    <3> HIDE DEF n
    <3> QED BY <1>b, <3>1, <3>2 DEF Reminding!Rows
  <2>3. reminder' \in [Reminding!Stages -> Reminding!Rows]
    <3>1. reminder' = [s \in Reminding!Stages |-> reminder'[s]]
      BY <1>4 DEF Reminding!Day
    <3> QED BY <2>2, <3>1
  <2>4. Reminding!TypeOK'
    BY <1>0, <2>1, <2>3 DEF Reminding!TypeOK
  <2>5. \A s \in Reminding!Stages : Sending(s)' = Sending(s)
    BY <2>1 DEF Sending
  <2> QED BY <1>0, <2>1, <2>2, <2>4, <2>5 DEF RemindInv
<1>5. ASSUME NEW s \in Reminding!Stages, Reminding!Check(s) PROVE RemindInv'
  <2>1. /\ doing.step = "idle"
        /\ \/ doing' = [step |-> "escalate", stage |-> s, row |-> reminder[s]]
           \/ doing' = [step |-> "remind", stage |-> s, row |-> reminder[s]] /\ reminder[s].count < MaxReminders
        /\ UNCHANGED <<waiting, age, reminder, reminded, escalated, rounds, cuts, alone, mute>>
    BY <1>5 DEF Reminding!Check, Reminding!history
  <2>2. doing' \in [step: Reminding!Steps, stage: Reminding!Stages, row: Reminding!Rows]
    BY <1>b, <2>1 DEF Reminding!Steps
  <2>3. /\ doing'.stage = s /\ doing'.row = reminder[s] /\ doing'.step # "reminded"
        /\ doing'.step = "remind" => reminder[s].count < MaxReminders
    BY <2>1
  <2>4. Reminding!TypeOK'
    BY <1>0, <2>1, <2>2 DEF Reminding!TypeOK
  <2>5. \A z \in Reminding!Stages : Sending(z)' = Sending(z)
    BY <2>1, <2>3 DEF Sending
  <2> QED BY <1>0, <2>1, <2>3, <2>4, <2>5 DEF RemindInv
<1>6. CASE Reminding!Notify
  <2> DEFINE s == doing.stage
  <2>1. CASE /\ doing.step = "remind" /\ doing' = [doing EXCEPT !.step = "reminded"]
             /\ reminded' = [reminded EXCEPT ![s] = @ + 1]
             /\ UNCHANGED <<waiting, age, reminder, escalated, rounds, cuts, alone, mute>>
    <3>1. /\ doing' \in [step: Reminding!Steps, stage: Reminding!Stages, row: Reminding!Rows]
          /\ doing'.step = "reminded" /\ doing'.stage = s /\ doing'.row = doing.row
          /\ s \in Reminding!Stages
      BY <1>a, <2>1 DEF Reminding!Steps
    <3> HIDE DEF s
    <3>2. reminded' \in [Reminding!Stages -> Nat] /\ reminded'[s] = reminded[s] + 1
          /\ \A z \in Reminding!Stages : z # s => reminded'[z] = reminded[z]
      BY <1>a, <2>1, <3>1
    <3>3. Reminding!TypeOK'
      BY <1>0, <2>1, <3>1, <3>2 DEF Reminding!TypeOK
    <3>4. \A z \in Reminding!Stages : /\ Sending(z) = 0
                                      /\ Sending(z)' = IF z = s THEN 1 ELSE 0
      BY <2>1, <3>1 DEF Sending
    <3>5. ASSUME alone', NEW z \in Reminding!Stages
          PROVE  reminded'[z] <= reminder'[z].count + cuts' + Sending(z)'
      <4>1. reminded[z] <= reminder[z].count + cuts
        BY <1>0, <1>a, <1>b, <2>1, <3>4, <3>5
      <4> QED BY <1>a, <1>b, <2>1, <3>2, <3>4, <4>1
    <3>6. alone' => doing'.row.count = reminder'[doing'.stage].count
      BY <1>0, <2>1, <3>1 DEF s
    <3> QED BY <1>0, <2>1, <3>1, <3>3, <3>5, <3>6 DEF RemindInv
  <2>2. CASE /\ doing.step = "escalate" /\ doing' = [doing EXCEPT !.step = "escalated"]
             /\ escalated' = [escalated EXCEPT ![s] = TRUE]
             /\ UNCHANGED <<waiting, age, reminder, reminded, rounds, cuts, alone, mute>>
    <3>1. /\ doing' \in [step: Reminding!Steps, stage: Reminding!Stages, row: Reminding!Rows]
          /\ doing'.step = "escalated" /\ doing'.stage = s /\ doing'.row = doing.row
      BY <1>a, <2>2 DEF Reminding!Steps
    <3>2. Reminding!TypeOK'
      BY <1>0, <2>2, <3>1 DEF Reminding!TypeOK
    <3>3. \A z \in Reminding!Stages : Sending(z)' = Sending(z)
      BY <2>2, <3>1 DEF Sending
    <3> QED BY <1>0, <2>2, <3>1, <3>2, <3>3 DEF RemindInv
  <2> QED BY <1>6, <2>1, <2>2 DEF Reminding!Notify
<1>7. CASE Reminding!Save
  <2> DEFINE s == doing.stage
             counted == [reminder[s] EXCEPT !.count = doing.row.count + 1]
             saved == [counted EXCEPT !.since = 0]
             marked == [reminder[s] EXCEPT !.escalated = TRUE]
  <2>1. s \in Reminding!Stages /\ doing' = Reminding!Idle
        /\ UNCHANGED <<waiting, age, reminded, escalated, rounds, cuts, alone, mute>>
    BY <1>7, <1>a DEF Reminding!Save, Reminding!history
  <2>2. CASE doing.step = "reminded" /\ reminder' = [reminder EXCEPT ![s] = saved]
    <3>1. counted \in Reminding!Rows /\ counted.count = doing.row.count + 1
      <4>1. doing.row.count \in 0..MaxReminders
        BY <1>a DEF Reminding!Rows
      <4>2. doing.row.count + 1 \in 0..MaxReminders
        BY <1>0, <2>2, <4>1, BoundAssumption
      <4>3. reminder[s] \in Reminding!Rows
        BY <1>b, <2>1
      <4> QED BY <4>2, <4>3 DEF Reminding!Rows
    <3> HIDE DEF counted
    <3>2. saved \in Reminding!Rows /\ saved.count = doing.row.count + 1
      BY <3>1 DEF Reminding!Rows, Reminding!Old
    <3> HIDE DEF saved, s
    <3>3. reminder' \in [Reminding!Stages -> Reminding!Rows] /\ reminder'[s] = saved
          /\ \A z \in Reminding!Stages : z # s => reminder'[z] = reminder[z]
      BY <1>a, <2>1, <2>2, <3>2
    <3>4. Reminding!TypeOK'
      BY <1>0, <1>d, <2>1, <3>3 DEF Reminding!TypeOK
    <3>5. \A z \in Reminding!Stages : /\ Sending(z)' = 0
                                      /\ Sending(z) = IF z = s THEN 1 ELSE 0
      BY <1>d, <2>1, <2>2 DEF Sending, s
    <3>6. ASSUME alone', NEW z \in Reminding!Stages
          PROVE  reminded'[z] <= reminder'[z].count + cuts' + Sending(z)'
      <4>1. reminded[z] <= reminder[z].count + cuts + Sending(z)
        BY <1>0, <2>1, <3>6
      <4>2. doing.row.count = reminder[s].count
        BY <1>0, <2>1, <2>2, <3>6 DEF s
      <4> QED BY <1>a, <1>b, <2>1, <3>2, <3>3, <3>5, <4>1, <4>2
    <3> QED BY <1>d, <2>1, <3>4, <3>6 DEF RemindInv
  <2>3. CASE doing.step = "escalated" /\ reminder' = [reminder EXCEPT ![s] = marked]
    <3>1. marked \in Reminding!Rows /\ marked.count = reminder[s].count
      BY <1>b, <2>1 DEF Reminding!Rows
    <3> HIDE DEF marked, s
    <3>2. reminder' \in [Reminding!Stages -> Reminding!Rows]
          /\ \A z \in Reminding!Stages : reminder'[z].count = reminder[z].count
      BY <1>a, <2>1, <2>3, <3>1
    <3>3. Reminding!TypeOK'
      BY <1>0, <1>d, <2>1, <3>2 DEF Reminding!TypeOK
    <3>4. \A z \in Reminding!Stages : Sending(z)' = 0 /\ Sending(z) = 0
      BY <1>d, <2>1, <2>3 DEF Sending
    <3> QED BY <1>0, <1>d, <2>1, <3>2, <3>3, <3>4 DEF RemindInv
  <2>4. doing.step = "reminded" => reminder' = [reminder EXCEPT ![s] = saved]
    BY <1>7, <1>a, <2>1 DEF Reminding!Save
  <2> QED BY <1>7, <2>2, <2>3, <2>4 DEF Reminding!Save
<1>8. CASE Reminding!Kill
  <2>1. doing' = Reminding!Idle /\ cuts < MaxKills /\ cuts' = cuts + 1
        /\ UNCHANGED <<waiting, age, reminder, reminded, escalated, rounds, alone, mute>>
    BY <1>8 DEF Reminding!Kill, Reminding!history
  <2>2. Reminding!TypeOK'
    BY <1>0, <1>d, <2>1, BoundAssumption DEF Reminding!TypeOK
  <2>3. ASSUME alone', NEW z \in Reminding!Stages
        PROVE  reminded'[z] <= reminder'[z].count + cuts' + Sending(z)'
    <3>1. reminded[z] <= reminder[z].count + cuts + Sending(z)
      BY <1>0, <2>1, <2>3
    <3>2. Sending(z) \in {0, 1} /\ Sending(z)' = 0
      BY <1>d, <2>1 DEF Sending
    <3> QED BY <1>a, <1>b, <2>1, <3>1, <3>2
  <2> QED BY <1>d, <2>1, <2>2, <2>3 DEF RemindInv
<1>9. CASE UNCHANGED Reminding!vars
  BY <1>9 DEF RemindInv, Reminding!vars, Reminding!TypeOK, Sending
<1> QED BY <1>1, <1>2, <1>3, <1>4, <1>5, <1>6, <1>7, <1>8, <1>9, <1>10 DEF Reminding!Next
-----------------------------------------------------------------------------
(* Activation.                                                             *)

Pendings == [status: {"absent"} \cup Activating!Claimable \cup Activating!Ends,
             user: Users \cup {Activating!Nobody}, attempts: 0..MaxAttempts]
Held == [Activating!Actors -> Activating!Keys]
Subscriptions == [status: {"none"} \cup Activating!Statuses, key: Activating!Keys]

LEMMA KeyInit == Activating!Init => KeyInv
<1> SUFFICES ASSUME Activating!Init PROVE KeyInv
  OBVIOUS
<1>1. at = [x \in Activating!Actors |-> "idle"] /\ held = [x \in Activating!Actors |-> "none"]
  BY DEF Activating!Init
<1>2. at["worker"] = "idle"
  BY <1>1 DEF Activating!Actors, Activating!Worker
<1>3. sub \in Subscriptions /\ sub.status = "none" /\ sub.key = "none"
  BY DEF Activating!Init, Subscriptions, Activating!Keys
<1>4. pending \in Pendings
  BY BoundAssumption DEF Activating!Init, Pendings
<1>5. Activating!TypeOK
  BY <1>1, <1>3, <1>4, BoundAssumption DEF Activating!Init, Activating!TypeOK, Activating!Places,
     Activating!Keys, Activating!NotSeen, Subscriptions, Pendings
<1> QED BY <1>1, <1>2, <1>3, <1>5
        DEF KeyInv, Worked, Read, HeldToStore, OneStores, NoneDead, Storing, Busy

\* x moves to p and holds nothing any more; if it was storing, the others' keys
\* may have been revoked.
Released(x, p) ==
  /\ at' = [at EXCEPT ![x] = p] /\ p \in Activating!Places \ {"finalize"}
  /\ held' \in Held /\ held'[x] = "none"
  /\ \A y \in Activating!Actors \ {x} :
       held'[y] = held[y] \/ (Storing(x) /\ held'[y] = Activating!Revoked(held[y]))
  /\ UNCHANGED apart

LEMMA ReleasedKeeps ==
  ASSUME KeyInv, NEW x \in Activating!Actors, NEW p, Released(x, p),
         Activating!TypeOK', Worked', Read',
         sub' = sub \/ (apart => sub'.key = "live")
  PROVE  KeyInv'
<1>1. at \in [Activating!Actors -> Activating!Places]
  BY DEF KeyInv, Activating!TypeOK
<1>2. ~Storing(x)' /\ \A y \in Activating!Actors \ {x} : Storing(y)' <=> Storing(y)
  BY <1>1 DEF Released, Storing
<1>3. HeldToStore'
  <2>1. ASSUME NEW y \in Activating!Actors, held'[y] # "none" PROVE Storing(y)'
    <3>1. y # x /\ held[y] # "none"
      BY <2>1 DEF Released, Activating!Revoked
    <3>2. Storing(y)
      BY <3>1 DEF KeyInv, HeldToStore
    <3> QED BY <1>2, <3>1, <3>2
  <2> QED BY <2>1 DEF HeldToStore
<1>4. ASSUME apart' PROVE OneStores' /\ NoneDead' /\ sub'.key # "dead"
                          /\ (sub'.status # "none" => sub'.key = "live")
  <2>1. apart /\ OneStores /\ NoneDead /\ sub.key # "dead" /\ (sub.status # "none" => sub.key = "live")
    BY <1>4 DEF Released, KeyInv
  <2>2. OneStores'
    BY <1>2, <2>1 DEF OneStores
  <2>3. ASSUME NEW y \in Activating!Actors PROVE held'[y] # "dead"
    <3>1. CASE y = x
      BY <3>1 DEF Released
    <3>2. CASE y # x /\ Storing(x)
      <4>1. ~Storing(y)
        BY <2>1, <3>2 DEF OneStores
      <4>2. held[y] = "none"
        BY <4>1 DEF KeyInv, HeldToStore
      <4> QED BY <3>2, <4>2 DEF Released, Activating!Revoked
    <3>3. CASE y # x /\ ~Storing(x)
      BY <2>1, <3>3 DEF Released, NoneDead
    <3> QED BY <3>1, <3>2, <3>3
  <2> QED BY <2>1, <2>2, <2>3 DEF NoneDead
<1> QED BY <1>3, <1>4 DEF KeyInv

\* A move to or from a place that is not the storing one.
LEMMA MoveReleases ==
  ASSUME KeyInv, NEW x \in Activating!Actors, ~Storing(x),
         NEW p \in Activating!Places \ {"finalize"},
         Activating!Go(x, p), UNCHANGED <<held, apart>>
  PROVE  Released(x, p)
BY DEF KeyInv, Activating!TypeOK, HeldToStore, Released, Activating!Go, Held

\* x is done with its call: the worker goes to rest, with its task or without it.
Rests(x) ==
  /\ pending' \in Pendings /\ tasks' \in 0..MaxTasks /\ (x # "worker" => tasks' = tasks)
  /\ \/ Activating!Go(x, "idle")
     \/ x # "worker" /\ Activating!Go(x, "deferred")

LEMMA EndRests ==
  ASSUME KeyInv, NEW x \in Activating!Actors, at[x] \in Busy, NEW end \in Activating!Ends,
         Activating!End(x, end)
  PROVE  Rests(x)
<1>1. pending \in Pendings /\ tasks \in 0..MaxTasks
  BY DEF KeyInv, Activating!TypeOK, Pendings
<1>2. CASE x = "worker"
  <2>1. tasks > 0
    BY <1>2 DEF KeyInv, Worked
  <2>2. [pending EXCEPT !.status = end] \in Pendings
    BY <1>1 DEF Pendings
  <2> QED BY <1>1, <1>2, <2>1, <2>2, BoundAssumption DEF Activating!End, Activating!Worker, Rests
<1>3. CASE x # "worker"
  BY <1>1, <1>3 DEF Activating!End, Activating!Worker, Activating!queue, Rests
<1> QED BY <1>2, <1>3

LEMMA DeferRests ==
  ASSUME KeyInv, NEW x \in Activating!Actors, at[x] \in Busy, Activating!Defer(x)
  PROVE  Rests(x)
<1>1. pending \in Pendings /\ tasks \in 0..MaxTasks
  BY DEF KeyInv, Activating!TypeOK, Pendings
<1>2. CASE x = "worker"
  <2>1. tasks > 0
    BY <1>2 DEF KeyInv, Worked
  <2>2. /\ [pending EXCEPT !.status = "provisioning_failed"] \in Pendings
        /\ [pending EXCEPT !.status = "pending"] \in Pendings
    BY <1>1 DEF Pendings, Activating!Ends, Activating!Claimable
  <2> QED BY <1>1, <1>2, <2>1, <2>2, BoundAssumption DEF Activating!Defer, Activating!Worker, Rests
<1>3. CASE x # "worker"
  BY <1>1, <1>3 DEF Activating!Defer, Activating!Worker, Activating!queue, Rests
<1> QED BY <1>2, <1>3

\* After that the worker still has its task, and what it read is still there.
LEMMA RestKeeps ==
  ASSUME KeyInv, NEW x \in Activating!Actors, Rests(x), sub.status # "none" => sub'.status # "none"
  PROVE  Worked' /\ Read' /\ at' \in [Activating!Actors -> Activating!Places]
<1>1. at \in [Activating!Actors -> Activating!Places] /\ "worker" \in Activating!Actors
  BY DEF KeyInv, Activating!TypeOK, Activating!Actors, Activating!Worker
<1>2. CASE x = "worker"
  BY <1>1, <1>2 DEF Rests, Activating!Go, Worked, Read, Busy, Activating!Places
<1>3. CASE x # "worker"
  <2>1. at'["worker"] = at["worker"] /\ tasks' = tasks
    BY <1>1, <1>3 DEF Rests, Activating!Go
  <2>2. at' \in [Activating!Actors -> Activating!Places]
    BY <1>1 DEF Rests, Activating!Go, Activating!Places
  <2> QED BY <2>1, <2>2 DEF KeyInv, Worked, Read
<1> QED BY <1>2, <1>3

\* A call that ends with nothing stored.
LEMMA CallEnds ==
  ASSUME KeyInv, NEW x \in Activating!Actors, Rests(x),
         held' \in Held, held'[x] = "none",
         \A y \in Activating!Actors \ {x} :
           held'[y] = held[y] \/ (Storing(x) /\ held'[y] = Activating!Revoked(held[y])),
         account' \in {"none"} \cup Activating!Statuses,
         UNCHANGED <<admin, attempt, sub, seen, kills, apart>>
  PROVE  KeyInv'
<1>1. Worked' /\ Read' /\ at' \in [Activating!Actors -> Activating!Places]
  BY RestKeeps
<1>2. Activating!TypeOK'
  BY <1>1 DEF KeyInv, Activating!TypeOK, Rests, Pendings, Held
<1>3. Released(x, "idle") \/ Released(x, "deferred")
  BY DEF Rests, Released, Activating!Go, Activating!Places
<1> QED BY <1>1, <1>2, <1>3, ReleasedKeeps

\* The answer is stored, or asked for and stored: the key is one the service
\* accepts, unless two actors held answers.
LEMMA WriteKeeps ==
  ASSUME KeyInv, NEW x \in Activating!Actors, Activating!Write(x), Activating!Go(x, "idle"),
         pending' \in Pendings, tasks' \in 0..MaxTasks, x # "worker" => tasks' = tasks,
         kills' \in 0..MaxKills, UNCHANGED <<admin, account, seen, apart>>
  PROVE  KeyInv'
<1> DEFINE key == IF Activating!NeedsKey(x) THEN "live" ELSE IF held[x] # "none" THEN held[x] ELSE sub.key
           h == IF Activating!NeedsKey(x) THEN Activating!Rotated ELSE held
<1>1. held \in Held /\ sub \in Subscriptions
  BY DEF KeyInv, Activating!TypeOK, Held, Subscriptions
<1>2. key \in Activating!Keys
  BY <1>1 DEF Held, Subscriptions, Activating!Keys
<1>3. apart => key = "live"
  BY <1>1 DEF KeyInv, NoneDead, Held, Activating!Keys, Activating!NeedsKey, Subscriptions
<1>4. h \in Held /\ \A y \in Activating!Actors : h[y] = held[y] \/ h[y] = Activating!Revoked(held[y])
  BY <1>1 DEF Held, Activating!Rotated, Activating!Revoked, Activating!Keys
<1>5. /\ sub' = [status |-> "active", key |-> key] /\ held' = [h EXCEPT ![x] = "none"]
      /\ attempt' = "activated" /\ Storing(x)
  BY DEF Activating!Write, Storing
<1> HIDE DEF key, h
<1>6. sub' \in Subscriptions /\ sub'.status = "active" /\ sub'.key = key
  BY <1>2, <1>5 DEF Subscriptions, Activating!Statuses
<1>7. /\ held' \in Held /\ held'[x] = "none"
      /\ \A y \in Activating!Actors \ {x} : held'[y] = held[y] \/ held'[y] = Activating!Revoked(held[y])
  BY <1>4, <1>5 DEF Held, Activating!Keys
<1>8. Released(x, "idle")
  BY <1>5, <1>7 DEF Released, Activating!Go, Activating!Places
<1>9. Rests(x)
  BY DEF Rests
<1>10. Worked' /\ Read' /\ at' \in [Activating!Actors -> Activating!Places]
  BY <1>6, <1>9, RestKeeps
<1>11. Activating!TypeOK'
  BY <1>5, <1>6, <1>7, <1>10 DEF KeyInv, Activating!TypeOK, Pendings, Held, Subscriptions
<1> QED BY <1>3, <1>6, <1>8, <1>10, <1>11, ReleasedKeeps

\* A step of an actor that neither stores nor ends a call.
LEMMA MoveKeeps ==
  ASSUME KeyInv, NEW x \in Activating!Actors, ~Storing(x),
         NEW p \in Activating!Places \ {"finalize"}, Activating!Go(x, p),
         pending' \in Pendings, tasks' \in 0..MaxTasks, x # "worker" => tasks' >= tasks,
         seen' \in [was: {"none"} \cup Activating!Statuses, now: {"none"} \cup Activating!Statuses],
         x = "worker" => (p \in Busy => tasks' > 0) /\ (p \in {"loaded", "answered"} => sub.status # "none"),
         sub' \in Subscriptions, sub' = sub \/ (x = "worker" /\ p = "idle" /\ (apart => sub'.key = "live")),
         UNCHANGED <<admin, attempt, held, account, kills, apart>>
  PROVE  KeyInv'
<1>1. at \in [Activating!Actors -> Activating!Places] /\ "worker" \in Activating!Actors
  BY DEF KeyInv, Activating!TypeOK, Activating!Actors, Activating!Worker
<1>2. at' = [at EXCEPT ![x] = p] /\ at' \in [Activating!Actors -> Activating!Places]
  BY <1>1 DEF Activating!Go
<1>3. Worked' /\ Read'
  <2>1. CASE x = "worker"
    BY <1>1, <1>2, <2>1 DEF Worked, Read
  <2>2. CASE x # "worker"
    <3>1. at'["worker"] = at["worker"] /\ sub' = sub /\ tasks' >= tasks
      BY <1>1, <1>2, <2>2
    <3>2. tasks \in Nat /\ tasks' \in Nat
      BY DEF KeyInv, Activating!TypeOK
    <3> QED BY <3>1, <3>2 DEF KeyInv, Worked, Read
  <2> QED BY <2>1, <2>2
<1>4. Activating!TypeOK'
  BY <1>2 DEF KeyInv, Activating!TypeOK, Pendings, Subscriptions
<1>5. Released(x, p)
  BY MoveReleases
<1> QED BY <1>3, <1>4, <1>5, ReleasedKeeps

LEMMA KeyNext == KeyInv /\ [Activating!Next]_Activating!vars => KeyInv'
<1> SUFFICES ASSUME KeyInv, [Activating!Next]_Activating!vars PROVE KeyInv'
  OBVIOUS
<1>0. /\ pending \in Pendings /\ tasks \in 0..MaxTasks /\ held \in Held /\ sub \in Subscriptions
      /\ at \in [Activating!Actors -> Activating!Places]
      /\ account \in {"none"} \cup Activating!Statuses /\ kills \in 0..MaxKills
      /\ seen \in [was: {"none"} \cup Activating!Statuses, now: {"none"} \cup Activating!Statuses]
  BY DEF KeyInv, Activating!TypeOK, Pendings, Held, Subscriptions
<1>a. Users \subseteq Activating!Actors /\ "worker" \in Activating!Actors
  BY DEF Activating!Actors, Activating!Worker
<1>b. \A u \in Users : u # "worker"
  BY WorkerAssumption
<1>c. \A x \in Activating!Actors : ~Storing(x) => held[x] = "none"
  BY DEF KeyInv, HeldToStore
<1>d. Activating!NotSeen \in [was: {"none"} \cup Activating!Statuses, now: {"none"} \cup Activating!Statuses]
  BY DEF Activating!NotSeen
<1>1. ASSUME NEW u \in Users, Activating!Activate(u) PROVE KeyInv'
  <2>1. /\ ~Storing(u) /\ Activating!Go(u, "preflight")
        /\ UNCHANGED <<admin, pending, tasks, held, attempt, sub, account, seen, kills, apart>>
    BY <1>1 DEF Activating!Activate, Activating!queue, Activating!local, Storing
  <2>2. "preflight" \in Activating!Places \ {"finalize"}
    BY DEF Activating!Places, Activating!Calling
  <2> QED BY <1>0, <1>a, <1>b, <2>1, <2>2, MoveKeeps
<1>2. ASSUME NEW u \in Users, Activating!Queue(u) PROVE KeyInv'
  <2> DEFINE r == [pending EXCEPT !.status = "pending", !.user = u]
  <2>1. r \in Pendings
    <3> DEFINE q == [pending EXCEPT !.status = "pending"]
    <3>1. q \in Pendings
      BY <1>0 DEF Pendings, Activating!Claimable
    <3>2. r = [q EXCEPT !.user = u]
      OBVIOUS
    <3> HIDE DEF q, r
    <3> QED BY <3>1, <3>2 DEF Pendings
  <2>2. /\ ~Storing(u) /\ pending' \in {pending, r}
        /\ Activating!Go(u, "queued") \/ Activating!Go(u, "idle")
        /\ UNCHANGED <<admin, tasks, held, attempt, sub, account, seen, kills, apart>>
    BY <1>2 DEF Activating!Queue, Activating!local, Storing
  <2>3. {"queued", "idle"} \subseteq Activating!Places \ {"finalize"}
    BY DEF Activating!Places
  <2> HIDE DEF r
  <2> QED BY <1>0, <1>a, <1>b, <2>1, <2>2, <2>3, MoveKeeps
<1>3. ASSUME NEW u \in Users, Activating!Enqueue(u) PROVE KeyInv'
  <2>1. /\ ~Storing(u) /\ Activating!Go(u, "idle")
        /\ tasks' \in 0..MaxTasks /\ tasks' >= tasks
        /\ UNCHANGED <<admin, pending, held, attempt, sub, account, seen, kills, apart>>
    BY <1>0, <1>3, BoundAssumption DEF Activating!Enqueue, Activating!local, Storing
  <2>2. "idle" \in Activating!Places \ {"finalize"}
    BY DEF Activating!Places
  <2> QED BY <1>0, <1>a, <1>b, <2>1, <2>2, MoveKeeps
<1>4. ASSUME NEW u \in Users, Activating!ChangeRole(u) PROVE KeyInv'
  <2>1. /\ admin' \subseteq Users
        /\ UNCHANGED <<attempt, pending, tasks, at, held, sub, account, seen, kills, apart>>
    BY <1>4 DEF Activating!ChangeRole, KeyInv, Activating!TypeOK
  <2> QED BY <2>1 DEF KeyInv, Activating!TypeOK, Worked, Read, HeldToStore, OneStores, NoneDead, Storing
<1>5. ASSUME NEW x \in Activating!Actors, Activating!PreflightOk(x) PROVE KeyInv'
  <2>1. /\ at[x] = "preflight" /\ ~Storing(x) /\ Activating!Go(x, "validated")
        /\ UNCHANGED <<admin, pending, tasks, held, attempt, sub, account, seen, kills, apart>>
    BY <1>5 DEF Activating!PreflightOk, Activating!queue, Activating!local, Storing
  <2>2. x = "worker" => tasks > 0
    BY <2>1 DEF KeyInv, Worked, Busy
  <2>3. "validated" \in Activating!Places \ {"finalize"}
    BY DEF Activating!Places
  <2> QED BY <1>0, <2>1, <2>2, <2>3, MoveKeeps
<1>6. ASSUME NEW x \in Activating!Actors, Activating!Rejected(x) PROVE KeyInv'
  <2>1. at[x] \in Busy /\ ~Storing(x) /\ Activating!End(x, "provisioning_failed")
        /\ UNCHANGED <<admin, held, attempt, sub, account, seen, kills, apart>>
    BY <1>6 DEF Activating!Rejected, Activating!local, Activating!Calling, Busy, Storing
  <2>2. Rests(x)
    BY <2>1, EndRests DEF Activating!Ends
  <2> QED BY <1>0, <1>c, <2>1, <2>2, CallEnds
<1>7. ASSUME NEW x \in Activating!Actors, Activating!Unavailable(x) \/ Activating!CommitLost(x) PROVE KeyInv'
  <2>1. at[x] \in Busy /\ ~Storing(x) /\ Activating!Defer(x) /\ account' \in {account, "active"}
        /\ UNCHANGED <<admin, held, attempt, sub, seen, kills, apart>>
    BY <1>7 DEF Activating!Unavailable, Activating!CommitLost, Activating!local, Activating!Calling,
       Busy, Storing
  <2>2. Rests(x)
    BY <2>1, DeferRests
  <2>3. account' \in {"none"} \cup Activating!Statuses
    BY <1>0, <2>1 DEF Activating!Statuses
  <2> QED BY <1>0, <1>c, <2>1, <2>2, <2>3, CallEnds
<1>8. ASSUME NEW x \in Activating!Actors, Activating!Vet(x) PROVE KeyInv'
  <2>1. at[x] = "validated" /\ at[x] \in Busy /\ ~Storing(x)
        /\ UNCHANGED <<admin, held, attempt, sub, account, seen, kills, apart>>
    BY <1>8 DEF Activating!Vet, Activating!local, Busy, Storing
  <2>2. CASE Activating!Go(x, "commit") /\ UNCHANGED <<pending, tasks>>
    <3>1. x = "worker" => tasks > 0
      BY <2>1 DEF KeyInv, Worked
    <3>2. "commit" \in Activating!Places \ {"finalize"}
      BY DEF Activating!Places, Activating!Calling
    <3> QED BY <1>0, <2>1, <2>2, <3>1, <3>2, MoveKeeps
  <2>3. CASE Activating!End(x, "rejected_unauthorized")
    <3>1. Rests(x)
      BY <2>1, <2>3, EndRests DEF Activating!Ends
    <3> QED BY <1>0, <1>c, <2>1, <3>1, CallEnds
  <2> QED BY <1>8, <2>2, <2>3 DEF Activating!Vet, Activating!queue
<1>9. ASSUME NEW x \in Activating!Actors, Activating!CommitOk(x) PROVE KeyInv'
  <2> DEFINE key == IF account = "none" THEN "live" ELSE "none"
  <2>1. /\ at[x] = "commit" /\ at' = [at EXCEPT ![x] = "finalize"] /\ held' = [held EXCEPT ![x] = key]
        /\ account' \in {account, "active"}
        /\ apart' = (apart /\ \A y \in Activating!Actors \ {x} : at[y] # "finalize")
        /\ UNCHANGED <<admin, pending, tasks, attempt, sub, seen, kills>>
    BY <1>9 DEF Activating!CommitOk, Activating!Go, Activating!queue, Activating!local
  <2>2. key \in Activating!Keys /\ key # "dead"
    BY DEF Activating!Keys
  <2> HIDE DEF key
  <2>3. at' \in [Activating!Actors -> Activating!Places] /\ Storing(x)'
        /\ \A y \in Activating!Actors \ {x} : at'[y] = at[y]
    BY <1>0, <2>1 DEF Activating!Places, Storing
  <2>4. held' \in Held /\ held'[x] = key /\ \A y \in Activating!Actors \ {x} : held'[y] = held[y]
    BY <1>0, <2>1, <2>2 DEF Held
  <2>5. Activating!TypeOK'
    BY <2>1, <2>3, <2>4 DEF KeyInv, Activating!TypeOK, Held, Activating!Statuses
  <2>6. Worked' /\ Read'
    <3>1. CASE x = "worker"
      BY <1>0, <1>a, <2>1, <3>1 DEF KeyInv, Worked, Read, Busy
    <3>2. CASE x # "worker"
      BY <1>a, <2>1, <2>3, <3>2 DEF KeyInv, Worked, Read
    <3> QED BY <3>1, <3>2
  <2>7. HeldToStore'
    BY <2>3, <2>4 DEF KeyInv, HeldToStore, Storing
  <2>8. ASSUME apart' PROVE OneStores' /\ NoneDead'
    <3>1. \A y \in Activating!Actors : Storing(y)' => y = x
      BY <2>1, <2>3, <2>8 DEF Storing
    <3>2. NoneDead'
      BY <2>1, <2>2, <2>4, <2>8 DEF KeyInv, NoneDead
    <3> QED BY <3>1, <3>2 DEF OneStores
  <2> QED BY <2>1, <2>5, <2>6, <2>7, <2>8 DEF KeyInv
<1>10. ASSUME NEW x \in Activating!Actors, Activating!Finalize(x) PROVE KeyInv'
  <2>1. /\ Activating!Write(x) /\ Activating!End(x, "completed") /\ at[x] \in Busy
        /\ UNCHANGED <<admin, account, seen, kills, apart>>
    BY <1>10 DEF Activating!Finalize, Activating!Write, Busy
  <2>2. Rests(x) /\ Activating!Go(x, "idle")
    BY <2>1, EndRests DEF Activating!End, Activating!Ends
  <2> QED BY <1>0, <2>1, <2>2, WriteKeeps DEF Rests
<1>11. ASSUME NEW x \in Activating!Actors, Activating!KillWritten(x) PROVE KeyInv'
  <2>1. /\ Activating!Write(x) /\ Activating!Go(x, "idle") /\ kills' \in 0..MaxKills
        /\ UNCHANGED <<admin, pending, tasks, account, seen, apart>>
    BY <1>0, <1>11, BoundAssumption DEF Activating!KillWritten, Activating!queue
  <2> QED BY <1>0, <2>1, WriteKeeps
<1>12. ASSUME NEW x \in Activating!Actors, Activating!RotateFails(x) PROVE KeyInv'
  <2>1. /\ at[x] \in Busy /\ Storing(x) /\ held[x] = "none" /\ held' \in {held, Activating!Rotated}
        /\ Activating!Defer(x)
        /\ UNCHANGED <<admin, attempt, sub, account, seen, kills, apart>>
    BY <1>12 DEF Activating!RotateFails, Activating!NeedsKey, Activating!local, Busy, Storing
  <2>2. Rests(x)
    BY <2>1, DeferRests
  <2>3. /\ held' \in Held /\ held'[x] = "none"
        /\ \A y \in Activating!Actors \ {x} : held'[y] = held[y] \/ held'[y] = Activating!Revoked(held[y])
    BY <1>0, <2>1 DEF Held, Activating!Rotated, Activating!Revoked, Activating!Keys
  <2> QED BY <1>0, <2>1, <2>2, <2>3, CallEnds
<1>13. ASSUME NEW x \in Activating!Actors, Activating!Kill(x) PROVE KeyInv'
  <2>1. PICK h \in {held} \cup (IF at[x] = "finalize" /\ Activating!NeedsKey(x)
                                THEN {Activating!Rotated} ELSE {}) : held' = [h EXCEPT ![x] = "none"]
    BY <1>13 DEF Activating!Kill
  <2>2. /\ Activating!Go(x, "idle") /\ kills < MaxKills /\ kills' = kills + 1
        /\ seen' \in {seen, Activating!NotSeen}
        /\ UNCHANGED <<admin, pending, tasks, attempt, sub, account, apart>>
    BY <1>13 DEF Activating!Kill, Activating!queue, Activating!local
  <2>3. h \in Held /\ \A y \in Activating!Actors :
                        h[y] = held[y] \/ (Storing(x) /\ h[y] = Activating!Revoked(held[y]))
    BY <1>0, <2>1 DEF Held, Activating!Rotated, Activating!Revoked, Activating!Keys, Storing
  <2>4. /\ held' \in Held /\ held'[x] = "none"
        /\ \A y \in Activating!Actors \ {x} :
             held'[y] = held[y] \/ (Storing(x) /\ held'[y] = Activating!Revoked(held[y]))
    BY <2>1, <2>3 DEF Held, Activating!Keys
  <2>5. Rests(x)
    BY <1>0, <2>2 DEF Rests
  <2>6. Worked' /\ Read' /\ at' \in [Activating!Actors -> Activating!Places]
    BY <2>2, <2>5, RestKeeps
  <2>7. kills' \in 0..MaxKills
    BY <1>0, <2>2, BoundAssumption
  <2>8. Activating!TypeOK'
    BY <1>0, <1>d, <2>2, <2>4, <2>6, <2>7 DEF KeyInv, Activating!TypeOK, Held
  <2>9. Released(x, "idle")
    BY <2>2, <2>4 DEF Released, Activating!Go, Activating!Places
  <2> QED BY <2>2, <2>6, <2>8, <2>9, ReleasedKeeps
<1>14. ASSUME NEW s \in Activating!Statuses, Activating!Bill(s) PROVE KeyInv'
  <2>1. account' = s /\ UNCHANGED <<admin, attempt, pending, tasks, at, held, sub, seen, kills, apart>>
    BY <1>14 DEF Activating!Bill, Activating!queue, Activating!local
  <2> QED BY <2>1 DEF KeyInv, Activating!TypeOK, Worked, Read, HeldToStore, OneStores, NoneDead, Storing
<1>15. CASE Activating!Claim
  <2>1. /\ at["worker"] = "idle" /\ tasks > 0
        /\ UNCHANGED <<admin, attempt, held, sub, account, seen, kills, apart>>
    BY <1>15 DEF Activating!Claim, Activating!Worker, Activating!local
  <2>2. ~Storing("worker")
    BY <2>1 DEF Storing
  <2>3. {"preflight", "idle"} \subseteq Activating!Places \ {"finalize"}
    BY DEF Activating!Places, Activating!Calling
  <2>4. CASE pending.status \in Activating!Claimable
    <3> DEFINE n == IF pending.attempts < MaxAttempts THEN pending.attempts + 1 ELSE pending.attempts
               q == [pending EXCEPT !.status = "in_progress"]
               r == [q EXCEPT !.attempts = n]
    <3>1. n \in 0..MaxAttempts
      BY <1>0, BoundAssumption DEF Pendings
    <3>2. q \in Pendings
      BY <1>0 DEF Pendings, Activating!Claimable
    <3>3. pending' = r /\ Activating!Go("worker", "preflight") /\ UNCHANGED tasks
      BY <1>15, <2>4 DEF Activating!Claim, Activating!Worker
    <3> HIDE DEF n, q
    <3>4. r \in Pendings
      BY <3>1, <3>2 DEF Pendings
    <3> HIDE DEF r
    <3> QED BY <1>0, <1>a, <2>1, <2>2, <2>3, <3>3, <3>4, MoveKeeps
  <2>5. CASE pending.status \notin Activating!Claimable
    <3>1. tasks' = tasks - 1 /\ UNCHANGED <<pending, at>>
      BY <1>15, <2>5 DEF Activating!Claim
    <3>2. tasks' \in 0..MaxTasks
      BY <1>0, <2>1, <3>1, BoundAssumption
    <3>3. Worked'
      BY <2>1, <3>1 DEF Worked, Busy
    <3> QED BY <2>1, <3>1, <3>2, <3>3
            DEF KeyInv, Activating!TypeOK, Read, HeldToStore, OneStores, NoneDead, Storing
  <2> QED BY <2>4, <2>5
<1>16. CASE Activating!Load
  <2>1. /\ at["worker"] = "idle" /\ sub.status # "none" /\ Activating!Go("worker", "loaded")
        /\ seen' = [was |-> sub.status, now |-> "none"]
        /\ UNCHANGED <<admin, pending, tasks, held, attempt, sub, account, kills, apart>>
    BY <1>16 DEF Activating!Load, Activating!Worker, Activating!queue, Activating!local
  <2>2. seen' \in [was: {"none"} \cup Activating!Statuses, now: {"none"} \cup Activating!Statuses]
    BY <1>0, <2>1 DEF Subscriptions
  <2>3. "loaded" \in Activating!Places \ {"finalize"} /\ "loaded" \notin Busy /\ ~Storing("worker")
    BY <2>1 DEF Activating!Places, Busy, Storing
  <2> QED BY <1>0, <1>a, <2>1, <2>2, <2>3, MoveKeeps
<1>17. CASE Activating!Ask
  <2>1. /\ at["worker"] = "loaded" /\ Activating!Go("worker", "answered")
        /\ seen' = [seen EXCEPT !.now = account]
        /\ UNCHANGED <<admin, pending, tasks, held, attempt, sub, account, kills, apart>>
    BY <1>17 DEF Activating!Ask, Activating!Worker, Activating!queue, Activating!local
  <2>2. seen' \in [was: {"none"} \cup Activating!Statuses, now: {"none"} \cup Activating!Statuses]
    BY <1>0, <2>1
  <2>3. "answered" \in Activating!Places \ {"finalize"} /\ "answered" \notin Busy /\ ~Storing("worker")
    BY <2>1 DEF Activating!Places, Busy, Storing
  <2>4. sub.status # "none"
    BY <2>1 DEF KeyInv, Read
  <2> QED BY <1>0, <1>a, <2>1, <2>2, <2>3, <2>4, MoveKeeps
<1>18. CASE Activating!AskFails
  <2>1. /\ at["worker"] = "loaded" /\ Activating!Go("worker", "idle") /\ seen' = Activating!NotSeen
        /\ UNCHANGED <<admin, pending, tasks, held, attempt, sub, account, kills, apart>>
    BY <1>18 DEF Activating!AskFails, Activating!Worker, Activating!queue, Activating!local
  <2>2. "idle" \in Activating!Places \ {"finalize"} /\ "idle" \notin Busy /\ ~Storing("worker")
    BY <2>1 DEF Activating!Places, Busy, Storing
  <2> QED BY <1>0, <1>a, <1>d, <2>1, <2>2, MoveKeeps
<1>19. CASE Activating!Apply
  <2>1. /\ at["worker"] = "answered" /\ Activating!Go("worker", "idle") /\ seen' = Activating!NotSeen
        /\ sub' \in {sub, [sub EXCEPT !.status = seen.now]}
        /\ UNCHANGED <<admin, pending, tasks, held, attempt, account, kills, apart>>
    BY <1>19 DEF Activating!Apply, Activating!Worker, Activating!queue
  <2>2. sub.status # "none"
    BY <2>1 DEF KeyInv, Read
  <2>3. sub' \in Subscriptions /\ sub'.key = sub.key
    BY <1>0, <2>1 DEF Subscriptions
  <2>4. apart => sub'.key = "live"
    BY <2>2, <2>3 DEF KeyInv
  <2>5. "idle" \in Activating!Places \ {"finalize"} /\ "idle" \notin Busy /\ ~Storing("worker")
    BY <2>1 DEF Activating!Places, Busy, Storing
  <2> QED BY <1>0, <1>a, <1>d, <2>1, <2>3, <2>4, <2>5, MoveKeeps
<1>20. CASE UNCHANGED Activating!vars
  BY <1>20 DEF Activating!vars, KeyInv, Activating!TypeOK, Worked, Read, HeldToStore, OneStores,
     NoneDead, Storing
<1>21. ASSUME NEW x \in Activating!Actors, Activating!Phases(x) PROVE KeyInv'
  BY <1>5, <1>6, <1>7, <1>8, <1>9, <1>10, <1>12, <1>21 DEF Activating!Phases
<1> QED BY <1>1, <1>2, <1>3, <1>4, <1>11, <1>13, <1>14, <1>15, <1>16, <1>17, <1>18, <1>19, <1>20, <1>21
        DEF Activating!Next

-----------------------------------------------------------------------------
(* The inbox.                                                              *)

Cycles == [step: Polling!Steps, left: SUBSET (1..MaxMessages), msg: 0..MaxMessages, mute: BOOLEAN]
Replies == [step: {"none", "asked", "sent"}, msg: 0..MaxMessages, seen: BOOLEAN]

LEMMA SetLeft ==
  ASSUME NEW c \in Cycles, NEW L \in SUBSET (1..MaxMessages)
  PROVE  LET d == [c EXCEPT !.left = L]
         IN  d \in Cycles /\ d.left = L /\ d.step = c.step /\ d.msg = c.msg
BY DEF Cycles

LEMMA SetStep ==
  ASSUME NEW c \in Cycles, NEW step \in Polling!Steps
  PROVE  LET d == [c EXCEPT !.step = step]
         IN  d \in Cycles /\ d.step = step /\ d.left = c.left /\ d.msg = c.msg
BY DEF Cycles

LEMMA SetMsg ==
  ASSUME NEW c \in Cycles, NEW m \in 0..MaxMessages
  PROVE  LET d == [c EXCEPT !.msg = m]
         IN  d \in Cycles /\ d.msg = m /\ d.step = c.step /\ d.left = c.left
BY DEF Cycles

LEMMA NoCycleYet == Polling!NoCycle \in Cycles /\ Polling!NoCycle.step = "idle"
BY BoundAssumption DEF Polling!NoCycle, Cycles, Polling!Steps

LEMMA NoReplyYet == Polling!NoReply \in Replies /\ Polling!NoReply.step = "none"
BY BoundAssumption DEF Polling!NoReply, Replies

\* A message that is fetched or delivered by a webhook is known and dated.
LEMMA StoredRow ==
  ASSUME NEW r \in Polling!Rows, NEW t \in 0..MaxMessages
  PROVE  LET w == [r EXCEPT !.known = TRUE, !.at = t]
             f == [r EXCEPT !.known = TRUE, !.at = t, !.late = FALSE]
         IN  /\ w \in Polling!Rows /\ w.known /\ w.late = r.late
             /\ f \in Polling!Rows /\ f.known /\ ~f.late
<1> DEFINE k == [r EXCEPT !.known = TRUE]
           w == [k EXCEPT !.at = t]
           f == [w EXCEPT !.late = FALSE]
<1>1. k \in Polling!Rows /\ k.known /\ k.late = r.late
  BY DEF Polling!Rows
<1> HIDE DEF k
<1>2. w \in Polling!Rows /\ w.known /\ w.late = r.late
  BY <1>1 DEF Polling!Rows
<1> HIDE DEF w
<1>3. f \in Polling!Rows /\ f.known /\ ~f.late
  BY <1>2 DEF Polling!Rows
<1> USE DEF k, w
<1>4. [r EXCEPT !.known = TRUE, !.at = t] = w /\ [r EXCEPT !.known = TRUE, !.at = t, !.late = FALSE] = f
  OBVIOUS
<1> HIDE DEF w, f
<1> QED BY <1>2, <1>3, <1>4

LEMMA InboxInit == Polling!Init => InboxInv
<1> SUFFICES ASSUME Polling!Init PROVE InboxInv
  OBVIOUS
<1>1. cycle = Polling!NoCycle /\ cycle \in Cycles /\ cycle.step = "idle"
  BY NoCycleYet DEF Polling!Init
<1>2. reply \in Replies /\ reply.step = "none"
  BY NoReplyYet DEF Polling!Init
<1>3. \A m \in 1..MaxMessages : notified[m] = 0 /\ told[m] = 0 /\ row[m].known = FALSE /\ row[m].late = FALSE
  BY DEF Polling!Init, Polling!Messages
<1>4. row \in [1..MaxMessages -> Polling!Rows]
  <2>1. [known |-> FALSE, at |-> 0, waits |-> TRUE, late |-> FALSE] \in Polling!Rows
    BY BoundAssumption DEF Polling!Rows
  <2> QED BY <2>1 DEF Polling!Init, Polling!Messages
<1>5. Polling!TypeOK
  BY <1>1, <1>2, <1>4, BoundAssumption DEF Polling!Init, Polling!TypeOK, Polling!Messages, Cycles, Replies
<1>6. recorded = 0 /\ delivered = 0 /\ breaks = 0
  BY DEF Polling!Init
<1> QED BY <1>1, <1>2, <1>3, <1>5, <1>6
        DEF InboxInv, Cycling, Replying, Counts, Noticing, Telling, Marked, Stored, Recording

\* A step that changes what is listed here only.
LEMMA InboxStays ==
  ASSUME InboxInv, Polling!TypeOK',
         UNCHANGED <<row, cycle, reply, breaks, notified, told, delivered, recorded>>
  PROVE  InboxInv'
BY DEF InboxInv, Cycling, Replying, Counts, Noticing, Telling, Marked, Stored, Recording

\* A step of the cycle or of a webhook, which has nothing to do with replies.
LEMMA RepliesStay ==
  ASSUME InboxInv, Polling!TypeOK', Cycling', \A m \in 1..MaxMessages : Counts(m)',
         UNCHANGED <<reply, delivered, recorded>>
  PROVE  InboxInv'
BY DEF InboxInv, Replying, Recording

\* The cycle moves between steps at which it neither creates nor tells.
Silent == cycle.step \notin {"created", "told"}
LEMMA CycleMoves ==
  ASSUME InboxInv, Polling!TypeOK', Silent, cycle'.step \notin {"created", "told"},
         cycle'.step = "late" => \A m \in cycle'.left : ~row[m].late,
         UNCHANGED <<row, reply, notified, told, delivered, recorded, breaks>>
  PROVE  InboxInv'
<1>1. Cycling'
  BY DEF Cycling
<1>2. \A m \in 1..MaxMessages : Counts(m)'
  BY DEF InboxInv, Counts, Noticing, Telling, Marked, Stored, Silent
<1> QED BY <1>1, <1>2, RepliesStay

LEMMA InboxNext == InboxInv /\ [Polling!Next]_Polling!vars => InboxInv'
<1> SUFFICES ASSUME InboxInv, [Polling!Next]_Polling!vars PROVE InboxInv'
  OBVIOUS
<1>0. /\ Polling!TypeOK /\ Cycling /\ Replying
      /\ \A m \in 1..MaxMessages : Counts(m)
  BY DEF InboxInv
<1>a. /\ posted \in 0..MaxMessages /\ row \in [1..MaxMessages -> Polling!Rows]
      /\ cycle \in Cycles /\ reply \in Replies /\ breaks \in 0..MaxKills
      /\ notified \in [1..MaxMessages -> 0..2] /\ told \in [1..MaxMessages -> Nat]
      /\ overdue \subseteq 1..MaxMessages /\ silent \subseteq 1..MaxMessages
      /\ passed \subseteq 1..MaxMessages
      /\ delivered \in 0..MaxReplies /\ recorded \in 0..MaxReplies
  BY <1>0 DEF Polling!TypeOK, Polling!Messages, Cycles, Replies
<1>b. /\ cycle.step \in Polling!Steps /\ cycle.left \subseteq 1..MaxMessages
      /\ cycle.msg \in 0..MaxMessages
  BY <1>a DEF Cycles
<1>c. \A m \in 1..MaxMessages : row[m] \in Polling!Rows /\ row[m].known \in BOOLEAN /\ row[m].late \in BOOLEAN
  BY <1>a DEF Polling!Rows
<1>d. \A m \in 1..MaxMessages : Stored(m) \in {0, 1} /\ Marked(m) \in {0, 1} /\ notified[m] \in 0..2
                                /\ Noticing(m) \in {0, 1} /\ Telling(m) \in {0, 1} /\ told[m] \in Nat
  BY <1>a DEF Stored, Marked, Noticing, Telling
<1>m. \A m \in 1..MaxMessages : m \in 0..MaxMessages
  OBVIOUS
<1>n. Polling!Posted \subseteq 1..MaxMessages
  BY <1>a, BoundAssumption DEF Polling!Posted
<1>e. \A t : Polling!Behind(t) \subseteq 1..MaxMessages
  BY <1>n DEF Polling!Behind
<1>1. CASE Polling!Post
  <2>1. posted < MaxMessages /\ posted' = posted + 1
        /\ UNCHANGED <<filters, row, overdue, cycle, breaks, notified, silent, passed, told,
                       reply, delivered, recorded>>
    BY <1>1 DEF Polling!Post, Polling!tells, Polling!replies
  <2>3. posted' \in 0..MaxMessages
    BY <1>a, <2>1, BoundAssumption
  <2>2. Polling!TypeOK'
    BY <1>0, <2>1, <2>3 DEF Polling!TypeOK
  <2> QED BY <2>1, <2>2, InboxStays
<1>2. ASSUME NEW m \in 1..MaxMessages, Polling!FallOverdue(m) PROVE InboxInv'
  <2>1. overdue' \subseteq 1..MaxMessages
        /\ UNCHANGED <<posted, filters, row, cycle, breaks, notified, silent, passed, told,
                       reply, delivered, recorded>>
    BY <1>2, <1>a DEF Polling!FallOverdue, Polling!tells, Polling!replies
  <2>2. Polling!TypeOK'
    BY <1>0, <2>1 DEF Polling!TypeOK, Polling!Messages
  <2> QED BY <2>1, <2>2, InboxStays
<1>3. CASE Polling!Fetch
  <2> DEFINE L == IF filters THEN {m \in Polling!Posted : m >= Polling!Since} ELSE Polling!Posted
             still == (Polling!Known = {})
  <2>1. L \in SUBSET (1..MaxMessages) /\ still \in BOOLEAN
    BY <1>n
  <2> HIDE DEF L, still
  <2>2. /\ cycle.step = "idle" /\ cycle' = [step |-> "sync", msg |-> 0, mute |-> still, left |-> L]
        /\ UNCHANGED <<posted, filters, row, overdue, breaks, notified, silent, passed, told,
                       reply, delivered, recorded>>
    BY <1>3 DEF Polling!Fetch, Polling!tells, Polling!replies, L, still
  <2>3. cycle' \in Cycles /\ cycle'.step = "sync"
    BY <2>1, <2>2, BoundAssumption DEF Cycles, Polling!Steps
  <2>4. Polling!TypeOK'
    BY <1>0, <2>2, <2>3 DEF Polling!TypeOK, Polling!Messages, Cycles
  <2> QED BY <2>2, <2>3, <2>4, CycleMoves DEF Silent
<1>4. ASSUME NEW m \in 1..MaxMessages, Polling!Upsert(m) PROVE InboxInv'
  <2> DEFINE f == [row[m] EXCEPT !.known = TRUE, !.at = m, !.late = FALSE]
             a == [cycle EXCEPT !.left = cycle.left \ {m}]
             b == [a EXCEPT !.step = "created"]
             c == [b EXCEPT !.msg = m]
  <2>1. f \in Polling!Rows /\ f.known /\ ~f.late
    BY <1>c, <1>m, StoredRow
  <2>2. a \in Cycles /\ a.step = cycle.step
    BY <1>a, <1>b, SetLeft
  <2> HIDE DEF a
  <2>3. b \in Cycles /\ b.step = "created"
    BY <2>2, SetStep DEF Polling!Steps
  <2> HIDE DEF b
  <2>4. c \in Cycles /\ c.step = "created" /\ c.msg = m
    BY <2>3, SetMsg
  <2>5. /\ cycle.step = "sync"
        /\ row' = [row EXCEPT ![m] = f] /\ told' = [told EXCEPT ![m] = 0]
        /\ cycle' = a \/ (cycle' = c /\ ~row[m].known)
        /\ silent' \subseteq silent \cup {m}
        /\ UNCHANGED <<posted, filters, overdue, breaks, notified, passed, reply, delivered, recorded>>
    BY <1>4 DEF Polling!Upsert, Polling!replies, a, b
  <2> HIDE DEF c, f
  <2>6. /\ row' \in [1..MaxMessages -> Polling!Rows] /\ row'[m] = f
        /\ told' \in [1..MaxMessages -> Nat] /\ told'[m] = 0
        /\ \A z \in 1..MaxMessages : z # m => row'[z] = row[z] /\ told'[z] = told[z]
    BY <1>a, <2>1, <2>5
  <2>7. cycle' \in Cycles /\ cycle'.step \in {"sync", "created"}
        /\ (cycle'.step = "created" => cycle'.msg = m /\ ~row[m].known)
    BY <2>2, <2>4, <2>5
  <2>8. Polling!TypeOK'
    BY <1>0, <2>5, <2>6, <2>7 DEF Polling!TypeOK, Polling!Messages, Cycles
  <2>9. Cycling'
    BY <2>7 DEF Cycling
  <2>10. ASSUME NEW z \in 1..MaxMessages PROVE Counts(z)'
    <3>1. Noticing(z) = 0 /\ Telling(z) = 0 /\ Telling(z)' = 0
      BY <2>5, <2>7 DEF Noticing, Telling
    <3>2. Counts(z)
      BY <1>0
    <3>3. CASE z # m
      <4>1. Noticing(z)' = 0
        BY <2>7, <3>3 DEF Noticing
      <4> QED BY <2>5, <2>6, <3>1, <3>2, <3>3, <4>1 DEF Counts, Marked, Stored
    <3>4. CASE z = m
      <4>1. Stored(z)' = 1 /\ Marked(z)' = 0 /\ told'[z] = 0
        BY <2>1, <2>6, <3>4 DEF Stored, Marked
      <4>2. Noticing(z)' = 0 \/ (Noticing(z)' = 1 /\ Stored(z) = 0)
        BY <2>7, <3>4 DEF Noticing, Stored
      <4>3. notified'[z] + Noticing(z)' <= 1
        BY <1>d, <2>5, <3>1, <3>2, <4>2 DEF Counts
      <4> QED BY <1>a, <2>5, <3>1, <4>1, <4>3 DEF Counts
    <3> QED BY <3>3, <3>4
  <2> QED BY <2>5, <2>8, <2>9, <2>10, RepliesStay
<1>5. CASE Polling!NotifyNew
  <2> DEFINE m == cycle.msg
             a == [cycle EXCEPT !.step = "sync"]
             b == [a EXCEPT !.msg = 0]
             n == IF notified[m] < 2 THEN notified[m] + 1 ELSE notified[m]
  <2>1. cycle.step = "created" /\ m \in 1..MaxMessages
    BY <1>0, <1>5 DEF Polling!NotifyNew, Cycling
  <2>2. a \in Cycles /\ a.step = "sync"
    BY <1>a, SetStep DEF Polling!Steps
  <2> HIDE DEF a
  <2>3. b \in Cycles /\ b.step = "sync"
    BY <2>2, SetMsg, BoundAssumption
  <2>4. /\ notified' = [notified EXCEPT ![m] = n] /\ cycle' = b
        /\ UNCHANGED <<posted, filters, row, overdue, breaks, silent, passed, told,
                       reply, delivered, recorded>>
    BY <1>5 DEF Polling!NotifyNew, Polling!Notice, Polling!replies, a
  <2>5. Noticing(m) = 1 /\ \A z \in 1..MaxMessages : z # m => Noticing(z) = 0
    BY <2>1 DEF Noticing
  <2>6. n = notified[m] + 1 /\ n \in 0..2
    BY <1>0, <1>d, <2>1, <2>5 DEF Counts
  <2> HIDE DEF b, n
  <2>7. /\ notified' \in [1..MaxMessages -> 0..2] /\ notified'[m] = n
        /\ \A z \in 1..MaxMessages : z # m => notified'[z] = notified[z]
    BY <1>a, <2>1, <2>4, <2>6
  <2>8. Polling!TypeOK'
    BY <1>0, <2>3, <2>4, <2>7 DEF Polling!TypeOK, Polling!Messages, Cycles
  <2>9. Cycling'
    BY <2>3, <2>4 DEF Cycling
  <2>10. ASSUME NEW z \in 1..MaxMessages PROVE Counts(z)'
    <3>1. Counts(z)
      BY <1>0
    <3>2. Noticing(z)' = 0 /\ Telling(z)' = 0 /\ Telling(z) = 0 /\ Stored(z)' = Stored(z) /\ Marked(z)' = Marked(z)
      BY <2>1, <2>3, <2>4 DEF Noticing, Telling, Stored, Marked
    <3>3. notified'[z] = notified[z] + Noticing(z)
      BY <1>d, <2>5, <2>6, <2>7
    <3>4. notified'[z] \in Nat
      BY <2>7
    <3> QED BY <2>4, <3>1, <3>2, <3>3, <3>4 DEF Counts
  <2> QED BY <2>4, <2>8, <2>9, <2>10, RepliesStay
<1>6. CASE Polling!Scan
  <2> DEFINE L == {m \in Polling!Known \cap overdue : row[m].waits /\ ~row[m].late}
             a == [Polling!NoCycle EXCEPT !.step = "late"]
             b == [a EXCEPT !.left = L]
  <2>1. L \in SUBSET (1..MaxMessages) /\ \A m \in L : ~row[m].late
    BY <1>a
  <2>2. a \in Cycles /\ a.step = "late"
    BY NoCycleYet, SetStep DEF Polling!Steps
  <2> HIDE DEF a, L
  <2>3. b \in Cycles /\ b.step = "late" /\ b.left = L
    BY <2>1, <2>2, SetLeft
  <2>4. /\ cycle.step = "sync" /\ cycle' = b
        /\ UNCHANGED <<posted, filters, row, overdue, breaks, notified, silent, passed, told,
                       reply, delivered, recorded>>
    BY <1>6 DEF Polling!Scan, Polling!tells, Polling!replies, a, L
  <2>5. Polling!TypeOK'
    BY <1>0, <2>3, <2>4 DEF Polling!TypeOK, Polling!Messages, Cycles
  <2> HIDE DEF b
  <2> QED BY <2>1, <2>3, <2>4, <2>5, CycleMoves DEF Silent
<1>7. ASSUME NEW m \in 1..MaxMessages, Polling!Tell(m) PROVE InboxInv'
  <2> DEFINE a == [cycle EXCEPT !.left = cycle.left \ {m}]
             b == [a EXCEPT !.step = "told"]
             c == [b EXCEPT !.msg = m]
  <2>1. a \in Cycles /\ a.left = cycle.left \ {m}
    BY <1>a, <1>b, SetLeft
  <2> HIDE DEF a
  <2>2. b \in Cycles /\ b.step = "told" /\ b.left = cycle.left \ {m}
    BY <2>1, SetStep DEF Polling!Steps
  <2> HIDE DEF b
  <2>3. c \in Cycles /\ c.step = "told" /\ c.left = cycle.left \ {m} /\ c.msg = m
    BY <2>2, SetMsg
  <2>4. /\ cycle.step = "late" /\ m \in cycle.left
        /\ told' = [told EXCEPT ![m] = told[m] + 1] /\ cycle' = c
        /\ UNCHANGED <<posted, filters, row, overdue, breaks, notified, silent, passed,
                       reply, delivered, recorded>>
    BY <1>7 DEF Polling!Tell, Polling!replies, a, b
  <2> HIDE DEF c
  <2>5. /\ told' \in [1..MaxMessages -> Nat] /\ told'[m] = told[m] + 1
        /\ \A z \in 1..MaxMessages : z # m => told'[z] = told[z]
    BY <1>a, <2>4
  <2>6. Polling!TypeOK'
    BY <1>0, <2>3, <2>4, <2>5 DEF Polling!TypeOK, Polling!Messages, Cycles
  <2>7. \A z \in cycle.left : ~row[z].late
    BY <1>0, <2>4 DEF Cycling
  <2>8. Cycling'
    BY <2>3, <2>4, <2>7 DEF Cycling
  <2>9. ASSUME NEW z \in 1..MaxMessages PROVE Counts(z)'
    <3>1. Counts(z)
      BY <1>0
    <3>2. /\ Noticing(z)' = 0 /\ Noticing(z) = 0 /\ Stored(z)' = Stored(z) /\ Marked(z)' = Marked(z)
          /\ Telling(z) = 0 /\ Telling(z)' = IF z = m THEN 1 ELSE 0
      BY <2>3, <2>4 DEF Noticing, Telling, Stored, Marked
    <3> QED BY <1>a, <1>d, <2>4, <2>5, <3>1, <3>2 DEF Counts
  <2> QED BY <2>4, <2>6, <2>8, <2>9, RepliesStay
<1>8. CASE Polling!Mark
  <2> DEFINE m == cycle.msg
             r == [row[m] EXCEPT !.late = TRUE]
             a == [cycle EXCEPT !.step = "late"]
             b == [a EXCEPT !.msg = 0]
  <2>1. cycle.step = "told" /\ m \in 1..MaxMessages /\ ~row[m].late
    BY <1>0, <1>8 DEF Polling!Mark, Cycling
  <2>2. r \in Polling!Rows /\ r.late /\ r.known = row[m].known
    BY <1>c, <2>1 DEF Polling!Rows
  <2>3. a \in Cycles /\ a.step = "late" /\ a.left = cycle.left
    BY <1>a, SetStep DEF Polling!Steps
  <2> HIDE DEF a
  <2>4. b \in Cycles /\ b.step = "late" /\ b.left = cycle.left
    BY <2>3, SetMsg, BoundAssumption
  <2>5. /\ row' = [row EXCEPT ![m] = r] /\ cycle' = b
        /\ UNCHANGED <<posted, filters, overdue, breaks, notified, silent, passed, told,
                       reply, delivered, recorded>>
    BY <1>8 DEF Polling!Mark, Polling!tells, Polling!replies, a
  <2> HIDE DEF b, r
  <2>6. /\ row' \in [1..MaxMessages -> Polling!Rows] /\ row'[m] = r
        /\ \A z \in 1..MaxMessages : z # m => row'[z] = row[z]
    BY <1>a, <2>1, <2>2, <2>5
  <2>7. Polling!TypeOK'
    BY <1>0, <2>4, <2>5, <2>6 DEF Polling!TypeOK, Polling!Messages, Cycles
  <2>8. \A z \in cycle.left : z # m /\ ~row[z].late
    BY <1>0, <2>1 DEF Cycling
  <2>9. Cycling'
    BY <1>b, <2>4, <2>5, <2>6, <2>8 DEF Cycling
  <2>10. ASSUME NEW z \in 1..MaxMessages PROVE Counts(z)'
    <3>1. Counts(z)
      BY <1>0
    <3>2. Noticing(z)' = 0 /\ Noticing(z) = 0 /\ Telling(z)' = 0 /\ Telling(z) = IF z = m THEN 1 ELSE 0
      BY <2>1, <2>4, <2>5 DEF Noticing, Telling
    <3>3. Stored(z)' = Stored(z) /\ (z = m => Marked(z)' = 1 /\ Marked(z) = 0) /\ (z # m => Marked(z)' = Marked(z))
      BY <2>1, <2>2, <2>6 DEF Stored, Marked
    <3> QED BY <1>a, <1>d, <2>5, <3>1, <3>2, <3>3 DEF Counts
  <2> QED BY <2>5, <2>7, <2>9, <2>10, RepliesStay
<1>9. CASE Polling!EndCycle
  <2>1. /\ cycle.step = "late" /\ cycle' = Polling!NoCycle
        /\ UNCHANGED <<posted, filters, row, overdue, breaks, notified, silent, passed, told,
                       reply, delivered, recorded>>
    BY <1>9 DEF Polling!EndCycle, Polling!tells, Polling!replies
  <2>2. Polling!TypeOK'
    BY <1>0, <2>1, NoCycleYet DEF Polling!TypeOK, Polling!Messages, Cycles
  <2> QED BY <2>1, <2>2, NoCycleYet, CycleMoves DEF Silent
<1>10. CASE Polling!Kill
  <2>1. /\ cycle' = Polling!NoCycle /\ breaks < MaxKills /\ breaks' = breaks + 1
        /\ silent' \subseteq silent \cup {cycle.msg} /\ (silent' # silent => cycle.step = "created")
        /\ passed' = passed \cup Polling!Behind(Polling!Since)
        /\ UNCHANGED <<posted, filters, row, overdue, notified, told, reply, delivered, recorded>>
    BY <1>10 DEF Polling!Kill, Polling!replies
  <2>2. silent' \subseteq 1..MaxMessages /\ passed' \subseteq 1..MaxMessages
    BY <1>0, <1>a, <1>e, <2>1 DEF Cycling
  <2>3. breaks' \in 0..MaxKills
    BY <1>a, <2>1, BoundAssumption
  <2>4. Polling!TypeOK'
    BY <1>0, <2>1, <2>2, <2>3, NoCycleYet DEF Polling!TypeOK, Polling!Messages, Cycles
  <2>5. Cycling'
    BY <2>1, NoCycleYet DEF Cycling
  <2>6. ASSUME NEW z \in 1..MaxMessages PROVE Counts(z)'
    <3>1. Counts(z)
      BY <1>0
    <3>2. Noticing(z)' = 0 /\ Telling(z)' = 0 /\ Stored(z)' = Stored(z) /\ Marked(z)' = Marked(z)
      BY <2>1, NoCycleYet DEF Noticing, Telling, Stored, Marked
    <3> QED BY <1>a, <1>d, <2>1, <3>1, <3>2 DEF Counts
  <2> QED BY <2>1, <2>4, <2>5, <2>6, RepliesStay
<1>11. ASSUME NEW m \in 1..MaxMessages, Polling!CreateIfNew(m) PROVE InboxInv'
  <2> DEFINE w == [row[m] EXCEPT !.known = TRUE, !.at = posted]
             n == IF notified[m] < 2 THEN notified[m] + 1 ELSE notified[m]
  <2>1. w \in Polling!Rows /\ w.known /\ w.late = row[m].late
    BY <1>a, <1>c, StoredRow
  <2>2. /\ ~row[m].known /\ row' = [row EXCEPT ![m] = w]
        /\ notified' = notified \/ notified' = [notified EXCEPT ![m] = n]
        /\ silent' \subseteq silent \cup {m} /\ passed' = passed \cup (Polling!Behind(posted) \ {m})
        /\ UNCHANGED <<posted, filters, overdue, cycle, breaks, told, reply, delivered, recorded>>
    BY <1>11 DEF Polling!CreateIfNew, Polling!Known, Polling!Messages, Polling!Notice, Polling!replies
  <2>3. Stored(m) = 0 /\ notified[m] = 0 /\ Noticing(m) = 0 /\ n = 1
    BY <1>0, <1>d, <2>2 DEF Stored, Counts
  <2> HIDE DEF w, n
  <2>4. /\ row' \in [1..MaxMessages -> Polling!Rows] /\ row'[m] = w
        /\ \A z \in 1..MaxMessages : z # m => row'[z] = row[z]
    BY <1>a, <2>1, <2>2
  <2>5. /\ notified' \in [1..MaxMessages -> 0..2] /\ notified'[m] \in {0, 1}
        /\ \A z \in 1..MaxMessages : z # m => notified'[z] = notified[z]
    <3>1. CASE notified' = notified
      BY <1>a, <2>3, <3>1
    <3>2. CASE notified' = [notified EXCEPT ![m] = n]
      BY <1>a, <2>3, <3>2
    <3> QED BY <2>2, <3>1, <3>2
  <2>6. silent' \subseteq 1..MaxMessages /\ passed' \subseteq 1..MaxMessages
    BY <1>a, <1>e, <2>2
  <2>7. Polling!TypeOK'
    BY <1>0, <2>2, <2>4, <2>5, <2>6 DEF Polling!TypeOK, Polling!Messages
  <2>8. \A z \in 1..MaxMessages : row'[z].late = row[z].late
    BY <2>1, <2>4
  <2>9. Cycling'
    BY <1>0, <1>b, <2>2, <2>8 DEF Cycling
  <2>10. ASSUME NEW z \in 1..MaxMessages PROVE Counts(z)'
    <3>1. Counts(z)
      BY <1>0
    <3>2. Noticing(z)' = Noticing(z) /\ Telling(z)' = Telling(z) /\ Marked(z)' = Marked(z)
      BY <2>2, <2>8 DEF Noticing, Telling, Marked
    <3>3. CASE z = m
      <4>1. Stored(z)' = 1
        BY <2>1, <2>4, <3>3 DEF Stored
      <4> QED BY <2>2, <2>3, <2>5, <3>1, <3>2, <3>3, <4>1 DEF Counts
    <3>4. CASE z # m
      <4>1. Stored(z)' = Stored(z) /\ notified'[z] = notified[z]
        BY <2>4, <2>5, <3>4 DEF Stored
      <4> QED BY <2>2, <3>1, <3>2, <4>1 DEF Counts
    <3> QED BY <3>3, <3>4
  <2> QED BY <2>2, <2>7, <2>9, <2>10, RepliesStay
<1>12. ASSUME NEW m \in 1..MaxMessages, Polling!Backfill(m) PROVE InboxInv'
  <2> DEFINE f == [row[m] EXCEPT !.known = TRUE, !.at = m, !.late = FALSE]
  <2>1. f \in Polling!Rows /\ f.known /\ ~f.late
    BY <1>c, <1>m, StoredRow
  <2>2. /\ row' = [row EXCEPT ![m] = f] /\ told' = [told EXCEPT ![m] = 0]
        /\ silent' \subseteq silent \cup {m} /\ passed' \subseteq passed \cup Polling!Behind(m)
        /\ UNCHANGED <<posted, filters, overdue, cycle, breaks, notified, reply, delivered, recorded>>
    BY <1>12 DEF Polling!Backfill, Polling!replies
  <2> HIDE DEF f
  <2>3. /\ row' \in [1..MaxMessages -> Polling!Rows] /\ row'[m] = f
        /\ told' \in [1..MaxMessages -> Nat] /\ told'[m] = 0
        /\ \A z \in 1..MaxMessages : z # m => row'[z] = row[z] /\ told'[z] = told[z]
    BY <1>a, <2>1, <2>2
  <2>4. silent' \subseteq 1..MaxMessages /\ passed' \subseteq 1..MaxMessages
    BY <1>a, <1>e, <2>2
  <2>5. Polling!TypeOK'
    BY <1>0, <2>2, <2>3, <2>4 DEF Polling!TypeOK, Polling!Messages
  <2>6. \A z \in 1..MaxMessages : row'[z].late => row[z].late
    BY <2>1, <2>3
  <2>7. Cycling'
    BY <1>0, <1>b, <2>2, <2>6 DEF Cycling
  <2>8. ASSUME NEW z \in 1..MaxMessages PROVE Counts(z)'
    <3>1. Counts(z)
      BY <1>0
    <3>2. Noticing(z)' = Noticing(z) /\ Telling(z)' = Telling(z)
      BY <2>2 DEF Noticing, Telling
    <3>3. CASE z = m
      <4>1. Stored(z)' = 1 /\ Marked(z)' = 0
        BY <2>1, <2>3, <3>3 DEF Stored, Marked
      <4>2. notified[z] + Noticing(z) <= 1
        BY <1>d, <3>1 DEF Counts
      <4> QED BY <1>a, <1>d, <2>2, <2>3, <3>2, <3>3, <4>1, <4>2 DEF Counts
    <3>4. CASE z # m
      <4>1. Stored(z)' = Stored(z) /\ Marked(z)' = Marked(z) /\ told'[z] = told[z]
        BY <2>3, <3>4 DEF Stored, Marked
      <4> QED BY <2>2, <3>1, <3>2, <4>1 DEF Counts
    <3> QED BY <3>3, <3>4
  <2> QED BY <2>2, <2>5, <2>7, <2>8, RepliesStay
<1>13. ASSUME NEW m \in 1..MaxMessages, NEW wait \in BOOLEAN,
              row' = [row EXCEPT ![m] = [row[m] EXCEPT !.waits = wait]],
              UNCHANGED <<posted, filters, overdue, cycle, breaks, notified, silent, passed, told>>
       PROVE  /\ row' \in [1..MaxMessages -> Polling!Rows] /\ Cycling'
              /\ \A z \in 1..MaxMessages : Counts(z)'
  <2> DEFINE r == [row[m] EXCEPT !.waits = wait]
  <2>1. r \in Polling!Rows /\ r.known = row[m].known /\ r.late = row[m].late
    BY <1>c DEF Polling!Rows
  <2> HIDE DEF r
  <2>2. /\ row' \in [1..MaxMessages -> Polling!Rows]
        /\ \A z \in 1..MaxMessages : row'[z].known = row[z].known /\ row'[z].late = row[z].late
    BY <1>13, <1>a, <2>1 DEF r
  <2>3. Cycling'
    BY <1>0, <1>13, <1>b, <2>2 DEF Cycling
  <2>4. \A z \in 1..MaxMessages : Counts(z)'
    BY <1>0, <1>13, <2>2 DEF Counts, Noticing, Telling, Marked, Stored
  <2> QED BY <2>2, <2>3, <2>4
<1>14. ASSUME NEW m \in 1..MaxMessages, Polling!SetStatus(m) PROVE InboxInv'
  <2>1. /\ row' = [row EXCEPT ![m] = [row[m] EXCEPT !.waits = ~row[m].waits]]
        /\ UNCHANGED <<posted, filters, overdue, cycle, breaks, notified, silent, passed, told,
                       reply, delivered, recorded>>
    BY <1>14 DEF Polling!SetStatus, Polling!tells, Polling!replies
  <2>2. /\ row' \in [1..MaxMessages -> Polling!Rows] /\ Cycling'
        /\ \A z \in 1..MaxMessages : Counts(z)'
    BY <1>13, <2>1
  <2>3. Polling!TypeOK'
    BY <1>0, <2>1, <2>2 DEF Polling!TypeOK, Polling!Messages
  <2> QED BY <2>1, <2>2, <2>3, RepliesStay
<1>15. ASSUME NEW m \in 1..MaxMessages, Polling!Reply(m) PROVE InboxInv'
  <2>1. /\ reply.step = "none" /\ delivered < MaxReplies
        /\ reply' = [step |-> "asked", msg |-> m, seen |-> row[m].waits]
        /\ UNCHANGED <<posted, filters, row, overdue, cycle, breaks, notified, silent, passed, told,
                       delivered, recorded>>
    BY <1>15 DEF Polling!Reply, Polling!tells
  <2>2. reply' \in Replies /\ reply'.step = "asked" /\ reply'.msg = m
    BY <1>c, <2>1 DEF Replies, Polling!Rows
  <2>3. Polling!TypeOK'
    BY <1>0, <2>1, <2>2 DEF Polling!TypeOK, Polling!Messages, Replies
  <2>4. Replying'
    BY <1>0, <2>1, <2>2 DEF Replying, Recording
  <2>5. Cycling' /\ \A z \in 1..MaxMessages : Counts(z)'
    BY <1>0, <2>1 DEF Cycling, Counts, Noticing, Telling, Marked, Stored
  <2> QED BY <2>3, <2>4, <2>5 DEF InboxInv
<1>16. CASE Polling!PlatformReply
  <2> DEFINE s == [reply EXCEPT !.step = "sent"]
  <2>1. s \in Replies /\ s.step = "sent" /\ s.msg = reply.msg
    BY <1>a DEF Replies
  <2>2. /\ reply.step = "asked"
        /\ \/ reply' = s /\ delivered' = delivered + 1
           \/ reply' = Polling!NoReply /\ delivered' \in {delivered, delivered + 1}
        /\ UNCHANGED <<posted, filters, row, overdue, cycle, breaks, notified, silent, passed, told, recorded>>
    BY <1>16 DEF Polling!PlatformReply, Polling!tells
  <2> HIDE DEF s
  <2>3. reply' \in Replies /\ reply'.step \in {"sent", "none"}
        /\ (reply'.step = "sent" => reply'.msg = reply.msg /\ delivered' = delivered + 1)
    BY <2>1, <2>2, NoReplyYet
  <2>4. delivered' \in 0..MaxReplies /\ delivered' >= delivered
    BY <1>0, <1>a, <2>2, BoundAssumption DEF Replying
  <2>5. Polling!TypeOK'
    BY <1>0, <2>2, <2>3, <2>4 DEF Polling!TypeOK, Polling!Messages, Replies
  <2>6. recorded <= delivered
    BY <1>0, <1>a, <2>2 DEF Replying, Recording
  <2>7. Replying'
    BY <1>0, <1>a, <2>2, <2>3, <2>4, <2>6 DEF Replying, Recording
  <2>8. Cycling' /\ \A z \in 1..MaxMessages : Counts(z)'
    BY <1>0, <2>2 DEF Cycling, Counts, Noticing, Telling, Marked, Stored
  <2> QED BY <2>5, <2>7, <2>8 DEF InboxInv
<1>17. CASE Polling!RecordReply
  <2>1. /\ reply.step = "sent" /\ recorded' = recorded + 1 /\ reply' = Polling!NoReply
        /\ \/ row' = [row EXCEPT ![reply.msg] = [row[reply.msg] EXCEPT !.waits = FALSE]]
           \/ row' = [row EXCEPT ![reply.msg] = [row[reply.msg] EXCEPT !.waits = TRUE]]
           \/ UNCHANGED row
        /\ UNCHANGED <<posted, filters, overdue, cycle, breaks, notified, silent, passed, told, delivered>>
    BY <1>17 DEF Polling!RecordReply, Polling!tells
  <2>2. reply.msg \in 1..MaxMessages /\ recorded + 1 <= delivered
    BY <1>0, <2>1 DEF Replying, Recording
  <2>7. recorded' = recorded + 1 /\ delivered' = delivered /\ reply'.step = "none"
    BY <2>1, NoReplyYet
  <2>3. /\ row' \in [1..MaxMessages -> Polling!Rows] /\ Cycling'
        /\ \A z \in 1..MaxMessages : Counts(z)'
    <3>1. CASE UNCHANGED row
      BY <1>0, <1>a, <2>1, <3>1 DEF Cycling, Counts, Noticing, Telling, Marked, Stored
    <3> QED BY <1>13, <2>1, <2>2, <3>1
  <2>4. recorded' \in 0..MaxReplies
    BY <1>a, <2>2, <2>7, BoundAssumption
  <2>5. Polling!TypeOK'
    BY <1>0, <2>1, <2>3, <2>4, NoReplyYet DEF Polling!TypeOK, Polling!Messages, Replies
  <2>6. Replying'
    BY <1>a, <2>2, <2>7 DEF Replying, Recording
  <2> QED BY <2>3, <2>5, <2>6 DEF InboxInv
<1>18. CASE UNCHANGED Polling!vars
  <2>1. Polling!TypeOK'
    BY <1>0, <1>18 DEF Polling!vars, Polling!TypeOK
  <2> QED BY <1>18, <2>1, InboxStays DEF Polling!vars
<1> QED BY <1>1, <1>2, <1>3, <1>4, <1>5, <1>6, <1>7, <1>8, <1>9, <1>10, <1>11, <1>12, <1>14, <1>15,
           <1>16, <1>17, <1>18 DEF Polling!Next, Polling!Messages

-----------------------------------------------------------------------------
(* All parts.                                                              *)

LEMMA BackgroundHolds == Spec => []BackgroundInv
<1>1. Init => BackgroundInv
  BY KeyInit, CheckoutInit, RemindInit, DeliverInit, VersionInit, InboxInit, DeletionInit
     DEF Init, BackgroundInv
<1>2. BackgroundInv /\ [Next]_vars => BackgroundInv'
  BY StepsOfParts, KeyNext, CheckoutNext, RemindNext, DeliverNext, VersionNext, InboxNext, DeletionNext
     DEF BackgroundInv
<1> QED BY <1>1, <1>2, PTL DEF Spec

\* The variables of the seven parts keep their types.
THEOREM BackgroundTypes == Spec => []TypeOK
<1>1. BackgroundInv => TypeOK
  BY DEF BackgroundInv, KeyInv, RemindInv, DeliverInv, VersionInv, InboxInv, DeletionInv, TypeOK
<1> QED BY <1>1, BackgroundHolds, PTL

\* A subscription that is stored has a key the service accepts, for any number
\* of users, of attempts, of answers lost and of processes killed, unless two
\* actors held answers to the commit at once.
THEOREM KeysStayLive == Spec => []ActiveKeyWorks
<1>1. BackgroundInv => ActiveKeyWorks
  BY DEF BackgroundInv, KeyInv, ActiveKeyWorks, Activating!ActiveKeyWorks
<1> QED BY <1>1, BackgroundHolds, PTL

\* However many deliveries and messages there are and however often a process
\* is killed: no round of an approval sends more reminders than the code means
\* to and one for each check that was killed, no delivery reaches its channel
\* more often than it may be attempted, and no message is notified twice.
THEOREM TellsStayBounded == Spec => []TellsAreBounded
<1>1. RemindInv => Reminding!RemindersAreBounded
  <2> SUFFICES ASSUME RemindInv, alone, NEW s \in Reminding!Stages
               PROVE  reminded[s] <= MaxReminders + cuts
    BY DEF Reminding!RemindersAreBounded
  <2>1. /\ reminder[s] \in Reminding!Rows /\ reminded[s] \in Nat /\ cuts \in Nat
        /\ reminded[s] <= reminder[s].count + cuts + Sending(s)
    BY DEF RemindInv, Reminding!TypeOK
  <2>2. reminder[s].count \in 0..MaxReminders
    BY <2>1 DEF Reminding!Rows
  <2>3. Sending(s) = 0 \/ (Sending(s) = 1 /\ reminder[s].count < MaxReminders)
    BY DEF RemindInv, Sending
  <2> QED BY <2>1, <2>2, <2>3, BoundAssumption
<1>2. DeliverInv => Delivering!SendsAreBounded
  <2> SUFFICES ASSUME DeliverInv, NEW d \in 1..MaxDeliveries PROVE sent[d] <= 3
    BY DEF Delivering!SendsAreBounded
  <2>1. delivery[d] \in Delivering!Row /\ sent[d] \in 0..4 /\ sent[d] + Attempting(d) <= delivery[d].attempts
    BY DEF DeliverInv, Delivering!TypeOK
  <2>2. delivery[d].attempts \in 0..3 /\ Attempting(d) \in {0, 1}
    BY <2>1 DEF Delivering!Row, Attempting
  <2> QED BY <2>1, <2>2
<1>3. InboxInv => Polling!ToldOnce
  <2> SUFFICES ASSUME InboxInv, NEW m \in 1..MaxMessages
               PROVE  notified[m] <= 1 /\ told[m] <= 1 + breaks
    BY DEF Polling!ToldOnce, Polling!Messages
  <2>1. /\ notified[m] \in 0..2 /\ told[m] \in Nat /\ breaks \in Nat
        /\ notified[m] + Noticing(m) <= Stored(m) /\ told[m] <= breaks + Marked(m) + Telling(m)
    BY DEF InboxInv, Counts, Polling!TypeOK, Polling!Messages
  <2>2. Noticing(m) \in {0, 1} /\ Stored(m) \in {0, 1}
    BY DEF Noticing, Stored
  <2>3. Marked(m) + Telling(m) <= 1
    BY DEF InboxInv, Cycling, Marked, Telling
  <2>4. Marked(m) \in {0, 1} /\ Telling(m) \in {0, 1}
    BY DEF Marked, Telling
  <2> QED BY <2>1, <2>2, <2>3, <2>4
<1>4. BackgroundInv => TellsAreBounded
  BY <1>1, <1>2, <1>3 DEF BackgroundInv, TellsAreBounded
<1> QED BY <1>4, BackgroundHolds, PTL

\* An organization whose deletion was cancelled is kept, whatever tasks of
\* earlier requests are still queued and however often the worker is killed,
\* unless the cancel met the deletion itself.
THEOREM CancelsAreKept == Spec => []CancelledIsKept
<1>1. BackgroundInv => CancelledIsKept
  BY DEF BackgroundInv, DeletionInv, CancelledIsKept, Deleting!CancelledIsKept
<1> QED BY <1>1, BackgroundHolds, PTL

=============================================================================
