------------------------- MODULE ShootingSessions -------------------------
(***************************************************************************)
(* A shooting session on the dashboard's calendar                          *)
(* (apps/api/routers/frontend/calendar.py).  An update sends some of the    *)
(* fields and writes the whole row it read back.                            *)
(***************************************************************************)
EXTENDS Naturals

CONSTANTS Requests, MaxTime  \* bound: times are 1..MaxTime

Open == 0                    \* no end_at
Times == 1..MaxTime

VARIABLES
  booked,   \* the session: "none" yet, a "row", or "gone"
  begins, ends,
  copy,     \* the row each update has read, Nothing if it has not
  dragged   \* history: the start was dragged since both were last checked

vars == <<booked, begins, ends, copy, dragged>>

Nothing == [begins |-> 0, ends |-> Open]

TypeOK ==
  /\ booked \in {"none", "row", "gone"}
  /\ begins \in 0..MaxTime /\ ends \in 0..MaxTime
  /\ copy \in [Requests -> [begins : 0..MaxTime, ends : 0..MaxTime]]
  /\ dragged \in BOOLEAN

Init ==
  /\ booked = "none" /\ begins = 0 /\ ends = Open
  /\ copy = [r \in Requests |-> Nothing] /\ dragged = FALSE

Ordered(b, e) == e = Open \/ e > b

\* create_shooting_session
Create(b, e) ==
  /\ booked = "none" /\ Ordered(b, e)
  /\ booked' = "row" /\ begins' = b /\ ends' = e
  /\ UNCHANGED <<copy, dragged>>

Read(r) ==
  /\ booked = "row" /\ copy[r] = Nothing
  /\ copy' = [copy EXCEPT ![r] = [begins |-> begins, ends |-> ends]]
  /\ UNCHANGED <<booked, begins, ends, dragged>>

\* update_shooting_session: the fields sent, a start and an end among them or
\* not, are put into the row read, the start and the end it then has are
\* compared, and the whole row is saved, inserted again if it was deleted.
Update(r, sent) ==
  /\ copy[r] # Nothing
  /\ copy' = [copy EXCEPT ![r] = Nothing]
  /\ \E b \in IF "begins" \in sent THEN Times ELSE {copy[r].begins},
        e \in IF "ends" \in sent THEN Times \cup {Open} ELSE {copy[r].ends} :
       IF Ordered(b, e)
       THEN booked' = "row" /\ begins' = b /\ ends' = e /\ dragged' = FALSE
       ELSE UNCHANGED <<booked, begins, ends, dragged>>

\* reschedule_shooting_session writes the start, and nothing else.
Drag(b) ==
  /\ booked = "row"
  /\ begins' = b /\ dragged' = TRUE
  /\ UNCHANGED <<booked, ends, copy>>

Delete ==
  /\ booked = "row" /\ booked' = "gone"
  /\ UNCHANGED <<begins, ends, copy, dragged>>

Next ==
  \/ \E b \in Times : Drag(b) \/ \E e \in Times \cup {Open} : Create(b, e)
  \/ \E r \in Requests : Read(r) \/ \E sent \in SUBSET {"begins", "ends"} : Update(r, sent)
  \/ Delete

Spec == Init /\ [][Next]_vars

-----------------------------------------------------------------------------
\* A session ends after it begins, whatever fields an update sent and whatever
\* row it had read, until its start is dragged.
EndsAfterItBegins == booked = "row" => Ordered(begins, ends) \/ dragged
=============================================================================
