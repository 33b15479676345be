------------------------------ MODULE Checkout ------------------------------
(***************************************************************************)
(* Checkouts of one organization (apps/intelligence/views.py).  An admin's  *)
(* checkout reserves a StudioCheckoutAttempt, asks the Intelligence service *)
(* for a Stripe session and stores it; any admin may discard the attempt,   *)
(* and recover fabricates one for a paid session the application lost.      *)
(* A partial unique index allows one attempt in progress.                   *)
(*                                                                         *)
(* A session is named by the checkout that asks for it.  A step of the      *)
(* two-phase activation that matters here is its end (see Activation).      *)
(***************************************************************************)
EXTENDS Naturals

CONSTANTS Sessions   \* checkouts, and the sessions they open

Rows == Sessions \X {"checkout", "recover"}
NoRow == [status |-> "absent", linked |-> FALSE]
None == <<"none", "none">>

VARIABLES
  row,      \* StudioCheckoutAttempt: its status; linked: it stores the session
  remote,   \* external: the session at the service
  at,       \* where each checkout request is
  discard   \* a discard_checkout request: its step, and the row it read

vars == <<row, remote, at, discard>>

InProgress == {"creating", "open"}
Taken == {"open", "paid", "active"}      \* what the service allows once

TypeOK ==
  /\ row \in [Rows -> [status: {"absent", "activated", "expired", "canceled"} \cup InProgress,
                       linked: BOOLEAN]]
  /\ remote \in [Sessions -> Taken \cup {"none", "canceled"}]
  /\ at \in [Sessions -> {"idle", "asking", "opened", "done"}]
  /\ discard \in [step: {"idle", "read", "canceled"}, row: Rows \cup {None}]

Init ==
  /\ row = [r \in Rows |-> NoRow]
  /\ remote = [s \in Sessions |-> "none"]
  /\ at = [s \in Sessions |-> "idle"]
  /\ discard = [step |-> "idle", row |-> None]

Go(s, place) == at' = [at EXCEPT ![s] = place]
Own(s) == <<s, "checkout">>
Current == {r \in Rows : row[r].status \in InProgress}
Linked(s) == {r \in Rows : r[1] = s /\ row[r].linked}
Set(r, status) == row' = [row EXCEPT ![r].status = status]

-----------------------------------------------------------------------------
(* checkout *)

\* The row is inserted; the index refuses a second one in progress.
Reserve(s) ==
  /\ at[s] = "idle" /\ Current = {}
  /\ Go(s, "asking") /\ Set(Own(s), "creating")
  /\ UNCHANGED <<remote, discard>>

\* The service opens a session, unless the organization has one.
Opened(s) ==
  /\ at[s] = "asking"
  /\ \A t \in Sessions : remote[t] \notin Taken
  /\ remote' = [remote EXCEPT ![s] = "open"]
  /\ Go(s, "opened")
  /\ UNCHANGED <<row, discard>>

\* Conflict: the row is expired.
Refused(s) ==
  /\ at[s] = "asking"
  /\ \E t \in Sessions : remote[t] \in Taken
  /\ Go(s, "done") /\ Set(Own(s), "expired")
  /\ UNCHANGED <<remote, discard>>

\* No answer, whether or not a session was opened: the row is deleted.
NoAnswer(s) ==
  /\ at[s] = "asking"
  /\ \/ UNCHANGED remote
     \/ /\ \A t \in Sessions : remote[t] \notin Taken
        /\ remote' = [remote EXCEPT ![s] = "open"]
  /\ Go(s, "done")
  /\ row' = [row EXCEPT ![Own(s)] = NoRow]
  /\ UNCHANGED discard

\* The row is saved as open, over what a discard or a recovery made of it;
\* the index may refuse that.
Save(s) ==
  /\ at[s] = "opened"
  /\ Go(s, "done")
  /\ IF Current \subseteq {Own(s)}
     THEN row' = [row EXCEPT ![Own(s)] = [status |-> "open", linked |-> TRUE]]
     ELSE UNCHANGED row
  /\ UNCHANGED <<remote, discard>>

\* The web worker is killed.
Kill(s) ==
  /\ at[s] \in {"asking", "opened"}
  /\ Go(s, "done")
  /\ UNCHANGED <<row, remote, discard>>

-----------------------------------------------------------------------------
(* discard_checkout *)

\* The attempt in progress; without one, what the service reports open.
DiscardRead ==
  /\ discard.step = "idle"
  /\ Current # {} \/ \E s \in Sessions : remote[s] = "open"
  /\ \E r \in IF Current = {} THEN {None} ELSE Current :
       discard' = [step |-> "read", row |-> r]
  /\ UNCHANGED <<row, remote, at>>

\* The service closes the session named, or the organization's, if it is
\* open; a conflict or an unknown session is no error.
DiscardCancel ==
  /\ discard.step = "read"
  /\ LET r == discard.row
         named == IF r # None /\ row[r].linked THEN {r[1]} ELSE Sessions
     IN remote' = [s \in Sessions |->
                    IF s \in named /\ remote[s] = "open" THEN "canceled" ELSE remote[s]]
  /\ discard' = [discard EXCEPT !.step = "canceled"]
  /\ UNCHANGED <<row, at>>

\* The service does not answer: nothing is changed here.
DiscardFails ==
  /\ discard.step = "read"
  /\ discard' = [step |-> "idle", row |-> None]
  /\ UNCHANGED <<row, remote, at>>

\* The row read is canceled, whatever became of it; a deleted one is an error.
DiscardSave ==
  /\ discard.step = "canceled"
  /\ discard' = [step |-> "idle", row |-> None]
  /\ IF discard.row = None \/ row[discard.row] = NoRow THEN UNCHANGED row
     ELSE Set(discard.row, "canceled")
  /\ UNCHANGED <<remote, at>>

-----------------------------------------------------------------------------
(* Payment, activation, recovery *)

\* The customer pays, on Stripe's page.
Pay(s) ==
  /\ remote[s] = "open"
  /\ remote' = [remote EXCEPT ![s] = "paid"]
  /\ UNCHANGED <<row, at, discard>>

\* The session runs out at Stripe.
Lapse(s) ==
  /\ remote[s] = "open"
  /\ remote' = [remote EXCEPT ![s] = "canceled"]
  /\ UNCHANGED <<row, at, discard>>

\* activate finds the attempt by its session, in any status.
Activate(s) ==
  /\ remote[s] = "paid"
  /\ remote' = [remote EXCEPT ![s] = "active"]
  /\ \E r \in Linked(s) : Set(r, "activated")
  /\ UNCHANGED <<at, discard>>

\* Mutant: an attempt in progress is not swept away, and the index refuses
\* the fabricated one.
Recover_NoSweep(s) ==
  /\ remote[s] = "paid"
  /\ IF Linked(s) # {}
     THEN \E r \in Linked(s) : Current \subseteq {r} /\ Set(r, "open")
     ELSE /\ Current = {}
          /\ row' = [row EXCEPT ![<<s, "recover">>] = [status |-> "open", linked |-> TRUE]]
  /\ UNCHANGED <<remote, at, discard>>

\* recover of the paid session the service reports: its attempt is opened
\* again, which the index may refuse; without one, the attempts in progress
\* are expired and one is fabricated.
Recover(s) ==
  /\ remote[s] = "paid"
  /\ IF Linked(s) # {}
     THEN \E r \in Linked(s) : Current \subseteq {r} /\ Set(r, "open")
     ELSE row' = [r \in Rows |->
                   IF r = <<s, "recover">> THEN [status |-> "open", linked |-> TRUE]
                   ELSE IF row[r].status \in InProgress THEN [row[r] EXCEPT !.status = "expired"]
                   ELSE row[r]]
  /\ UNCHANGED <<remote, at, discard>>

Next ==
  \/ \E s \in Sessions :
       \/ Reserve(s) \/ Opened(s) \/ Refused(s) \/ NoAnswer(s) \/ Save(s) \/ Kill(s)
       \/ Pay(s) \/ Lapse(s) \/ Activate(s) \/ Recover(s)
  \/ DiscardRead \/ DiscardCancel \/ DiscardFails \/ DiscardSave

\* A customer who paid comes back, through the return page or the recovery
\* the application offers, until it works.
ComeBack == \E s \in Sessions : Activate(s)
AskForIt == \E s \in Sessions : Recover(s)
Fairness == SF_vars(ComeBack) /\ SF_vars(AskForIt)

Spec == Init /\ [][Next]_vars /\ Fairness

-----------------------------------------------------------------------------
\* views.py, recover: a payment is not lost.  Whatever answers were lost,
\* whoever was killed, and whatever was discarded meanwhile, a paid session
\* ends as the organization's subscription for a customer who keeps trying.
PaidIsActivated == \A s \in Sessions : (remote[s] = "paid") ~> (remote[s] = "active")
=============================================================================
