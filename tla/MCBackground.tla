---------------------------- MODULE MCBackground ----------------------------
(***************************************************************************)
(* What the background worker must finish, for TLC: activations and what    *)
(* precedes them, approval reminders, deliveries, the processing of media,  *)
(* the inbox cycle and the deletion of an organization.  The parts share no *)
(* variable here, so each behaviour is one of one part.                     *)
(***************************************************************************)
EXTENDS Integers, FiniteSets

CONSTANTS
  Users, Editors, Members,
  MaxAttempts, MaxTasks, MaxKills, MaxReminders, MaxRounds, MaxDeliveries, BatchLimit,
  MaxVersions, MaxMessages, MaxReplies, MaxRequests

ASSUME BoundAssumption ==
  /\ MaxAttempts \in Nat \ {0} /\ MaxTasks \in Nat /\ MaxKills \in Nat
  /\ MaxReminders \in Nat /\ MaxRounds \in Nat /\ MaxDeliveries \in Nat
  /\ BatchLimit \in Nat \ {0} /\ MaxVersions \in Nat /\ MaxMessages \in Nat
  /\ MaxReplies \in Nat /\ MaxRequests \in Nat

\* The worker is not one of the users.
ASSUME WorkerAssumption == "worker" \notin Users

VARIABLES
  part,
  admin, attempt, pending, tasks, at, held, sub, account, seen, kills, apart,
  paying, remote, asked, discard,
  waiting, age, reminder, doing, reminded, escalated, rounds, cuts, alone, mute,
  delivery, batch, trying, sent, cut,
  status, shared, uploading, file, thumb, version, queue, running, base, numbered, gone, stops,
  posted, filters, row, overdue, cycle, reply, breaks, notified, silent, passed, told,
  delivered, recorded,
  scheduled, latest, ripe, jobs, web, worker, erased, homeless, crossed, hurt

Activating == INSTANCE Activation
Paying == INSTANCE Checkout WITH Sessions <- {"s1", "s2"}, row <- paying, at <- asked
Reminding == INSTANCE ApprovalReminders WITH told <- escalated, kills <- cuts, apart <- alone
Delivering == INSTANCE NotificationDelivery WITH Deliveries <- 1..MaxDeliveries, MaxAttempts <- 3
Processing == INSTANCE MediaVersions WITH kills <- stops
Polling == INSTANCE Inbox WITH kills <- breaks
Deleting == INSTANCE OrgDeletion WITH tasks <- jobs, gone <- erased, cut <- hurt

activation == <<admin, attempt, pending, tasks, at, held, sub, account, seen, kills, apart>>
checkout == <<paying, remote, asked, discard>>
reminders == <<waiting, age, reminder, doing, reminded, escalated, rounds, cuts, alone, mute>>
deliveries == <<delivery, batch, trying, sent, cut>>
versions == <<status, shared, uploading, file, thumb, version, queue, running, base, numbered, gone, stops>>
inbox == <<posted, filters, row, overdue, cycle, reply, breaks, notified, silent, passed,
           told, delivered, recorded>>
deletion == <<scheduled, latest, ripe, jobs, web, worker, erased, homeless, crossed, hurt>>
vars == <<part, activation, checkout, reminders, deliveries, versions, inbox, deletion>>

\* A part that is not at work starts in one of its initial states.
Init ==
  /\ part \in {"activation", "checkout", "reminders", "deliveries", "versions", "inbox",
               "deletion"}
  /\ age \in IF part = "reminders" THEN {0, Reminding!Old} ELSE {0}
  /\ filters \in IF part = "inbox" THEN BOOLEAN ELSE {TRUE}
  /\ Activating!Init /\ Paying!Init /\ Reminding!Init /\ Delivering!Init /\ Processing!Init
  /\ Polling!Init /\ Deleting!Init

\* Only the part p is at work.
Only(p) ==
  /\ part = p /\ UNCHANGED part
  /\ IF p = "activation" THEN TRUE ELSE UNCHANGED activation
  /\ IF p = "checkout" THEN TRUE ELSE UNCHANGED checkout
  /\ IF p = "reminders" THEN TRUE ELSE UNCHANGED reminders
  /\ IF p = "deliveries" THEN TRUE ELSE UNCHANGED deliveries
  /\ IF p = "versions" THEN TRUE ELSE UNCHANGED versions
  /\ IF p = "inbox" THEN TRUE ELSE UNCHANGED inbox
  /\ IF p = "deletion" THEN TRUE ELSE UNCHANGED deletion

Next ==
  \/ Only("activation") /\ Activating!Next
  \/ Only("checkout") /\ Paying!Next
  \/ Only("reminders") /\ Reminding!Next
  \/ Only("deliveries") /\ Delivering!Next
  \/ Only("versions") /\ Processing!Next
  \/ Only("inbox") /\ Polling!Next
  \/ Only("deletion") /\ Deleting!Next

\* The fairness of the seven modules.  A behaviour is one of one part, so a
\* condition of each part can be joined into one without weakening any.
Step ==
  \/ Only("activation") /\ Activating!WorkerStep
  \/ Only("reminders") /\ Reminding!CheckStep
  \/ Only("deliveries") /\ Delivering!AttemptStep
  \/ Only("versions") /\ Processing!WorkerStep
  \/ Only("inbox") /\ Polling!CycleStep
  \/ Only("deletion") /\ Deleting!WebStep
Time ==
  \/ Only("reminders") /\ Reminding!Day
  \/ Only("deliveries") /\ Delivering!TimePasses
  \/ Only("deletion") /\ Deleting!GraceEnds
First ==
  \/ Only("activation") /\ Activating!Claim
  \/ Only("checkout") /\ Paying!ComeBack
  \/ Only("reminders") /\ Reminding!Check("pending_review")
  \/ Only("deletion") /\ Deleting!RunStep
Second ==
  \/ Only("activation") /\ Activating!Load
  \/ Only("checkout") /\ Paying!AskForIt
  \/ Only("reminders") /\ Reminding!Check("pending_client")
  \/ Only("deletion") /\ Deleting!WorkerStep
Third == Only("activation") /\ Activating!Ask
Turn(i) ==
  \/ i = 1 /\ First
  \/ i = 2 /\ Second
  \/ i = 3 /\ Third
  \/ i <= MaxDeliveries /\ Only("deliveries") /\ Delivering!Takes(i)
Turns == 1..IF MaxDeliveries > 3 THEN MaxDeliveries ELSE 3

Fairness == WF_vars(Step) /\ WF_vars(Time) /\ \A i \in Turns : SF_vars(Turn(i))

Spec == Init /\ [][Next]_vars /\ Fairness

\* The type invariants of the seven parts.
TypeOK ==
  /\ Activating!TypeOK /\ Paying!TypeOK /\ Reminding!TypeOK /\ Delivering!TypeOK
  /\ Processing!TypeOK /\ Polling!TypeOK /\ Deleting!TypeOK

\* See Activation: an active subscription has a key the service accepts.
ActiveKeyWorks == Activating!ActiveKeyWorks

\* See ApprovalReminders, NotificationDelivery and Inbox: nobody is told more
\* often than the code means to.
TellsAreBounded ==
  Reminding!RemindersAreBounded /\ Delivering!SendsAreBounded /\ Polling!ToldOnce

\* See OrgDeletion: a cancelled deletion does not happen.
CancelledIsKept == Deleting!CancelledIsKept

\* What the background owes, in each part.  Numbered, as two sessions,
\* deliveries or messages may wait for different things.
Owed(i) ==
  \/ part = "activation" /\ Activating!Queued
  \/ part = "checkout" /\ remote[<<"s1", "s2">>[i]] = "paid"
  \/ part = "deliveries" /\ i <= MaxDeliveries /\ Delivering!Waits(i)
  \/ part = "versions" /\ Processing!Queued
  \/ part = "inbox" /\ i <= posted
Done(i) ==
  \/ part = "activation" /\ Activating!Settled
  \/ part = "checkout" /\ remote[<<"s1", "s2">>[i]] = "active"
  \/ part = "deliveries" /\ Delivering!Ends(i)
  \/ part = "versions" /\ Processing!Processed
  \/ part = "inbox" /\ Polling!Arrived(i)

\* See PendingSettles, PaidIsActivated, DeliveriesEnd, ProcessingEnds and
\* MessagesArrive of the modules: an activation left to the worker is settled,
\* a payment becomes a subscription, a delivery and the processing of an asset
\* end, and a message reaches the inbox, whatever fails or is killed on the
\* way.
WorkIsFinished == \A i \in 1..2 : Owed(i) ~> Done(i)

\* What lasts, and what should then be seen, in each part.
Lasts(i) ==
  \/ part = "activation" /\ Activating!Stays(<<"active", "past_due", "canceled">>[i])
  \/ part = "reminders" /\ i <= 2 /\ Reminding!Stalled(<<"pending_review", "pending_client">>[i])
  \/ part = "inbox" /\ i <= 2 /\ Polling!Late(i)
  \/ part = "deletion" /\ scheduled # 0
Seen(i) ==
  \/ part = "activation" /\ sub.status = <<"active", "past_due", "canceled">>[i]
  \/ part = "reminders" /\ i <= 2 /\ Reminding!Escalated(<<"pending_review", "pending_client">>[i])
  \/ part = "inbox" /\ i <= 2 /\ Polling!Told(i)
  \/ part = "deletion" /\ Deleting!Deleted

\* See DriftIsCaught, StalledIsEscalated, LatenessIsTold and RequestedIsDeleted
\* of the modules: the account's status reaches the subscription, a post that
\* stalls is brought to the managers, a late message is told, and a deletion
\* that stays requested happens.
WhatLastsIsSeen == \A i \in 1..3 : <>[]Lasts(i) => []<>Seen(i)

=============================================================================
