------------------------ MODULE NotificationDelivery ------------------------
(***************************************************************************)
(* The deliveries of notifications by email and webhook                     *)
(* (apps/notifications/engine.py).  notify creates a delivery and makes the *)
(* first attempt itself; a failure leaves it pending with a time for the    *)
(* next attempt, which a sweep of the background worker makes, until the    *)
(* attempts are used up.  An attempt is counted before it is made.          *)
(***************************************************************************)
EXTENDS Naturals, FiniteSets

CONSTANTS
  Deliveries,
  MaxAttempts,   \* MAX_RETRY_ATTEMPTS
  BatchLimit     \* RETRY_BATCH_LIMIT

VARIABLES
  delivery,  \* the rows; retry: next_retry_at, "none", "later" or "due"
  batch,     \* deliveries a sweep has read and not yet tried
  trying,    \* deliveries an attempt is being made for
  sent,      \* history: messages that reached the channel
  cut        \* history: deliveries an attempt for which was killed

vars == <<delivery, batch, trying, sent, cut>>

Ended == {"delivered", "failed"}
Row == [status: {"absent", "pending"} \cup Ended, attempts: 0..MaxAttempts,
        retry: {"none", "later", "due"}]

TypeOK ==
  /\ delivery \in [Deliveries -> Row]
  /\ batch \subseteq Deliveries /\ trying \subseteq Deliveries
  /\ sent \in [Deliveries -> 0..MaxAttempts + 1]
  /\ cut \subseteq Deliveries

Init ==
  /\ delivery = [d \in Deliveries |-> [status |-> "absent", attempts |-> 0, retry |-> "none"]]
  /\ batch = {} /\ trying = {}
  /\ sent = [d \in Deliveries |-> 0]
  /\ cut = {}

Pending(d) == delivery[d].status = "pending"
Attempts(d) == delivery[d].attempts
Reached(d) == sent' = [sent EXCEPT ![d] = IF @ > MaxAttempts THEN @ ELSE @ + 1]

-----------------------------------------------------------------------------
\* notify creates the row of a channel the user enabled, and _dispatch counts
\* the first attempt.
Notify(d) ==
  /\ delivery[d].status = "absent"
  /\ delivery' = [delivery EXCEPT ![d].status = "pending", ![d].attempts = 1]
  /\ trying' = trying \cup {d}
  /\ UNCHANGED <<batch, sent, cut>>

\* next_retry_at comes.
FallDue(d) ==
  /\ delivery[d].retry = "later"
  /\ delivery' = [delivery EXCEPT ![d].retry = "due"]
  /\ UNCHANGED <<batch, trying, sent, cut>>

\* Mutant: the attempts made do not matter.
Due_NoLimit == {d \in Deliveries : Pending(d) /\ delivery[d].retry = "due"}

Due == {d \in Deliveries : Pending(d) /\ delivery[d].retry = "due" /\ Attempts(d) < MaxAttempts}

\* retry_failed_deliveries reads the due deliveries, those due longest first,
\* up to the limit.
Sweep(D) ==
  /\ batch = {}
  /\ D \subseteq Due /\ D # {} /\ Cardinality(D) <= BatchLimit
  /\ D # Due => Cardinality(D) = BatchLimit
  /\ batch' = D
  /\ UNCHANGED <<delivery, trying, sent, cut>>

\* _dispatch of the next delivery of the batch.
Retry(d) ==
  /\ d \in batch /\ trying \cap batch = {}
  /\ delivery' = [delivery EXCEPT ![d].attempts = @ + 1]
  /\ trying' = trying \cup {d}
  /\ UNCHANGED <<batch, sent, cut>>

Result(d, row) ==
  /\ d \in trying
  /\ trying' = trying \ {d} /\ batch' = batch \ {d}
  /\ delivery' = [delivery EXCEPT ![d] = row]
  /\ UNCHANGED cut

Delivered(d) ==
  /\ Result(d, [delivery[d] EXCEPT !.status = "delivered"])
  /\ Reached(d)

\* The channel raises, whether or not the message arrived.
Failed(d) ==
  /\ Result(d, IF Attempts(d) >= MaxAttempts
               THEN [delivery[d] EXCEPT !.status = "failed"]
               ELSE [delivery[d] EXCEPT !.status = "pending", !.retry = "later"])
  /\ (UNCHANGED sent \/ Reached(d))

\* The process that makes the attempt is killed, and the rest of its batch is
\* left for a later sweep.
Kill(d) ==
  /\ d \in trying
  /\ trying' = trying \ {d}
  /\ batch' = IF d \in batch THEN {} ELSE batch
  /\ cut' = cut \cup {d}
  /\ (UNCHANGED sent \/ Reached(d))
  /\ UNCHANGED delivery

Next ==
  \/ \E d \in Deliveries :
       Notify(d) \/ FallDue(d) \/ Retry(d) \/ Delivered(d) \/ Failed(d) \/ Kill(d)
  \/ \E D \in SUBSET Deliveries : Sweep(D)

\* The sweep runs every minute and takes the deliveries due longest first, so
\* none is passed over for ever; an attempt ends.
TimePasses == \E d \in Deliveries : FallDue(d)
AttemptStep == \E d \in Deliveries : Retry(d) \/ Delivered(d) \/ Failed(d)
Takes(d) == \E D \in SUBSET Deliveries : d \in D /\ Sweep(D)
Fairness ==
  WF_vars(TimePasses) /\ WF_vars(AttemptStep) /\ \A d \in Deliveries : SF_vars(Takes(d))

Spec == Init /\ [][Next]_vars /\ Fairness

-----------------------------------------------------------------------------
\* A user gets a message at most as often as it may be attempted, although an
\* attempt that failed may have delivered it and processes are killed.
SendsAreBounded == \A d \in Deliveries : sent[d] <= MaxAttempts

\* A delivery that waits for a retry ends as delivered or failed, unless the
\* process is killed in its last attempt: nothing takes it up after that.
Waits(d) == Pending(d) /\ delivery[d].retry # "none"
Ends(d) == delivery[d].status \in Ended \/ (d \in cut /\ Attempts(d) = MaxAttempts)
DeliveriesEnd == \A d \in Deliveries : Waits(d) ~> Ends(d)
=============================================================================
