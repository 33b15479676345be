-------------------------- MODULE ApprovalReminders --------------------------
(***************************************************************************)
(* Reminders for one post that waits in a stage of its approval             *)
(* (apps/approvals/tasks.py).  A check, hourly, reads the stalled posts;    *)
(* for each stage it reads the ApprovalReminder, notifies, and then saves   *)
(* what it read with the new count.  A submission starts a new round and    *)
(* resets the row; an edit that takes an approval back and the status chip  *)
(* start one without a reset.  A post stalls by Post.updated_at, which an   *)
(* edit renews and a child's change of status does not.                     *)
(***************************************************************************)
EXTENDS Naturals

CONSTANTS
  MaxReminders,   \* MAX_REMINDERS
  MaxRounds,      \* bound: entries into a stage
  MaxKills        \* bound: the worker killed

Stages == {"pending_review", "pending_client"}
Threshold(s) == IF s = "pending_review" THEN 1 ELSE 2     \* days
Old == 2

NoReminder == [count |-> 0, since |-> Old, escalated |-> FALSE]

VARIABLES
  waiting,   \* stages some child of the post is in
  age,       \* days since Post.updated_at
  reminder,  \* the ApprovalReminder of each stage; since: days since the last
  doing,     \* the check: its step, its stage, and the row it read
  reminded,  \* history: reminders sent in this round
  told,      \* history: the managers were told in this round
  rounds, kills,
  apart,     \* history: no entry came while a check was at work on its stage
  mute       \* history: this round took over a row escalated in an earlier one

vars == <<waiting, age, reminder, doing, reminded, told, rounds, kills, apart, mute>>
history == <<reminded, told, mute>>

Rows == [count: 0..MaxReminders, since: 0..Old, escalated: BOOLEAN]
Steps == {"idle", "remind", "escalate", "reminded", "escalated"}
Idle == [step |-> "idle", stage |-> "pending_review", row |-> NoReminder]

TypeOK ==
  /\ waiting \subseteq Stages /\ age \in 0..Old
  /\ reminder \in [Stages -> Rows]
  /\ doing \in [step: Steps, stage: Stages, row: Rows]
  /\ reminded \in [Stages -> Nat] /\ told \in [Stages -> BOOLEAN]
  /\ rounds \in 0..MaxRounds /\ kills \in 0..MaxKills /\ apart \in BOOLEAN
  /\ mute \in [Stages -> BOOLEAN]

Init ==
  /\ waiting = {} /\ age \in {0, Old}
  /\ reminder = [s \in Stages |-> NoReminder]
  /\ doing = Idle
  /\ reminded = [s \in Stages |-> 0] /\ told = [s \in Stages |-> FALSE]
  /\ rounds = 0 /\ kills = 0 /\ apart = TRUE /\ mute = [s \in Stages |-> FALSE]

-----------------------------------------------------------------------------
(* The post *)

\* A child comes into the stage s: a new round.
Round(s) ==
  /\ rounds < MaxRounds
  /\ rounds' = rounds + 1
  /\ waiting' = waiting \cup {s}
  /\ reminded' = [reminded EXCEPT ![s] = 0] /\ told' = [told EXCEPT ![s] = FALSE]
  /\ apart' = (apart /\ (doing.step = "idle" \/ doing.stage # s))
  /\ UNCHANGED <<doing, kills>>

\* submit_for_review, resubmit, and an approval that goes on to the client
\* reset the stage's row.
Enter(s) ==
  /\ Round(s)
  /\ reminder' = [reminder EXCEPT ![s] = NoReminder] /\ mute' = [mute EXCEPT ![s] = FALSE]
  /\ UNCHANGED age

\* An edit that takes an approval back, and the chip, leave the row of the
\* earlier round.
EnterQuietly(s) ==
  /\ Round(s)
  /\ age' \in {0, age}
  /\ mute' = [mute EXCEPT ![s] = reminder[s].escalated]
  /\ UNCHANGED reminder

\* The last child leaves the stage; its row stays.
Leave(s) ==
  /\ s \in waiting
  /\ waiting' = waiting \ {s}
  /\ UNCHANGED <<age, reminder, doing, history, rounds, kills, apart>>

Edit ==
  /\ age' = 0 /\ age # 0
  /\ UNCHANGED <<waiting, reminder, doing, history, rounds, kills, apart>>

\* A day passes; no check lasts that long.
Day ==
  /\ doing.step = "idle"
  /\ age' = IF age < Old THEN age + 1 ELSE age
  /\ reminder' = [s \in Stages |-> [reminder[s] EXCEPT !.since = IF @ < Old THEN @ + 1 ELSE @]]
  /\ <<age', reminder'>> # <<age, reminder>>
  /\ UNCHANGED <<waiting, doing, history, rounds, kills, apart>>

-----------------------------------------------------------------------------
(* _process_stage *)

\* The stalled post is read, and its row: the reminders are used up, or the
\* last one is long enough ago.
Check(s) ==
  /\ doing.step = "idle"
  /\ s \in waiting /\ age >= Threshold(s)
  /\ LET row == reminder[s] IN
       \/ /\ row.count >= MaxReminders /\ ~row.escalated
          /\ doing' = [step |-> "escalate", stage |-> s, row |-> row]
       \/ /\ row.count < MaxReminders /\ row.since >= Threshold(s)
          /\ doing' = [step |-> "remind", stage |-> s, row |-> row]
  /\ UNCHANGED <<waiting, age, reminder, history, rounds, kills, apart>>

\* The reviewers or the clients, or the managers, are notified ...
Notify ==
  /\ LET s == doing.stage IN
       \/ /\ doing.step = "remind"
          /\ doing' = [doing EXCEPT !.step = "reminded"]
          /\ reminded' = [reminded EXCEPT ![s] = @ + 1] /\ UNCHANGED told
       \/ /\ doing.step = "escalate"
          /\ doing' = [doing EXCEPT !.step = "escalated"]
          /\ told' = [told EXCEPT ![s] = TRUE] /\ UNCHANGED reminded
  /\ UNCHANGED <<waiting, age, reminder, rounds, kills, apart, mute>>

\* ... and the count read, plus one, or the escalation is saved.
Save ==
  /\ LET s == doing.stage IN
       \/ /\ doing.step = "reminded"
          /\ reminder' = [reminder EXCEPT ![s].count = doing.row.count + 1, ![s].since = 0]
       \/ /\ doing.step = "escalated"
          /\ reminder' = [reminder EXCEPT ![s].escalated = TRUE]
  /\ doing' = Idle
  /\ UNCHANGED <<waiting, age, history, rounds, kills, apart>>

\* The worker is killed, or a notification raises.
Kill ==
  /\ doing.step # "idle" /\ kills < MaxKills
  /\ kills' = kills + 1
  /\ doing' = Idle
  /\ UNCHANGED <<waiting, age, reminder, history, rounds, apart>>

Next ==
  \/ \E s \in Stages : Enter(s) \/ EnterQuietly(s) \/ Leave(s) \/ Check(s)
  \/ Edit \/ Day \/ Notify \/ Save \/ Kill

\* Time passes, and the check runs every hour over every stalled post.
CheckStep == Notify \/ Save
Fairness == WF_vars(Day) /\ WF_vars(CheckStep) /\ \A s \in Stages : SF_vars(Check(s))

Spec == Init /\ [][Next]_vars /\ Fairness

-----------------------------------------------------------------------------
\* In one round a stage is reminded MAX_REMINDERS times at the most, and once
\* more for each check that was killed, unless an entry overlapped one.
RemindersAreBounded == apart => \A s \in Stages : reminded[s] <= MaxReminders + kills

\* A post that stays in a stage and is no longer edited is brought to the
\* managers, in every round whose row was not escalated before it: the row of
\* the submission is fresh, and no kill, no other stage of the post and no
\* reminder left over keeps them from hearing of it.  What does is a round
\* begun without a reset on a row an earlier round escalated (hazard of
\* tasks.py:62-75), which `mute` marks.
Stalled(s) == s \in waiting /\ age = Old
Escalated(s) == told[s] \/ ~apart \/ mute[s]
StalledIsEscalated == \A s \in Stages : <>[]Stalled(s) => []<>Escalated(s)
=============================================================================
