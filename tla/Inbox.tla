-------------------------------- MODULE Inbox --------------------------------
(***************************************************************************)
(* The inbox of one account (apps/inbox).  A cycle of the worker polls the  *)
(* platform for the messages since the newest one stored, and then tells    *)
(* the members of messages that wait too long.  Webhooks and the backfill   *)
(* command store messages too.  Replies go to the platform before they are  *)
(* recorded.  Messages are numbered as the platform dates them.             *)
(***************************************************************************)
EXTENDS Naturals, FiniteSets

CONSTANTS
  MaxMessages,   \* bound: messages the platform gets
  MaxReplies,    \* bound: replies of the members
  MaxKills       \* bound: cycles killed, or ended by an exception

Messages == 1..MaxMessages

VARIABLES
  posted,    \* messages the platform has
  filters,   \* the provider heeds `since`; some return the recent messages anyway
  row,       \* the InboxMessage of each message; at: received_at; waits: its
             \* status is unread or open, and not resolved or archived
  overdue,   \* messages older than the workspace's target
  cycle,     \* the worker: its step, the messages left to it, the one at hand
  reply,     \* send_reply: its step, its message, and the wait it read
  kills,
  notified,  \* history: notices of a new message
  silent,    \* history: messages stored with no notice, as the code means to, or cut short
  passed,    \* history: messages older than one stored by a webhook, a backfill or a cut cycle
  told,      \* history: notices of lateness since the message was last fetched
  delivered, \* history: replies the platform confirmed
  recorded   \* InboxReply rows

vars == <<posted, filters, row, overdue, cycle, reply, kills,
          notified, silent, passed, told, delivered, recorded>>
replies == <<reply, delivered, recorded>>
tells == <<notified, silent, passed, told>>

Rows == [known: BOOLEAN, at: 0..MaxMessages, waits: BOOLEAN, late: BOOLEAN]
Steps == {"idle", "sync", "created", "scan", "late", "told"}

TypeOK ==
  /\ posted \in 0..MaxMessages /\ filters \in BOOLEAN
  /\ row \in [Messages -> Rows]
  /\ overdue \subseteq Messages
  /\ cycle \in [step: Steps, left: SUBSET Messages, msg: 0..MaxMessages, mute: BOOLEAN]
  /\ reply \in [step: {"none", "asked", "sent"}, msg: 0..MaxMessages, seen: BOOLEAN]
  /\ kills \in 0..MaxKills
  /\ notified \in [Messages -> 0..2] /\ told \in [Messages -> Nat]
  /\ silent \subseteq Messages /\ passed \subseteq Messages
  /\ delivered \in 0..MaxReplies /\ recorded \in 0..MaxReplies

NoCycle == [step |-> "idle", left |-> {}, msg |-> 0, mute |-> FALSE]
NoReply == [step |-> "none", msg |-> 0, seen |-> TRUE]

Init ==
  /\ posted = 0 /\ filters \in BOOLEAN
  /\ row = [m \in Messages |-> [known |-> FALSE, at |-> 0, waits |-> TRUE, late |-> FALSE]]
  /\ overdue = {}
  /\ cycle = NoCycle /\ reply = NoReply
  /\ kills = 0
  /\ notified = [m \in Messages |-> 0] /\ told = [m \in Messages |-> 0]
  /\ silent = {} /\ passed = {}
  /\ delivered = 0 /\ recorded = 0

Known == {m \in Messages : row[m].known}
Posted == 1..posted

\* The newest received_at: 0 when nothing is stored.
Since == CHOOSE t \in {0} \cup {row[m].at : m \in Known} :
           \A m \in Known : row[m].at <= t

\* What a provider that heeds `since` no longer returns once t is stored.
Behind(t) == IF filters THEN {m \in Posted \ Known : m < t} ELSE {}

Notice(m) == notified' = [notified EXCEPT ![m] = IF @ < 2 THEN @ + 1 ELSE @]

-----------------------------------------------------------------------------
(* The platform and the passing of time *)

Post ==
  /\ posted < MaxMessages
  /\ posted' = posted + 1
  /\ UNCHANGED <<filters, row, overdue, cycle, kills, tells, replies>>

FallOverdue(m) ==
  /\ m \in Known \ overdue
  /\ overdue' = overdue \cup {m}
  /\ UNCHANGED <<posted, filters, row, cycle, kills, tells, replies>>

-----------------------------------------------------------------------------
(* The cycle of the worker *)

\* sync_all: `since` is read and the messages are fetched; the first sync of
\* an account is silent about its backlog.
Fetch ==
  /\ cycle.step = "idle"
  /\ cycle' = [step |-> "sync", msg |-> 0, mute |-> Known = {},
               left |-> IF filters THEN {m \in Posted : m >= Since} ELSE Posted]
  /\ UNCHANGED <<posted, filters, row, overdue, kills, tells, replies>>

\* _upsert_message: an existing row is overwritten, its mark of lateness with
\* it; a new one is notified, except in a first sync when it is not recent.
Upsert(m) ==
  /\ cycle.step = "sync" /\ m \in cycle.left
  /\ row' = [row EXCEPT ![m].known = TRUE, ![m].at = m, ![m].late = FALSE]
  /\ told' = [told EXCEPT ![m] = 0]
  /\ \/ /\ row[m].known
        /\ cycle' = [cycle EXCEPT !.left = @ \ {m}] /\ UNCHANGED silent
     \/ /\ ~row[m].known
        /\ cycle' = [cycle EXCEPT !.left = @ \ {m}, !.step = "created", !.msg = m]
        /\ UNCHANGED silent
     \/ /\ ~row[m].known /\ cycle.mute
        /\ cycle' = [cycle EXCEPT !.left = @ \ {m}] /\ silent' = silent \cup {m}
  /\ UNCHANGED <<posted, filters, overdue, kills, notified, passed, replies>>

NotifyNew ==
  /\ cycle.step = "created"
  /\ Notice(cycle.msg)
  /\ cycle' = [cycle EXCEPT !.step = "sync", !.msg = 0]
  /\ UNCHANGED <<posted, filters, row, overdue, kills, silent, passed, told, replies>>

\* check_sla: the late messages that wait and bear no mark are read ...
Scan ==
  /\ cycle.step = "sync" /\ cycle.left = {}
  /\ cycle' = [NoCycle EXCEPT !.step = "late", !.left =
                 {m \in Known \cap overdue : row[m].waits /\ ~row[m].late}]
  /\ UNCHANGED <<posted, filters, row, overdue, kills, tells, replies>>

\* ... each is told ...
Tell(m) ==
  /\ cycle.step = "late" /\ m \in cycle.left
  /\ told' = [told EXCEPT ![m] = @ + 1]
  /\ cycle' = [cycle EXCEPT !.left = @ \ {m}, !.step = "told", !.msg = m]
  /\ UNCHANGED <<posted, filters, row, overdue, kills, notified, silent, passed, replies>>

\* ... and then marked.
Mark ==
  /\ cycle.step = "told"
  /\ row' = [row EXCEPT ![cycle.msg].late = TRUE]
  /\ cycle' = [cycle EXCEPT !.step = "late", !.msg = 0]
  /\ UNCHANGED <<posted, filters, overdue, kills, tells, replies>>

EndCycle ==
  /\ cycle.step = "late" /\ cycle.left = {}
  /\ cycle' = NoCycle
  /\ UNCHANGED <<posted, filters, row, overdue, kills, tells, replies>>

\* The worker is killed or an exception ends the sync of the account: what is
\* left is fetched again if the newest message stored is not newer.
Kill ==
  /\ cycle.step # "idle" /\ kills < MaxKills
  /\ kills' = kills + 1
  /\ cycle' = NoCycle
  /\ silent' = IF cycle.step = "created" THEN silent \cup {cycle.msg} ELSE silent
  /\ passed' = passed \cup Behind(Since)
  /\ UNCHANGED <<posted, filters, row, overdue, notified, told, replies>>

-----------------------------------------------------------------------------
(* Webhooks and the backfill *)

\* Mutant: a webhook that is delivered again notifies again.
CreateIfNew_Again(m) ==
  /\ m \in Posted
  /\ Notice(m)
  /\ row' = [row EXCEPT ![m].known = TRUE, ![m].at = posted]
  /\ passed' = passed \cup (Behind(posted) \ {m})
  /\ UNCHANGED <<posted, filters, overdue, cycle, kills, silent, told, replies>>

\* _create_if_new: the platform delivers an event, perhaps again; a message
\* not yet stored is dated now and notified, unless the request is cut short.
CreateIfNew(m) ==
  /\ m \in Posted \ Known
  /\ row' = [row EXCEPT ![m].known = TRUE, ![m].at = posted]
  /\ passed' = passed \cup (Behind(posted) \ {m})
  /\ \/ Notice(m) /\ UNCHANGED silent
     \/ silent' = silent \cup {m} /\ UNCHANGED notified
  /\ UNCHANGED <<posted, filters, overdue, cycle, kills, told, replies>>

\* backfill_inbox upserts the messages of the last days and notifies nobody.
Backfill(m) ==
  /\ m \in Posted
  /\ row' = [row EXCEPT ![m].known = TRUE, ![m].at = m, ![m].late = FALSE]
  /\ told' = [told EXCEPT ![m] = 0]
  /\ silent' = IF row[m].known THEN silent ELSE silent \cup {m}
  /\ passed' = IF row[m].known THEN passed ELSE passed \cup Behind(m)
  /\ <<row', told', silent', passed'>> # <<row, told, silent, passed>>
  /\ UNCHANGED <<posted, filters, overdue, cycle, kills, notified, replies>>

-----------------------------------------------------------------------------
(* The members *)

\* change_status sets any status, and bulk_action some.
SetStatus(m) ==
  /\ m \in Known
  /\ row' = [row EXCEPT ![m].waits = ~@]
  /\ UNCHANGED <<posted, filters, overdue, cycle, kills, tells, replies>>

Reply(m) ==
  /\ reply.step = "none" /\ m \in Known /\ delivered < MaxReplies
  /\ reply' = [step |-> "asked", msg |-> m, seen |-> row[m].waits]
  /\ UNCHANGED <<posted, filters, row, overdue, cycle, kills, tells, delivered, recorded>>

\* send_platform_reply: the platform confirms with an id, refuses, or its
\* answer is lost after it took the reply.
PlatformReply ==
  /\ reply.step = "asked"
  /\ \/ reply' = [reply EXCEPT !.step = "sent"] /\ delivered' = delivered + 1
     \/ reply' = NoReply /\ UNCHANGED delivered
     \/ reply' = NoReply /\ delivered' = delivered + 1
  /\ UNCHANGED <<posted, filters, row, overdue, cycle, kills, tells, recorded>>

\* The reply is recorded, and the message resolved when the workspace says
\* so; otherwise one that was unread when it was read is opened.
RecordReply ==
  /\ reply.step = "sent"
  /\ recorded' = recorded + 1
  /\ \/ row' = [row EXCEPT ![reply.msg].waits = FALSE]
     \/ reply.seen /\ row' = [row EXCEPT ![reply.msg].waits = TRUE]
     \/ UNCHANGED row
  /\ reply' = NoReply
  /\ UNCHANGED <<posted, filters, overdue, cycle, kills, tells, delivered>>

Next ==
  \/ Post \/ Fetch \/ NotifyNew \/ Scan \/ Mark \/ EndCycle \/ Kill
  \/ PlatformReply \/ RecordReply
  \/ \E m \in Messages :
       \/ FallOverdue(m) \/ Upsert(m) \/ Tell(m) \/ CreateIfNew(m) \/ Backfill(m)
       \/ SetStatus(m) \/ Reply(m)

\* The cycle runs every five minutes and each of its steps ends.
CycleStep ==
  \/ Fetch \/ NotifyNew \/ Scan \/ Mark \/ EndCycle
  \/ \E m \in Messages : Upsert(m) \/ Tell(m)
Fairness == WF_vars(CycleStep)

Spec == Init /\ [][Next]_vars /\ Fairness

-----------------------------------------------------------------------------
\* Polls, webhooks delivered again and backfills that meet on one message
\* notify the members of it once; they are told of its lateness once per time
\* it is fetched, and again only for a cycle cut between notice and mark.
ToldOnce ==
  \A m \in Messages : notified[m] <= 1 /\ told[m] <= 1 + kills

\* A reply is recorded only when the platform has it, whatever is lost.
RepliesAreReal == recorded <= delivered

\* Every message the platform gets is stored and notified, unless a newer one
\* was stored out of order by a webhook, a backfill or a cycle cut short, or
\* the notice was held back or cut.
Arrived(m) == m \in passed \/ (row[m].known /\ (notified[m] > 0 \/ m \in silent))
MessagesArrive == \A m \in Messages : (m <= posted) ~> Arrived(m)

\* A message that stays unanswered past its target is told to the members.
Late(m) == m \in Known \cap overdue /\ row[m].waits
Told(m) == told[m] > 0 \/ row[m].late
LatenessIsTold == \A m \in Messages : <>[]Late(m) => []<>Told(m)
=============================================================================
