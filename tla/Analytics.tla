----------------------------- MODULE Analytics -----------------------------
(***************************************************************************)
(* The analytics of one account (apps/analytics/tasks.py).  An hourly task  *)
(* fetches the account's figures of today and of recent days that have no   *)
(* row, and those of posts whose turn has come; a connect or reconnect      *)
(* queues a backfill on the same worker.  The worker works on the account   *)
(* it read at the start; days pass and the account changes meanwhile.       *)
(***************************************************************************)
EXTENDS Integers

CONSTANTS
  RecentDays,     \* _ACCOUNT_METRICS_RECENT_DAYS
  Interval,       \* hours between two syncs of the post, as post_sync_interval says
  MaxDays         \* bound: days

HoursPerDay == 2
Days == 1..MaxDays

\* What tells providers apart: figures of past days (TikTok has none), a total
\* of followers in the catalog, and YouTube's batch of figures per video.
Providers == { [recent |-> RecentDays, totals |-> FALSE, batch |-> TRUE],
               [recent |-> RecentDays, totals |-> TRUE,  batch |-> FALSE],
               [recent |-> 1,          totals |-> TRUE,  batch |-> FALSE] }

VARIABLES
  provider,
  hour,
  ran,        \* the hourly task ran in this hour
  row,        \* AccountInsightsSnapshot rows of each day: none, the total alone, or figures
  total,      \* the day the total in a day's row was read on; 0: no total
  captured,   \* hours since the post's last snapshot: by its own sync, by YouTube's batch
  flag,       \* SocialAccount.analytics_needs_reconnect
  backfill,   \* a backfill is queued
  job,        \* the task at work: its day, how far it is, and the flag it read
  excused,    \* history: the days whose sync could not get a day's figures
  missed      \* history: the last sync of the post brought nothing

vars == <<provider, hour, ran, row, total, captured, flag, backfill, job, excused, missed>>
account == <<flag, backfill>>
figures == <<row, total, excused>>
post == <<captured, missed>>

Hours == 0..MaxDays * HoursPerDay - 1
Today == hour \div HoursPerDay + 1

Tasks == {"hourly", "backfill"}
Steps == {"idle", "account", "batch", "posts"}
Idle == [step |-> "idle", task |-> "hourly", on |-> 1, offset |-> 0,
         flag |-> FALSE, total |-> 0, slow |-> FALSE]

TypeOK ==
  /\ provider \in Providers /\ hour \in Hours /\ ran \in BOOLEAN
  /\ row \in [Days -> {"none", "total", "figures"}]
  /\ total \in [Days -> 0..MaxDays]
  /\ captured \in [own: 0..Interval + 2, batch: 0..Interval + 2]
  /\ flag \in BOOLEAN /\ backfill \in BOOLEAN
  /\ job \in [step: Steps, task: Tasks, on: Days, offset: 0..RecentDays,
              flag: BOOLEAN, total: 0..MaxDays, slow: BOOLEAN]
  /\ excused \in [Days -> SUBSET Days] /\ missed \in BOOLEAN

\* An account just connected, with a post published before.
Init ==
  /\ provider \in Providers /\ hour = 0 /\ ran = FALSE
  /\ row = [d \in Days |-> "none"] /\ total = [d \in Days |-> 0]
  /\ captured = [own |-> Interval, batch |-> Interval]
  /\ flag = FALSE /\ backfill = TRUE
  /\ job = Idle
  /\ excused = [d \in Days |-> {}] /\ missed = FALSE

\* The days the task at work has not come to yet.
Ahead == {d \in Days : d <= job.on - job.offset}

\* On day `on` the figures of the days D could not be got, as long as they
\* can be and are missing from the rows.
Excuse(rows, D, on) ==
  excused' = [d \in Days |->
    IF rows[d] # "none" THEN {}
    ELSE IF d \in D /\ on - d \in 0..provider.recent - 1 THEN excused[d] \cup {on}
    ELSE excused[d]]

-----------------------------------------------------------------------------
(* Time and the account *)

Later(h) == IF h < Interval + 2 THEN h + 1 ELSE h

\* The worker runs the task once an hour; a task at work may see one hour end.
Hour ==
  /\ hour + 1 \in Hours
  /\ \/ job.step = "idle" /\ ran /\ ~backfill /\ UNCHANGED job
     \/ job.step # "idle" /\ ~job.slow /\ job' = [job EXCEPT !.slow = TRUE]
  /\ hour' = hour + 1 /\ ran' = FALSE
  /\ captured' = [own |-> Later(captured.own), batch |-> Later(captured.batch)]
  /\ UNCHANGED <<provider, account, figures, missed>>

\* _create_or_update_account clears the flag, and the signal of its save
\* queues a backfill.
Reconnect ==
  /\ flag' = FALSE /\ backfill' = TRUE
  /\ UNCHANGED <<provider, hour, ran, figures, post, job>>

-----------------------------------------------------------------------------
(* The task *)

Read(task, step) ==
  job' = [Idle EXCEPT !.step = step, !.task = task, !.on = Today, !.flag = flag]

\* _needs_empty_follower_count_refresh: Facebook and Instagram accounts, while
\* the account's follower_count, which is not kept here, is zero.
MayBeEmpty == provider.totals /\ provider.recent = RecentDays

\* sync_all_account_analytics reads the account: its figures are due when
\* today has no row, or its number of followers is empty, unless it is flagged.
Begin ==
  /\ job.step = "idle" /\ ~ran
  /\ ran' = TRUE
  /\ \/ ~flag /\ row[Today] = "none" /\ Read("hourly", "account") /\ UNCHANGED excused
     \/ ~flag /\ row[Today] # "none" /\ Read("hourly", "posts") /\ UNCHANGED excused
     \/ ~flag /\ MayBeEmpty /\ Read("hourly", "account") /\ UNCHANGED excused
     \/ /\ flag /\ Read("hourly", "posts")
        /\ Excuse(row, Days, Today)
  /\ UNCHANGED <<provider, hour, row, total, post, account>>

BeginBackfill ==
  /\ job.step = "idle" /\ backfill
  /\ backfill' = FALSE
  /\ Read("backfill", "account")
  /\ UNCHANGED <<provider, hour, ran, figures, post, flag>>

Target == job.on - job.offset
InWindow == job.step = "account" /\ job.offset < provider.recent /\ Target >= 1

\* A day is to be fetched if it has no row; the day the sync began on, for its
\* number of followers too.
Wanted == row[Target] = "none" \/ (job.offset = 0 /\ MayBeEmpty)

\* A day that has a row is passed over ...
Skip ==
  /\ InWindow /\ row[Target] # "none"
  /\ job' = [job EXCEPT !.offset = @ + 1]
  /\ UNCHANGED <<provider, hour, ran, figures, post, account>>

\* Mutant: the total read is written to every day that is fetched.
Fetch_TotalEveryDay ==
  /\ InWindow /\ Wanted
  /\ LET d == Target IN
       \E some \in BOOLEAN, t \in {0, IF provider.totals THEN Today ELSE 0} :
         /\ row' = [row EXCEPT ![d] = IF some THEN "figures" ELSE IF t # 0 THEN "total" ELSE @]
         /\ total' = [total EXCEPT ![d] = IF t # 0 THEN t ELSE @]
         /\ Excuse(row', IF some THEN {} ELSE {d}, job.on)
         /\ job' = [job EXCEPT !.offset = @ + 1, !.total = IF t # 0 THEN t ELSE @]
  /\ UNCHANGED <<provider, hour, ran, post, account>>

\* ... and another is fetched: its figures are written, if the platform has
\* any yet, and the total is kept for the end.
Fetch ==
  /\ InWindow /\ Wanted
  /\ LET d == Target IN
       \E some \in BOOLEAN, t \in {0, IF provider.totals THEN Today ELSE 0} :
         /\ row' = [row EXCEPT ![d] = IF some THEN "figures" ELSE @]
         /\ Excuse(row', IF some THEN {} ELSE {d}, job.on)
         /\ job' = [job EXCEPT !.offset = @ + 1, !.total = IF t # 0 THEN t ELSE @]
  /\ UNCHANGED <<provider, hour, ran, total, post, account>>

\* The fetch raises: the account's sync ends, and the account is flagged when
\* the message speaks of a missing right.
FetchFails ==
  /\ InWindow /\ Wanted
  /\ Excuse(row, Ahead, job.on)
  /\ \/ flag' = TRUE /\ job' = [job EXCEPT !.step = "posts", !.flag = TRUE]
     \/ UNCHANGED flag /\ job' = [job EXCEPT !.step = "posts"]
  /\ UNCHANGED <<provider, hour, ran, row, total, post, backfill>>

\* The total goes into the row of the day the sync began on.
WriteTotal ==
  /\ job.step = "account" /\ ~InWindow
  /\ IF job.total # 0
     THEN /\ total' = [total EXCEPT ![job.on] = job.total]
          /\ row' = [row EXCEPT ![job.on] = IF @ = "none" THEN "total" ELSE @]
          /\ Excuse(row', {}, job.on)
     ELSE UNCHANGED figures
  /\ job' = [job EXCEPT !.step = IF provider.batch THEN "batch" ELSE "posts"]
  /\ UNCHANGED <<provider, hour, ran, post, account>>

\* _sync_youtube_post_analytics writes further figures of the post, or fails;
\* a missing right flags the account, if the copy read is not flagged.
Batch ==
  /\ job.step = "batch"
  /\ \/ captured' \in {captured, [captured EXCEPT !.batch = 0]} /\ UNCHANGED flag
        /\ job' = [job EXCEPT !.step = "posts"]
     \/ flag' = (flag \/ ~job.flag) /\ UNCHANGED captured
        /\ job' = [job EXCEPT !.step = "posts", !.flag = TRUE]
  /\ UNCHANGED <<provider, hour, ran, figures, missed, backfill>>

\* _post_cadence_due, which leaves out what the batch writes.
PostDue == captured.own >= Interval

\* The post is synced in its turn, and by every backfill; a missing
\* right flags the account, if the copy read is not flagged.
SyncPost ==
  /\ job.step = "posts"
  /\ \/ /\ job.task = "hourly" /\ ~PostDue
        /\ UNCHANGED <<post, flag>>
     \/ /\ job.task = "backfill" \/ PostDue
        /\ \/ captured' = [captured EXCEPT !.own = 0] /\ missed' = FALSE /\ UNCHANGED flag
           \/ missed' = TRUE /\ UNCHANGED captured /\ flag' \in {flag, flag \/ ~job.flag}
  /\ job' = Idle
  /\ UNCHANGED <<provider, hour, ran, figures, backfill>>

\* The worker is killed; a backfill killed runs again, the hourly task next hour.
Kill ==
  /\ job.step # "idle"
  /\ job' = Idle
  /\ backfill' = (backfill \/ job.task = "backfill")
  /\ Excuse(row, IF job.step = "account" THEN Ahead ELSE {}, job.on)
  /\ missed' = TRUE
  /\ UNCHANGED <<provider, hour, ran, row, total, captured, flag>>

Next ==
  \/ Hour \/ Reconnect \/ Begin \/ BeginBackfill
  \/ Skip \/ Fetch \/ FetchFails \/ WriteTotal \/ Batch \/ SyncPost \/ Kill

Spec == Init /\ [][Next]_vars

-----------------------------------------------------------------------------
\* A day without a row when it falls out of the window was out of reach on
\* every day it could be fetched: the platform had nothing or failed, the
\* account was flagged, or the worker was killed.
GapsAreExcused ==
  \A d \in Days :
    (d + provider.recent <= Today /\ row[d] = "none") =>
      \A n \in 0..provider.recent - 1 : d + n \in excused[d]

\* The total of followers, a live figure, is in no row of a day before the
\* one it was read on, but for a sync that midnight overtook.
TotalsAreOfTheirDay ==
  \A d \in Days : total[d] # 0 => total[d] \in {d, d + 1}

\* The post is synced within its interval, unless a sync brought nothing;
\* what the batch writes does not pass for one.
PostsAreRefreshed == captured.own > Interval + 1 => missed
=============================================================================
