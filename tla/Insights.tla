------------------------------ MODULE Insights ------------------------------
(***************************************************************************)
(* What the analytics page makes of the stored snapshots of one account,   *)
(* whose platform tells no figures of the account itself or a total of its *)
(* followers only (apps/analytics/services.py, derive.py).  A snapshot of  *)
(* a post holds what it has counted since it was published; the page shows *)
(* what each day of the last two periods brought, and the growth of the    *)
(* account from the days its total was read on.                            *)
(***************************************************************************)
EXTENDS Integers, FiniteSets, FiniteSetsExt

CONSTANTS
  Posts,
  Period,         \* days in the range chosen; the page reads twice as many
  MaxDays,        \* bound: days
  MaxCount,       \* bound: what a post, or the account, counts
  MaxRises        \* bound: what is counted in all

Days == 1..MaxDays
None == -1
Counts == 0..MaxCount

\* Counts are shown in parts of this size: every number of days divides it.
Whole == 12

VARIABLES
  source,     \* what is shown of the account: its posts, or its followers
  today,
  published,  \* the day of PlatformPost.published_at; 0: not published
  again,      \* history: the posts published a second time
  count,      \* what the platform counts for a post now
  snapshot,   \* PostInsightsSnapshot: the value of each day's row
  fans,       \* the followers the platform counts now
  followers,  \* AccountInsightsSnapshot: the value of each day's row
  brought     \* history: what each day brought the posts, or the account

vars == <<source, today, published, again, count, snapshot, fans, followers, brought>>

TypeOK ==
  /\ source \in {"posts", "followers"} /\ today \in Days
  /\ published \in [Posts -> 0..MaxDays] /\ again \subseteq Posts
  /\ count \in [Posts -> Counts]
  /\ snapshot \in [Posts -> [Days -> {None} \cup Counts]]
  /\ fans \in Counts
  /\ followers \in [Days -> {None} \cup Counts]
  /\ brought \in [Days -> Nat]

Init ==
  /\ source \in {"posts", "followers"} /\ today = 1
  /\ published = [p \in Posts |-> 0] /\ again = {}
  /\ count = [p \in Posts |-> 0]
  /\ snapshot = [p \in Posts |-> [d \in Days |-> None]]
  /\ fans = 0 /\ followers = [d \in Days |-> None]
  /\ brought = [d \in Days |-> 0]

-----------------------------------------------------------------------------
(* What happens on the platform, and what the sync stores of it *)

Day ==
  /\ today < MaxDays
  /\ today' = today + 1
  /\ UNCHANGED <<source, published, again, count, snapshot, fans, followers, brought>>

Publish(p) ==
  /\ source = "posts" /\ published[p] = 0
  /\ published' = [published EXCEPT ![p] = today]
  /\ UNCHANGED <<source, today, again, count, snapshot, fans, followers, brought>>

\* A post reopened and published again is another one on the platform; its
\* rows stay.
PublishAgain(p) ==
  /\ published[p] \in 1..today - 1 /\ p \notin again
  /\ published' = [published EXCEPT ![p] = today]
  /\ again' = again \cup {p}
  /\ count' = [count EXCEPT ![p] = 0]
  /\ UNCHANGED <<source, today, snapshot, fans, followers, brought>>

Rise(n) ==
  /\ brought' = [brought EXCEPT ![today] = @ + Max({0, n})]
  /\ MapThenSumSet(LAMBDA d : brought'[d], Days) <= MaxRises

\* A count rises, or falls: reactions withdrawn, a recount of the platform.
Counted(p) ==
  /\ published[p] # 0
  /\ \E n \in Counts \ {count[p]} :
       /\ count' = [count EXCEPT ![p] = n]
       /\ Rise(n - count[p])
  /\ UNCHANGED <<source, today, published, again, snapshot, fans, followers>>

Followed ==
  /\ source = "followers"
  /\ \E n \in Counts \ {fans} :
       /\ fans' = n
       /\ Rise(n - fans)
  /\ UNCHANGED <<source, today, published, again, count, snapshot, followers>>

\* A sync writes the day it began on, which midnight may have ended; there is
\* one worker, so nothing of the new day is written yet.
SyncPost(p) ==
  /\ published[p] # 0
  /\ \E on \in {today, today - 1} \cap Days :
       /\ on = today \/ \A q \in Posts : snapshot[q][today] = None
       /\ snapshot' = [snapshot EXCEPT ![p][on] = count[p]]
  /\ UNCHANGED <<source, today, published, again, count, fans, followers, brought>>

SyncTotal ==
  /\ source = "followers"
  /\ \E on \in {today, today - 1} \cap Days :
       /\ on = today \/ followers[today] = None
       /\ followers' = [followers EXCEPT ![on] = fans]
  /\ UNCHANGED <<source, today, published, again, count, snapshot, fans, brought>>

Next ==
  \/ Day \/ Followed \/ SyncTotal
  \/ \E p \in Posts : Publish(p) \/ PublishAgain(p) \/ Counted(p) \/ SyncPost(p)

Spec == Init /\ [][Next]_vars

-----------------------------------------------------------------------------
(* The series of the posts *)

\* The days the page reads, the current period last.
Start == today - 2 * Period + 1
Window == Start..today
Current == today - Period + 1 .. today
Previous == Window \ Current

Observed(p) == {d \in Window \cap Days : snapshot[p][d] # None}
FirstSeen(p) == Min(Observed(p))

\* Mutant: every row moves it.
HighMark_Last(p, d) == snapshot[p][Max({f \in Observed(p) : f < d})]

\* prev_value: a fall does not move it, so a recovery counts from the highest
\* value before.
HighMark(p, d) == Max({snapshot[p][e] : e \in {f \in Observed(p) : f < d}})

\* The first value of a post in the window: credited to its day when the post
\* seems to be published later, spread over the days since it was published,
\* or left out for a post from before.
Spread(p) == published[p] .. FirstSeen(p)
FirstCredit(p) ==
  LET v == snapshot[p][FirstSeen(p)] * Whole IN
  IF published[p] > FirstSeen(p) THEN [d \in {FirstSeen(p)} |-> v]
  ELSE IF published[p] < Start THEN [d \in {} |-> 0]
  ELSE [d \in Spread(p) |-> v \div Cardinality(Spread(p))]

Rises(p) == {d \in Observed(p) \ {FirstSeen(p)} : snapshot[p][d] > HighMark(p, d)}

\* What one post brought on each day it is credited for.
PostSeries(p) ==
  IF Observed(p) = {} THEN [d \in {} |-> 0]
  ELSE LET first == FirstCredit(p) IN
       [d \in DOMAIN first \cup Rises(p) |->
          (IF d \in DOMAIN first THEN first[d] ELSE 0)
          + (IF d \in Rises(p) THEN (snapshot[p][d] - HighMark(p, d)) * Whole ELSE 0)]

Daily == [p \in Posts |-> PostSeries(p)]
Credited == UNION {DOMAIN Daily[p] : p \in Posts}
DailySum(d) ==
  MapThenSumSet(LAMBDA p : Daily[p][d], {p \in Posts : d \in DOMAIN Daily[p]})

\* A day nothing is known of shows as zero.
Series(d) == IF d \in Credited THEN DailySum(d) ELSE 0

\* derive: a card adds up its period and compares it with the one before.
Card(period) == MapThenSumSet(Series, period)

-----------------------------------------------------------------------------
(* The growth of the account, where the platform tells a total only *)

Totals(D) == {d \in D \cap Days : followers[d] # None}

\* window_delta: nothing is said of a period with one value.
Growth(period) ==
  LET known == Totals(period) IN
  IF Cardinality(known) < 2 THEN 0 ELSE Max({followers[Max(known)] - followers[Min(known)], 0})

\* The line below the card: each day against the value before it.
Line(d) ==
  LET before == {e \in Totals(Window) : e < d} IN
  IF d \in Totals(Window) /\ before # {} THEN Max({followers[d] - followers[Max(before)], 0}) ELSE 0

-----------------------------------------------------------------------------
\* What the cards of the two periods show of the posts is never more than
\* these days brought: whatever was synced when, fell back and recovered, or
\* was published before.  A post published again is credited with what its
\* rows held before.
GainsAreReal ==
  again = {} =>
    Card(Current) + Card(Previous) <= Whole * MapThenSumSet(LAMBDA d : brought[d], Window \cap Days)

\* No part of a rise is lost or counted twice between the days: a post's
\* series adds up to the highest value seen of it, from nothing when it was
\* published in the window and from its first value otherwise.
RisesAddUp ==
  \A p \in Posts :
    Observed(p) # {} =>
      MapThenSumSet(LAMBDA d : Daily[p][d], DOMAIN Daily[p])
        = Whole * (Max({snapshot[p][d] : d \in Observed(p)})
                   - IF published[p] < Start THEN snapshot[p][FirstSeen(p)] ELSE 0)

\* The growth shown is one the period had, and its line rises at least by it.
GrowthIsReal ==
  /\ Growth(Current) <= MapThenSumSet(LAMBDA d : brought[d], Current \cap Days)
  /\ Growth(Current) <= MapThenSumSet(Line, Current)
=============================================================================
