----------------------------- MODULE Dashboard -----------------------------
(***************************************************************************)
(* A post as the dashboard's pages handle it                               *)
(* (apps/api/routers/frontend/posts.py), beside the composer, which submits *)
(* it for review, and the publisher.  An edit replaces the children by new  *)
(* ones; requests read the post first and write in a transaction later, so  *)
(* an approval and an edit may have read what is not so any more.           *)
(***************************************************************************)
EXTENDS Naturals

CONSTANTS
  Accounts,  \* connected accounts
  Requests,  \* edits and approvals at work
  MaxTime,   \* bound: the times of a schedule, 1..MaxTime
  MaxPosted  \* bound: how often an account is posted to

Unset == 0
Times == 0..MaxTime

VARIABLES
  row,      \* the post: "none" yet, a "row", or "gone"
  time,     \* its scheduled_at
  child,    \* the PlatformPost of each account
  flying,   \* accounts the publisher posts for: for the child, or an orphan of it,
            \* with the time of the row it claimed
  doing,    \* requests at work, with what they sent or read
  posted,   \* history: how often each account was posted to, while it counts
  reset,    \* history: accounts whose child was replaced or reset when published
  left,     \* history: accounts whose child was not waiting when the post was moved,
            \* or whose old time the publisher wrote back
  crossed   \* history: an edit was committed while an approval was at work

vars == <<row, time, child, flying, doing, posted, reset, left, crossed>>

NoChild == [status |-> "none", time |-> Unset]
Idle == [op |-> "idle", time |-> Unset, accounts |-> {}]
Landed == [row |-> "no", time |-> Unset]
Waiting == {"draft", "scheduled"}

TypeOK ==
  /\ row \in {"none", "row", "gone"} /\ time \in Times
  /\ child \in [Accounts -> [status : Waiting \cup {"none", "pending", "publishing", "published"},
                             time : Times]]
  /\ flying \in [Accounts -> [row : {"no", "child", "orphan"}, time : Times]]
  /\ doing \in [Requests -> [op : {"idle", "edit", "approve"}, time : Times,
                             accounts : SUBSET Accounts]]
  /\ posted \in [Accounts -> 0..MaxPosted] /\ reset \subseteq Accounts /\ left \subseteq Accounts
  /\ crossed \in BOOLEAN

Init ==
  /\ row = "none" /\ time = Unset
  /\ child = [a \in Accounts |-> NoChild]
  /\ flying = [a \in Accounts |-> Landed]
  /\ doing = [r \in Requests |-> Idle]
  /\ posted = [a \in Accounts |-> 0] /\ reset = {} /\ left = {} /\ crossed = FALSE

\* A child for each account chosen, scheduled if the post has a time.
Children(t, accounts) ==
  [a \in Accounts |->
     IF a \in accounts THEN [status |-> IF t = Unset THEN "draft" ELSE "scheduled", time |-> t]
     ELSE NoChild]

Orphans == [a \in Accounts |->
  IF flying[a].row = "child" THEN [flying[a] EXCEPT !.row = "orphan"] ELSE flying[a]]
Out == {a \in Accounts : child[a].status = "published" \/ flying[a].row # "no"}
Forget ==
  /\ reset' = reset \cup Out
  /\ posted' = [a \in Accounts |-> IF a \in reset' THEN 0 ELSE posted[a]]

-----------------------------------------------------------------------------
(* The dashboard's requests *)

\* create_dashboard_post without a post_id.
Create(t, accounts) ==
  /\ row = "none" /\ accounts # {}
  /\ row' = "row" /\ time' = t /\ child' = Children(t, accounts)
  /\ UNCHANGED <<flying, doing, posted, reset, left, crossed>>

Begin(r, op, t, accounts) ==
  /\ row = "row" /\ doing[r] = Idle
  /\ doing' = [doing EXCEPT ![r] = [op |-> op, time |-> t, accounts |-> accounts]]
  /\ UNCHANGED <<row, time, child, flying, posted, reset, left, crossed>>

End(r) == doing' = [doing EXCEPT ![r] = Idle]

\* create_dashboard_post with a post_id has read the post.
BeginEdit(r, t, accounts) == accounts # {} /\ Begin(r, "edit", t, accounts)

\* The row is saved, a deleted one inserted again, and every child replaced; a
\* medium that is not there rolls it all back.
Edit(r) ==
  /\ doing[r].op = "edit" /\ End(r)
  /\ row' = "row" /\ time' = doing[r].time
  /\ child' = Children(doing[r].time, doing[r].accounts)
  /\ flying' = Orphans
  /\ Forget /\ left' = {}
  /\ crossed' = (crossed \/ \E q \in Requests : doing[q].op = "approve")

Refuse(r) ==
  /\ doing[r].op = "edit" /\ End(r)
  /\ UNCHANGED <<row, time, child, flying, posted, reset, left, crossed>>

\* approve_dashboard_post has read the post's time.
BeginApprove(r) == Begin(r, "approve", time, {})

\* Mutant: whatever its status, a child is scheduled again.
Approve_Any(r) ==
  /\ doing[r].op = "approve" /\ End(r)
  /\ child' = [a \in Accounts |->
       IF row = "row" /\ child[a].status # "none"
       THEN [child[a] EXCEPT !.status = IF doing[r].time = Unset THEN "draft" ELSE "scheduled"]
       ELSE child[a]]
  /\ UNCHANGED <<row, time, flying, posted, reset, left, crossed>>

\* The children in review go on; of a post that is gone, nothing is written.
Approve(r) ==
  /\ doing[r].op = "approve" /\ End(r)
  /\ child' = [a \in Accounts |->
       IF row = "row" /\ child[a].status = "pending"
       THEN [child[a] EXCEPT !.status = IF doing[r].time = Unset THEN "draft" ELSE "scheduled"]
       ELSE child[a]]
  /\ UNCHANGED <<row, time, flying, posted, reset, left, crossed>>

\* reject_dashboard_post makes a draft of every child, the published ones too.
Reject ==
  /\ row = "row"
  /\ child' = [a \in Accounts |->
       IF child[a].status = "none" THEN NoChild ELSE [child[a] EXCEPT !.status = "draft"]]
  /\ Forget
  /\ UNCHANGED <<row, time, flying, doing, left, crossed>>

Delete ==
  /\ row = "row" /\ row' = "gone"
  /\ child' = [a \in Accounts |-> NoChild] /\ flying' = Orphans
  /\ Forget
  /\ UNCHANGED <<time, doing, left, crossed>>

\* reschedule_post moves the post and the children that are drafts or
\* scheduled.
Reschedule(t) ==
  /\ row = "row" /\ t # Unset
  /\ time' = t
  /\ LET moved == {a \in Accounts : child[a].status \in Waiting} IN
     /\ child' = [a \in Accounts |-> IF a \in moved THEN [child[a] EXCEPT !.time = t] ELSE child[a]]
     /\ left' = Accounts \ moved
  /\ UNCHANGED <<row, flying, doing, posted, reset, crossed>>

-----------------------------------------------------------------------------
(* The others at work *)

\* The composer submits a draft for review.
Submit(a) ==
  /\ child[a].status = "draft"
  /\ child' = [child EXCEPT ![a].status = "pending"]
  /\ UNCHANGED <<row, time, flying, doing, posted, reset, left, crossed>>

\* When the child should be published: its own time, or the post's.
Due(a) == IF child[a].time # Unset THEN child[a].time ELSE time

\* The publisher claims a child that is due.
Claim(a) ==
  /\ child[a].status = "scheduled" /\ Due(a) # Unset
  /\ flying[a].row = "no" /\ posted[a] < MaxPosted
  /\ child' = [child EXCEPT ![a].status = "publishing"]
  /\ flying' = [flying EXCEPT ![a] = [row |-> "child", time |-> child[a].time]]
  /\ UNCHANGED <<row, time, doing, posted, reset, left, crossed>>

\* The publisher saves the whole row it claimed: of an orphan, a new row, if
\* the post is there and has no other child for the account.
Saves(a) == flying[a].row = "child" \/ (row = "row" /\ child[a].status = "none")

\* The platform has it, and the row is saved.
Publish(a) ==
  /\ flying[a].row # "no"
  /\ flying' = [flying EXCEPT ![a] = Landed]
  /\ posted' = [posted EXCEPT ![a] = IF a \in reset THEN @ ELSE @ + 1]
  /\ IF Saves(a)
     THEN /\ child' = [child EXCEPT ![a] = [status |-> "published", time |-> flying[a].time]]
          /\ left' = IF flying[a] = [row |-> "child", time |-> child[a].time]
                     THEN left ELSE left \cup {a}
     ELSE UNCHANGED <<child, left>>
  /\ UNCHANGED <<row, time, doing, reset, crossed>>

Next ==
  \/ \E t \in Times, accounts \in SUBSET Accounts :
       \/ Create(t, accounts)
       \/ \E r \in Requests : BeginEdit(r, t, accounts)
  \/ \E r \in Requests : Edit(r) \/ Refuse(r) \/ BeginApprove(r) \/ Approve(r)
  \/ \E t \in Times : Reschedule(t)
  \/ \E a \in Accounts : Submit(a) \/ Claim(a) \/ Publish(a)
  \/ Reject \/ Delete

Spec == Init /\ [][Next]_vars

-----------------------------------------------------------------------------
\* An account is posted to once, but where an edit, a rejection or a deletion
\* replaced or reset a child that was out already: an approval brings nothing
\* back that is published.
PostedOnce == \A a \in Accounts \ reset : posted[a] <= 1

\* A child that waits has the time the calendar shows for the post, but one
\* that was in review or out when the post was moved.
ChildrenMoveTogether ==
  \A a \in Accounts \ left : child[a].status \in Waiting => child[a].time = time

\* A scheduled child has a time, or nothing would ever publish it, unless an
\* edit took the time away behind the back of an approval.
ScheduledHasTime ==
  crossed \/ \A a \in Accounts : child[a].status = "scheduled" => Due(a) # Unset
=============================================================================
