------------------------------ MODULE Calendar ------------------------------
(***************************************************************************)
(* The calendar of a workspace (apps/calendar/views.py): the grids of a     *)
(* month, a week or a day show the children of posts and the open           *)
(* PostingSlots in a display time zone the viewer picks, while slots and    *)
(* the composer's fields are wall times of the workspace's zone and the     *)
(* database compares dates in UTC.                                          *)
(*                                                                          *)
(* One post with one child per account.  A child is due at its own          *)
(* scheduled_at or, without one, at the post's.  An instant is a number of  *)
(* hours from the first day, in UTC; a zone is its offset; Hours is the     *)
(* length of a day and Week the days of a week, so that the grids stay      *)
(* small while every zone is less than a day away from UTC.                 *)
(***************************************************************************)
EXTENDS Integers, FiniteSets

CONSTANTS
  Accounts,   \* the workspace's connected channels
  OldRows,    \* accounts whose child an older release may have pushed ahead
  Slots,      \* the PostingSlot rows that can exist
  Hours,      \* hours of a day
  Week,       \* days of a week
  Days,       \* bound: days of the model
  Zones,      \* offsets of the time zones, in hours, less than a day
  MaxTime,    \* bound: the last value of the clock
  MaxEdits,   \* bound: requests of users
  None        \* no row

VARIABLES
  now,        \* timezone.now()
  zone,       \* the workspace's effective_timezone
  status,     \* PlatformPost.status
  own,        \* PlatformPost.scheduled_at
  planned,    \* Post.scheduled_at
  published,  \* PlatformPost.published_at
  slot,       \* the PostingSlot rows
  scanned,    \* the children a running repair command found
  edits       \* requests so far

vars == <<now, zone, status, own, planned, published, slot, scanned, edits>>

Unset == -1
Instants == 0..(Hours * Days - 1)
Protected == {"publishing", "published"}
Status == {"draft", "pending_review", "scheduled", "published", "failed"}
Slot == [account : Accounts, day : 0..(Week - 1), hour : 0..(Hours - 1), active : BOOLEAN]

\* Dates and hours of the clock on the wall in a zone.
Date(t, z) == (t + z) \div Hours
Cell(t, z) == <<Date(t, z), (t + z) % Hours>>
Instant(cell, z) == cell[1] * Hours + cell[2] - z
UTC == 0
Horizon == Days + 2 * Week    \* the queue looks 60 days ahead

Least(S) == CHOOSE t \in S : \A u \in S : t <= u

\* effective_at: Coalesce("scheduled_at", "post__scheduled_at").
Effective(a) == IF own[a] # Unset THEN own[a] ELSE planned

\* sync_post_scheduled_at: the earliest of the children's own times.
Earliest(times) ==
  LET set == {times[a] : a \in Accounts} \ {Unset}
  IN IF set = {} THEN Unset ELSE Least(set)

-----------------------------------------------------------------------------
(* The grids *)

\* A window: the days of a day view, of a week from its first day, or of the
\* two weeks of a month.
DayView(d) == {d}
WeekView(d) == LET first == (d \div Week) * Week IN first..(first + Week - 1)
MonthView(d) == LET first == (d \div (2 * Week)) * 2 * Week IN first..(first + 2 * Week - 1)
Windows == UNION {{DayView(d), WeekView(d), MonthView(d)} : d \in -1..(Days - 1)}
FirstDay(W) == Least(W)
LastDay(W) == CHOOSE d \in W : \A e \in W : e <= d

\* Mutant: the query takes the window's own dates.
Fetched_Exact(W) ==
  {a \in Accounts : /\ Effective(a) # Unset
                    /\ Date(Effective(a), UTC) \in FirstDay(W)..LastDay(W)}

\* The query is made in UTC, a day wider on both sides.
Fetched(W) ==
  {a \in Accounts : /\ Effective(a) # Unset
                    /\ Date(Effective(a), UTC) \in (FirstDay(W) - 1)..(LastDay(W) + 1)}

Chips(W, z) == {a \in Fetched(W) : Date(Effective(a), z) \in W}

\* The instants of an account's active slots, on some dates of the workspace.
Occurrences(a, dates) ==
  LET on(d) == {s \in Slots : /\ slot[s] # None
                              /\ slot[s].account = a /\ slot[s].active
                              /\ slot[s].day = d % Week}
  IN (UNION {{Instant(<<d, slot[s].hour>>, zone) : s \in on(d)} : d \in dates}) \cap Nat

\* _get_calendar_slot_occurrences: the slots are laid out in the workspace's
\* zone, a day wider on both sides, and shown where no chip of their channel is.
OpenSlots(W, z, a) ==
  LET taken == {Cell(Effective(c), z) : c \in Fetched(W) \cap {a}}
  IN {t \in Occurrences(a, (FirstDay(W) - 1)..(LastDay(W) + 1)) :
        Date(t, z) \in W /\ Cell(t, z) \notin taken}

\* _cell_compose_params: the wall time, in the workspace, of a cell's instant.
ComposeParams(cell, z) == Cell(Instant(cell, z), zone)

\* The tab of the publish page that lists a child.
TabStatus == [queue |-> {"scheduled"}, drafts |-> {"draft"}, sent |-> {"published", "failed"},
              approvals |-> {"pending_review"}]
TabsOf(a) == {tab \in DOMAIN TabStatus : status[a] \in TabStatus[tab]}

\* calendar/services.py: the slots after now, in order, and the first of them
\* that no child of the channel has taken with a time of its own.
Occupied(a) == {own[c] : c \in {c \in {a} : own[c] > now /\ status[c] \notin Protected}}
NextAvailable(a) ==
  LET after == {t \in Occurrences(a, Date(now, zone)..(Date(now, zone) + Horizon)) : t > now}
      seen == {t \in after : Cardinality({u \in after : u < t}) < Cardinality(Occupied(a)) + 1}
      free == seen \ Occupied(a)
  IN IF free = {} THEN Unset ELSE Least(free)

-----------------------------------------------------------------------------
(* Published children whose time was once pushed into the future are found in *)
(* databases older than the guard of assign_queue_slots.                      *)
Init ==
  /\ now = 0 /\ zone \in Zones
  /\ scanned = {}
  /\ slot = [s \in Slots |-> None]
  /\ edits = 0
  /\ \E pushed \in SUBSET OldRows, t \in Instants \ {0} :
       /\ status = [a \in Accounts |-> IF a \in pushed THEN "published" ELSE "draft"]
       /\ own = [a \in Accounts |-> IF a \in pushed THEN t ELSE Unset]
       /\ published = [a \in Accounts |-> IF a \in pushed THEN 0 ELSE Unset]
       /\ planned = Earliest(own)

\* save_post, "schedule": the post's time, and that of the children in the
\* composer's scope, which are scheduled.
Save(scope, t) ==
  LET open == {a \in scope : status[a] \notin Protected}
  IN /\ t > now
     /\ planned' = t
     /\ own' = [a \in Accounts |-> IF a \in open THEN t ELSE own[a]]
     /\ status' = [a \in Accounts |-> IF a \in open THEN "scheduled" ELSE status[a]]
     /\ UNCHANGED <<now, zone, published, slot, scanned>>

\* save_post, "add_to_queue": one channel's queue gives its child a slot, and
\* every child of the form becomes scheduled.
Queue(a) ==
  LET t == NextAvailable(a)
  IN /\ status[a] \notin Protected
     /\ t \in Instants
     /\ own' = [own EXCEPT ![a] = t]
     /\ planned' = Earliest(own')
     /\ status' = [c \in Accounts |-> IF status[c] \in Protected THEN status[c] ELSE "scheduled"]
     /\ UNCHANGED <<now, zone, published, slot, scanned>>

\* The chip menu of the composer (transition_platform_post): the times stay.
ChipTo(a, target) ==
  /\ <<status[a], target>> \in
       {<<"draft", "pending_review">>, <<"draft", "scheduled">>, <<"pending_review", "draft">>,
        <<"scheduled", "draft">>, <<"failed", "draft">>}
  /\ status' = [status EXCEPT ![a] = target]
  /\ UNCHANGED <<now, zone, own, planned, published, slot, scanned>>

\* reschedule_post: a chip dropped on an hour of a week's or a day's grid.
Drop(a, cell, z) ==
  LET t == Instant(ComposeParams(cell, z), zone)
  IN /\ status[a] \in {"draft", "scheduled"}
     /\ t \in Instants
     /\ own' = [own EXCEPT ![a] = t]
     /\ status' = [status EXCEPT ![a] = IF @ = "draft" THEN "scheduled" ELSE @]
     /\ planned' = Earliest(own')
     /\ UNCHANGED <<now, zone, published, slot, scanned>>

\* The publisher takes a child whose effective time has come.
Publish(a) ==
  /\ status[a] = "scheduled" /\ Effective(a) # Unset /\ Effective(a) <= now
  /\ \/ /\ status' = [status EXCEPT ![a] = "published"]
        /\ published' = [published EXCEPT ![a] = now]
     \/ /\ status' = [status EXCEPT ![a] = "failed"]
        /\ published' = published
  /\ UNCHANGED <<now, zone, own, planned, slot, scanned, edits>>

-----------------------------------------------------------------------------
(* The posting slots, from pages that may be old *)

\* save_posting_slot gets or creates.
SaveSlot(s, row) ==
  /\ slot[s] = None
  /\ ~ \E o \in Slots : slot[o] # None /\ [slot[o] EXCEPT !.active = TRUE] = row
  /\ slot' = [slot EXCEPT ![s] = row]
  /\ UNCHANGED <<now, zone, status, own, planned, published, scanned>>

DeleteSlot(s) ==
  /\ slot[s] # None
  /\ slot' = [slot EXCEPT ![s] = None]
  /\ UNCHANGED <<now, zone, status, own, planned, published, scanned>>

\* toggle_posting_slot_day: off if all of the day's slots are on, else on.
ToggleDay(a, d) ==
  LET day == {s \in Slots : slot[s] # None /\ slot[s].account = a /\ slot[s].day = d}
      on == \E s \in day : ~slot[s].active
  IN /\ day # {}
     /\ slot' = [s \in Slots |-> IF s \in day THEN [slot[s] EXCEPT !.active = on] ELSE slot[s]]
     /\ UNCHANGED <<now, zone, status, own, planned, published, scanned>>

\* update_posting_slot: refused where another slot of the day has that time.
MoveSlot(s, h) ==
  /\ slot[s] # None
  /\ ~ \E o \in Slots \ {s} :
         /\ slot[o] # None
         /\ slot[o].account = slot[s].account /\ slot[o].day = slot[s].day /\ slot[o].hour = h
  /\ slot' = [slot EXCEPT ![s].hour = h]
  /\ UNCHANGED <<now, zone, status, own, planned, published, scanned>>

-----------------------------------------------------------------------------
(* The command repair_published_scheduled_at *)

Pushed == {a \in Accounts :
             status[a] = "published" /\ own[a] # Unset /\ published[a] # Unset /\ own[a] > published[a]}

Scan ==
  /\ scanned = {} /\ Pushed # {}
  /\ scanned' = Pushed
  /\ UNCHANGED <<now, zone, status, own, planned, published, slot, edits>>

\* The pushed children get the time they were published at; before the post's
\* own time follows, a scheduled sibling that rides on it is pinned.
Repair ==
  LET riding == {a \in Accounts : status[a] = "scheduled" /\ own[a] = Unset}
  IN /\ scanned # {}
     /\ own' = [a \in Accounts |-> IF a \in Pushed THEN published[a]
                                   ELSE IF a \in riding THEN planned ELSE own[a]]
     /\ planned' = Earliest(own')
     /\ scanned' = {}
     /\ UNCHANGED <<now, zone, status, published, slot, edits>>

Tick ==
  /\ now < MaxTime
  /\ now' = now + 1
  /\ UNCHANGED <<zone, status, own, planned, published, slot, scanned, edits>>

Cells == (0..(Days - 1)) \X (0..(Hours - 1))

\* What users ask for.
Edit ==
  \/ \E scope \in (SUBSET Accounts) \ {{}}, t \in Instants : Save(scope, t)
  \/ \E a \in Accounts :
       \/ Queue(a)
       \/ \E target \in Status : ChipTo(a, target)
       \/ \E cell \in Cells, z \in Zones : Drop(a, cell, z)
       \/ \E d \in 0..(Week - 1) : ToggleDay(a, d)
  \/ \E s \in Slots :
       \/ \E row \in [account : Accounts, day : 0..(Week - 1), hour : 0..(Hours - 1),
                      active : {TRUE}] : SaveSlot(s, row)
       \/ DeleteSlot(s)
       \/ \E h \in 0..(Hours - 1) : MoveSlot(s, h)

Next ==
  \/ edits < MaxEdits /\ edits' = edits + 1 /\ Edit
  \/ \E a \in Accounts : Publish(a)
  \/ Scan \/ Repair
  \/ Tick

Spec == Init /\ [][Next]_vars

-----------------------------------------------------------------------------
(* Properties *)

TypeOK ==
  /\ now \in 0..MaxTime /\ zone \in Zones
  /\ status \in [Accounts -> Status]
  /\ own \in [Accounts -> Instants \cup {Unset}]
  /\ planned \in Instants \cup {Unset}
  /\ published \in [Accounts -> 0..MaxTime \cup {Unset}]
  /\ slot \in [Slots -> Slot \cup {None}]
  /\ scanned \in SUBSET Accounts
  /\ edits \in 0..MaxEdits

\* The grids show everything that falls on their days and nothing else: a child
\* on the day it is due in the display zone, a slot on the day it comes round,
\* unless its channel has a child at that very instant.  Only where the display
\* and the workspace are at most a day apart: -11 and +14 are not.
GridsAreComplete ==
  \A W \in Windows, z \in {z \in Zones : zone - z \in -Hours..Hours}, a \in Accounts :
    /\ (a \in Chips(W, z)) = (Effective(a) # Unset /\ Date(Effective(a), z) \in W)
    /\ OpenSlots(W, z, a) =
         {t \in Occurrences(a, -1..Horizon) : Date(t, z) \in W /\ t # Effective(a)}

\* A chip dropped on an hour of the grid is shown at that hour.
ChipsLandWhereDropped ==
  [][edits' > edits =>
       \A a \in Accounts, cell \in Cells, z \in Zones :
         Drop(a, cell, z) => Cell(own'[a], z) = cell]_vars

\* The queue offers the first slot the calendar shows open, as long as the
\* channel's child has a time of its own and is not history.
QueueOffersTheFirstOpen ==
  \A a \in Accounts :
    (own[a] # Unset \/ planned = Unset) /\ status[a] \notin Protected =>
      LET open == {t \in UNION {OpenSlots(W, zone, a) : W \in Windows} : t > now}
      IN open # {} => NextAvailable(a) = Least(open)

\* The repair of old rows moves no child that is still to be published.
RepairMovesNothingPending ==
  [][scanned # {} /\ scanned' = {} =>
       \A a \in Accounts : status[a] = "scheduled" => Effective(a)' = Effective(a)]_vars

\* Every child is on one tab of the publish page.
EveryChildHasItsTab == \A a \in Accounts : Cardinality(TabsOf(a)) = 1

=============================================================================
