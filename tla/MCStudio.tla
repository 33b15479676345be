------------------------------ MODULE MCStudio ------------------------------
(***************************************************************************)
(* What a workspace's members work with around their posts, for TLC:       *)
(* writing them, the board of ideas, the news feeds, the import of a file, *)
(* the calendar, the folders of the library and the figures of the posts.  *)
(* The parts share no variable here, so each behaviour is one of one part. *)
(***************************************************************************)
EXTENDS Integers, FiniteSets

CONSTANTS
  Nil, Requests,
  Pages, Posts, Written, Library, Shared, Files, MaxClicks, MaxOverlaps,
  Themes, Columns, Pictures, Planners, Defaults,
  Workers, Urls, TTL, MaxEvents, MaxFeeds,
  Sheets, NumRows, MaxConfirms,
  Accounts, OldRows, Slots, Hours, Week, NumDays, MaxOffset, MaxTime, MaxEdits,
  MaxFolders, Items,
  Measured, Period, MaxDays, MaxCount, MaxRises

ASSUME BoundAssumption ==
  /\ MaxClicks \in Nat /\ MaxOverlaps \in Nat /\ Defaults \in Nat \ {0}
  /\ TTL \in Nat \ {0} /\ MaxEvents \in Nat /\ MaxFeeds \in Nat
  /\ NumRows \in Nat /\ MaxConfirms \in Nat /\ MaxFolders \in Nat
  /\ Hours \in Nat \ {0} /\ Week \in Nat \ {0} /\ NumDays \in Nat \ {0}
  /\ MaxOffset \in 0..(Hours - 1) /\ MaxTime \in Nat /\ MaxEdits \in Nat
  /\ Period \in Nat \ {0} /\ MaxDays \in Nat \ {0} /\ MaxCount \in Nat /\ MaxRises \in Nat

\* What stands for the absence of a thing is none.
ASSUME NoneAssumption ==
  /\ Nil \notin Pages \cup Posts \cup Library \cup Shared \cup Files
  /\ Nil \notin Themes \cup Columns \cup Pictures \cup Planners
  /\ Nil \notin {"create", "edit", "move", "convert", "delete",
                  "board", "addColumn", "deleteColumn", "reorder"}
  /\ Nil \notin Workers \cup Urls \cup Sheets \cup {"upload", "preview", "confirm", "view"}

ASSUME SetAssumption ==
  /\ Written \subseteq Posts /\ OldRows \subseteq Accounts /\ Themes \cap Columns = {}
  /\ IsFiniteSet(Posts) /\ IsFiniteSet(Requests) /\ IsFiniteSet(Columns) /\ IsFiniteSet(Pictures)
  /\ IsFiniteSet(Library \cup Shared \cup Files) /\ IsFiniteSet(Slots)
  /\ Defaults <= Cardinality(Columns)

VARIABLES
  desk,
  session, page, post, drawer, saving, clock, overlaps, made, hasty, lost,
  column, idea, attached, store, converted, lock, planning, deleted, wrote, sent, linked, torn,
  crowded,
  feed, followed, entry, down, outage, kept, reading, served,
  waiting, importing, uploaded, imported, confirms, flow, mixed,
  now, zone, stage, due, planned, published, slot, scanned, edits,
  parent, holds, filing, late, dropped, astray,
  source, today, out, again, count, snapshot, fans, followers, brought

Writing == INSTANCE Drafts WITH None <- Nil, asset <- drawer, request <- saving
Board == INSTANCE Ideas WITH
  None <- Nil, Ideas <- Themes, Assets <- Pictures, Requests <- Planners,
  media <- attached, asset <- store, post <- converted, request <- planning
News == INSTANCE Feeds WITH None <- Nil, made <- followed, cache <- kept, request <- reading
Import == INSTANCE CsvImport WITH
  None <- Nil, Files <- Sheets, session <- waiting, request <- importing, post <- imported
Dates == INSTANCE Calendar WITH
  None <- Nil, Days <- NumDays, Zones <- -MaxOffset..MaxOffset, status <- stage, own <- due
Tree == INSTANCE MediaFolders WITH Assets <- Items, request <- filing
Figures == INSTANCE Insights WITH Posts <- Measured, published <- out

writing == <<session, page, post, drawer, saving, clock, overlaps, made, hasty, lost>>
board == <<column, idea, attached, store, converted, lock, planning, deleted, wrote, sent,
           linked, torn, crowded>>
news == <<feed, followed, entry, down, outage, kept, reading, served>>
import == <<waiting, importing, uploaded, imported, confirms, flow, mixed>>
dates == <<now, zone, stage, due, planned, published, slot, scanned, edits>>
tree == <<parent, holds, filing, late, dropped, astray>>
figures == <<source, today, out, again, count, snapshot, fans, followers, brought>>
vars == <<desk, writing, board, news, import, dates, tree, figures>>

Desks == {"writing", "board", "news", "import", "dates", "tree", "figures"}

\* A part that is not at work starts in one of its initial states.
Init ==
  /\ desk \in Desks
  /\ Writing!Init /\ Board!Init /\ News!Init /\ Import!Init /\ Dates!Init /\ Tree!Init
  /\ Figures!Init
  /\ desk # "board" => column = Board!Nothing
  /\ desk # "dates" => zone = 0 /\ planned = Dates!Unset
  /\ desk # "figures" => source = "posts"

\* Only the part p is at work.
Only(p) ==
  /\ desk = p /\ UNCHANGED desk
  /\ IF p = "writing" THEN TRUE ELSE UNCHANGED writing
  /\ IF p = "board" THEN TRUE ELSE UNCHANGED board
  /\ IF p = "news" THEN TRUE ELSE UNCHANGED news
  /\ IF p = "import" THEN TRUE ELSE UNCHANGED import
  /\ IF p = "dates" THEN TRUE ELSE UNCHANGED dates
  /\ IF p = "tree" THEN TRUE ELSE UNCHANGED tree
  /\ IF p = "figures" THEN TRUE ELSE UNCHANGED figures

Next ==
  \/ Only("writing") /\ Writing!Next
  \/ Only("board") /\ Board!Next
  \/ Only("news") /\ News!Next
  \/ Only("import") /\ Import!Next
  \/ Only("dates") /\ Dates!Next
  \/ Only("tree") /\ Tree!Next
  \/ Only("figures") /\ Figures!Next

Spec == Init /\ [][Next]_vars

\* The type invariants of the parts.
TypeOK ==
  /\ desk = "writing" => Writing!TypeOK
  /\ desk = "board" => Board!TypeOK
  /\ desk = "news" => News!TypeOK
  /\ desk = "import" => Import!TypeOK
  /\ desk = "dates" => Dates!TypeOK
  /\ desk = "tree" => Tree!TypeOK
  /\ desk = "figures" => Figures!TypeOK

\* See Drafts, Ideas, CsvImport and MediaFolders: a page creates one draft,
\* what is picked on it stays in its order, edits of an idea do not mix, its
\* links hold, the draft made of it has what it had, what is imported was
\* previewed, once, and folders lose nothing.
WorkIsKept ==
  /\ desk = "writing" =>
       Writing!OneDraftPerPage /\ Writing!PickedMediaAreKept /\ Writing!MediaKeepTheirOrder
  /\ desk = "board" =>
       /\ Board!EditsDoNotMix /\ Board!CoverIsFirst /\ Board!NothingIsUndone
       /\ Board!DraftsHaveOneList /\ Board!ColumnsHavePlaces
  /\ desk = "import" => Import!RowsImportedOnce /\ Import!ImportsWhatWasPreviewed
  /\ desk = "tree" => Tree!ThreeLevels /\ Tree!DeletionMovesUp /\ Tree!NothingHangsLoose

\* See Feeds and Calendar: what a feed shows is subscribed to and recent, the
\* grids are complete, the queue offers what they show, a drop is shown where
\* it was made, and the repair moves nothing pending.
ViewsAreTrue ==
  /\ [](desk = "news" => News!EventsAreSubscribed /\ News!EventsAreRecent)
  /\ [](desk = "dates" =>
          /\ Dates!GridsAreComplete /\ Dates!QueueOffersTheFirstOpen
          /\ Dates!EveryChildHasItsTab)
  /\ Dates!ChipsLandWhereDropped /\ Dates!RepairMovesNothingPending

\* See Insights: the figures add up to what was seen of the posts.
FiguresAddUp ==
  desk = "figures" => Figures!GainsAreReal /\ Figures!RisesAddUp /\ Figures!GrowthIsReal

=============================================================================
