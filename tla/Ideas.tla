------------------------------- MODULE Ideas -------------------------------
(***************************************************************************)
(* The board of ideas (apps/composer/views.py, and the dashboard's kanban):*)
(* ideas in columns, with media in an order and a cover, that become       *)
(* drafts.  A request reads the idea, then writes it: an edit under the    *)
(* row's lock, a move the whole row as it was read.                        *)
(***************************************************************************)
EXTENDS Naturals, FiniteSets, FiniteSetsExt, Functions

CONSTANTS Ideas, Columns, Assets, Requests, None,
          Defaults    \* bound: the columns a new board starts with, four in the code

VARIABLES
  column,   \* columns there are -> position
  idea,     \* ideas there are -> the row: its post is named by the request that made it
  media,    \* idea -> attached assets -> position
  asset,    \* the assets there are
  post,     \* posts made of ideas -> the idea and the media
  lock,     \* idea -> the edit that holds its row
  request,  \* requests: what each does, what it has read
  deleted,  \* history: ideas and columns deleted
  wrote,    \* history: the list of media last written of each idea
  sent,     \* history: the lists written of each idea
  linked,   \* history: the newest post of each idea
  torn,     \* history: ideas a stale row was written over, or that lost an asset
  crowded   \* history: a column was placed from a stale reading

rows == <<idea, media, asset, post, lock, deleted, wrote, sent, linked, torn>>
board == <<column, crowded>>
vars == <<rows, board, request>>

NewColumns(n, old) == CHOOSE s \in kSubset(n, Columns \ old) : TRUE   \* columns are alike
Orders(things) == UNION {Injection(s, 0..(Cardinality(s) - 1)) : s \in SUBSET things}
Numbered(s) == CHOOSE f \in Injection(s, 0..(Cardinality(s) - 1)) : TRUE
Put(f, x, value) == [y \in DOMAIN f \cup {x} |-> IF y = x THEN value ELSE f[y]]

\* A list of assets, as the page sends it: the place of each.  Of the places
\* only the order counts: the code numbers what is left of a list again.
Lists == Orders(Assets)
Nothing == [a \in {} |-> 0]
Rows == [group : Columns \cup {None}, cover : Assets \cup {None}, post : Requests \cup {None}]
NewRow == [group |-> None, cover |-> None, post |-> None]
Idle == [kind |-> None, at |-> "new", idea |-> None, copy |-> NewRow, media |-> Nothing,
         list |-> Nothing, column |-> None, seen |-> Nothing]
Kinds == {"create", "edit", "move", "convert", "delete",
          "board", "addColumn", "deleteColumn", "reorder"}

TypeOK ==
  /\ DOMAIN column \subseteq Columns /\ \A c \in DOMAIN column : column[c] \in Nat
  /\ DOMAIN idea \subseteq Ideas /\ \A i \in DOMAIN idea : idea[i] \in Rows
  /\ \A i \in Ideas : DOMAIN media[i] \subseteq asset
  /\ asset \subseteq Assets /\ DOMAIN post \subseteq Requests
  /\ lock \in [Ideas -> Requests \cup {None}] /\ deleted \subseteq Ideas \cup Columns /\ torn \subseteq Ideas
  /\ \A i \in Ideas : wrote[i] \in sent[i]
       /\ \A list \in sent[i] : DOMAIN list \subseteq Assets /\ Range(list) \subseteq Nat
  /\ linked \in [Ideas -> Requests \cup {None}]
  /\ \A r \in Requests : request[r].kind \in Kinds \cup {None} /\ request[r].copy \in Rows
  /\ crowded \in BOOLEAN

Init ==
  /\ column \in {Nothing, Numbered(NewColumns(Defaults, {}))} /\ asset = Assets
  /\ crowded = FALSE /\ idea = [i \in {} |-> NewRow]
  /\ media = [i \in Ideas |-> Nothing]
  /\ post = [r \in {} |-> [idea |-> None, media |-> Nothing]] /\ lock = [i \in Ideas |-> None]
  /\ request = [r \in Requests |-> Idle]
  /\ deleted = {} /\ torn = {}
  /\ wrote = [i \in Ideas |-> Nothing] /\ sent = [i \in Ideas |-> {Nothing}] /\ linked = [i \in Ideas |-> None]

-----------------------------------------------------------------------------
(* Requests begin: what they read first *)

Does(r, kind, at) == request[r].kind = kind /\ request[r].at = at
Ends(r) == request' = [request EXCEPT ![r] = [Idle EXCEPT !.at = "end"]]
To(r, at) == request' = [request EXCEPT ![r].at = at]
Subject(r) == request[r].idea
Copy(r) == request[r].copy

Begin(r, rec) ==
  /\ request[r].at = "new"
  /\ r = CHOOSE q \in Requests : request[q].at = "new"   \* requests are alike
  /\ request' = [request EXCEPT ![r] = rec]
  /\ UNCHANGED <<rows, board>>

\* The column of a page may be gone: then the idea has none.
BeginCreate(r) ==
  \E i \in Ideas \ (DOMAIN idea \cup deleted \cup {request[q].idea : q \in Requests}),
     c \in Columns, l \in Lists :
    Begin(r, [Idle EXCEPT !.kind = "create", !.at = "go", !.idea = i, !.list = l,
                          !.copy.group = IF c \in DOMAIN column THEN c ELSE None])

\* The dashboard's ideas have no column and no media.
BeginDashboard(r) ==
  \E i \in Ideas \ (DOMAIN idea \cup deleted \cup {request[q].idea : q \in Requests}) :
    Begin(r, [Idle EXCEPT !.kind = "create", !.at = "go", !.idea = i])

BeginIdea(r) ==
  \E i \in DOMAIN idea, kind \in {"edit", "move", "convert", "delete"} :
    \E c \in IF kind \in {"edit", "move"} THEN DOMAIN column \cup {None} ELSE {None},
       l \in IF kind = "edit" THEN Lists ELSE {Nothing} :
      Begin(r, [Idle EXCEPT !.kind = kind, !.at = "go", !.idea = i, !.list = l,
                !.copy = IF c = None THEN idea[i] ELSE [idea[i] EXCEPT !.group = c],
                !.media = media[i]])

\* The order of a reorder is that of a page, which may not show a new column.
BeginBoard(r) ==
  \/ Begin(r, [Idle EXCEPT !.kind = "board", !.at = IF column = Nothing THEN "go" ELSE "end"])
  \/ Begin(r, [Idle EXCEPT !.kind = "addColumn", !.at = "go", !.seen = column])
  \/ \E c \in DOMAIN column :
       Begin(r, [Idle EXCEPT !.kind = "deleteColumn", !.column = c,
                 !.at = IF \E i \in DOMAIN idea : idea[i].group = c THEN "end" ELSE "go"])
  \/ \E s \in Orders(DOMAIN column) \ {Nothing} :
       Begin(r, [Idle EXCEPT !.kind = "reorder", !.at = "go", !.seen = column, !.list = s])

-----------------------------------------------------------------------------
(* Media in an order *)

\* Mutant: ids of assets that are gone are kept.
Valid_All(list) == list

\* _sync_idea_media_attachments, of the assets there are.
Valid(list) == Restrict(list, DOMAIN list \cap asset)
Sync(now, known, list) ==
  [a \in (DOMAIN now \ (DOMAIN known \ DOMAIN list)) \cup DOMAIN list |->
     IF a \in DOMAIN list THEN list[a] ELSE now[a]]
CoverOf(list) ==
  IF list = Nothing THEN None
  ELSE CHOOSE a \in DOMAIN list : \A b \in DOMAIN list : list[a] <= list[b]

-----------------------------------------------------------------------------
(* Ideas *)

\* A row that refers to something deleted meanwhile is refused: nothing is done.
Refers(row) == row.group \in DOMAIN column \cup {None} /\ row.cover \in asset \cup {None}
Refused(r) == Ends(r) /\ UNCHANGED <<rows, board>>

Writes(i, list) ==
  /\ wrote' = [wrote EXCEPT ![i] = list] /\ sent' = [sent EXCEPT ![i] = @ \cup {list}]

Create(r) ==
  /\ Does(r, "create", "go")
  /\ LET i == Subject(r)
         l == request[r].list
     IN IF Refers([Copy(r) EXCEPT !.cover = CoverOf(l)])
        THEN /\ idea' = Put(idea, i, [Copy(r) EXCEPT !.cover = CoverOf(Valid(l))])
             /\ media' = [media EXCEPT ![i] = Sync(Nothing, Nothing, Valid(l))]
             /\ Writes(i, l)
             /\ Ends(r) /\ UNCHANGED <<asset, post, lock, deleted, linked, torn, board>>
        ELSE Refused(r)

Free(i) == lock[i] = None

\* idea_edit: the save of the text and the column locks the row until the commit.
EditSave(r) ==
  /\ Does(r, "edit", "go") /\ Free(Subject(r))
  /\ IF Subject(r) \in DOMAIN idea
     THEN /\ lock' = [lock EXCEPT ![Subject(r)] = r] /\ To(r, "saved")
          /\ UNCHANGED <<idea, media, asset, post, deleted, wrote, sent, linked, torn, board>>
     ELSE Refused(r)

EditRead(r) ==
  /\ Does(r, "edit", "saved")
  /\ request' = [request EXCEPT ![r].at = "read", ![r].media = media[Subject(r)],
                                ![r].list = Valid(request[r].list)]
  /\ UNCHANGED <<rows, board>>

\* The cover is written when it differs from the one that was read at first.
EditCommit(r) ==
  /\ Does(r, "edit", "read")
  /\ LET i == Subject(r)
         l == request[r].list
         c == Copy(r).cover
         new == DOMAIN l \ DOMAIN request[r].media
     IN /\ lock' = [lock EXCEPT ![i] = None]
        /\ Ends(r)
        /\ IF i \in DOMAIN idea /\ new \cap DOMAIN media[i] = {} /\ new \subseteq asset
              /\ Refers([Copy(r) EXCEPT !.cover = IF c = CoverOf(l) THEN None ELSE CoverOf(l)])
           THEN /\ idea' = [idea EXCEPT ![i].group = Copy(r).group,
                              ![i].cover = IF c = CoverOf(l) THEN idea[i].cover ELSE CoverOf(l)]
                /\ media' = [media EXCEPT ![i] =
                     LET m == Sync(media[i], request[r].media, l)
                     IN [a \in DOMAIN m \cap (asset \cap (new \cup DOMAIN media[i])) |-> m[a]]]
                /\ Writes(i, l)
                /\ torn' = IF c = idea[i].cover THEN torn ELSE torn \cup {i}
           ELSE UNCHANGED <<idea, media, wrote, sent, torn>>
        /\ UNCHANGED <<asset, post, deleted, linked, board>>

\* idea_move saves every field as it read it; an idea deleted since is inserted
\* again, without its media.
Move(r) ==
  /\ Does(r, "move", "go") /\ Free(Subject(r))
  /\ LET i == Subject(r)
         stale == i \notin DOMAIN idea \/ [Copy(r) EXCEPT !.group = None]
                                            # [idea[i] EXCEPT !.group = None]
     IN IF Refers(Copy(r))
        THEN /\ idea' = Put(idea, i, Copy(r))
             /\ torn' = IF stale THEN torn \cup {i} ELSE torn
             /\ Ends(r) /\ UNCHANGED <<media, asset, post, lock, deleted, wrote, sent, linked, board>>
        ELSE Refused(r)

Taken(r) ==
  IF request[r].media = Nothing /\ Copy(r).cover # None THEN [a \in {Copy(r).cover} |-> 0]
  ELSE request[r].media

\* idea_create_post: the draft, its media and the link, or nothing.
Convert(r) ==
  /\ Does(r, "convert", "go") /\ Free(Subject(r))
  /\ LET i == Subject(r) IN
     IF i \in DOMAIN idea /\ DOMAIN Taken(r) \subseteq asset
     THEN /\ post' = Put(post, r, [idea |-> i, media |-> Taken(r)])
          /\ idea' = [idea EXCEPT ![i].post = r] /\ linked' = [linked EXCEPT ![i] = r]
          /\ Ends(r) /\ UNCHANGED <<media, asset, lock, deleted, wrote, sent, torn, board>>
     ELSE Refused(r)

Delete(r) ==
  /\ Does(r, "delete", "go") /\ Free(Subject(r)) /\ Ends(r)
  /\ idea' = [i \in DOMAIN idea \ {Subject(r)} |-> idea[i]]
  /\ media' = [media EXCEPT ![Subject(r)] = Nothing]
  /\ deleted' = deleted \cup {Subject(r)}
  /\ UNCHANGED <<asset, post, lock, wrote, sent, linked, torn, board>>

\* The library deletes an asset: attachments go with it, covers are emptied.
DeleteAsset(a) ==
  /\ a \in asset /\ asset' = asset \ {a}
  /\ media' = [i \in Ideas |-> Restrict(media[i], DOMAIN media[i] \ {a})]
  /\ idea' = [i \in DOMAIN idea |->
       IF idea[i].cover = a THEN [idea[i] EXCEPT !.cover = None] ELSE idea[i]]
  /\ torn' = torn \cup {i \in DOMAIN idea : a \in DOMAIN media[i] \/ idea[i].cover = a}
  /\ post' = [r \in DOMAIN post |->
       [post[r] EXCEPT !.media = Restrict(@, DOMAIN @ \ {a})]]
  /\ UNCHANGED <<lock, deleted, wrote, sent, linked, request, board>>

-----------------------------------------------------------------------------
(* Columns *)

Highest(positions) == Max({positions[c] : c \in DOMAIN positions} \cup {0})

\* _idea_columns: a board without columns gets the default ones.
Seed(r) ==
  /\ Does(r, "board", "go") /\ Ends(r)
  /\ Cardinality(Columns \ (DOMAIN column \cup deleted)) >= Defaults
  /\ LET new == NewColumns(Defaults, DOMAIN column \cup deleted) IN
     column' = [c \in DOMAIN column \cup new |-> IF c \in new THEN Numbered(new)[c] ELSE column[c]]
  /\ crowded' = (crowded \/ column # Nothing)
  /\ UNCHANGED rows

PlaceOf(seen) == Highest(seen) + 1

AddColumn(r) ==
  /\ Does(r, "addColumn", "go") /\ Ends(r)
  /\ ~(Columns \subseteq DOMAIN column \cup deleted)
  /\ LET c == CHOOSE d \in Columns : d \notin DOMAIN column \cup deleted IN
     column' = Put(column, c, PlaceOf(request[r].seen))
  /\ crowded' = (crowded \/ column # request[r].seen)
  /\ UNCHANGED rows

\* Ideas that came since the column was found empty have no column.
DeleteColumn(r) ==
  /\ Does(r, "deleteColumn", "go") /\ Ends(r)
  /\ column' = [c \in DOMAIN column \ {request[r].column} |-> column[c]]
  /\ idea' = [i \in DOMAIN idea |->
       IF idea[i].group = request[r].column THEN [idea[i] EXCEPT !.group = None] ELSE idea[i]]
  /\ deleted' = deleted \cup {request[r].column}
  /\ UNCHANGED <<media, asset, post, lock, wrote, sent, linked, torn, crowded>>

\* Columns that are not at their place when read are written one by one; the
\* first that is gone ends it.
Reorder(r) ==
  /\ Does(r, "reorder", "go") /\ Ends(r)
  /\ LET s == request[r].list
         due(c) == c \in DOMAIN request[r].seen /\ request[r].seen[c] # s[c]
         done == {c \in DOMAIN s : \A d \in DOMAIN s : s[d] <= s[c] /\ due(d) => d \in DOMAIN column}
     IN /\ column' = [c \in DOMAIN column |-> IF c \in done /\ due(c) THEN s[c] ELSE column[c]]
        /\ crowded' = (crowded \/ column # request[r].seen \/ ~(DOMAIN column \subseteq DOMAIN s))
  /\ UNCHANGED rows

Next ==
  \/ \E r \in Requests :
       \/ BeginCreate(r) \/ BeginDashboard(r) \/ BeginIdea(r) \/ BeginBoard(r)
       \/ Create(r) \/ EditSave(r) \/ EditRead(r) \/ EditCommit(r) \/ Move(r) \/ Convert(r)
       \/ Delete(r) \/ Seed(r) \/ AddColumn(r) \/ DeleteColumn(r) \/ Reorder(r)
  \/ \E a \in Assets : DeleteAsset(a)

Spec == Init /\ [][Next]_vars

-----------------------------------------------------------------------------
\* The media of an idea are those of one request, in its order: edits that
\* overlap do not mix theirs.
EditsDoNotMix ==
  \A i \in DOMAIN idea \ deleted : media[i] = Valid(wrote[i])

\* The cover is the first of the media, unless a request wrote a cover it had
\* read before, or an asset of the idea was deleted.
CoverIsFirst == \A i \in DOMAIN idea \ torn : idea[i].cover = CoverOf(media[i])

\* An idea leads to its newest draft, and a deleted idea stays away, unless a
\* move wrote over it what it had read before.
NothingIsUndone ==
  /\ \A i \in DOMAIN idea \ torn : idea[i].post = linked[i]
  /\ DOMAIN idea \cap deleted \subseteq torn

\* A draft made of an idea has the media of one request, all of them and in its
\* order, even while another edits the idea; a torn idea may have only a cover.
DraftsHaveOneList ==
  \A r \in DOMAIN post : post[r].idea \notin torn =>
    \E list \in sent[post[r].idea] : post[r].media = Valid(list)

\* No two columns are at one place, unless a request that placed one had read
\* the board before another changed it, or named only some of the columns.
ColumnsHavePlaces ==
  crowded \/ \A c, d \in DOMAIN column : column[c] = column[d] => c = d
=============================================================================
