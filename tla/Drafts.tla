------------------------------- MODULE Drafts -------------------------------
(***************************************************************************)
(* Writing a post in the composer (apps/composer/views.py): the pages of   *)
(* one browser, the draft that the autosave creates, and the media picked  *)
(* before there is a post, whose ids wait in the session.  A request loads *)
(* the session when it begins and writes all of it back when it ends       *)
(* (SESSION_SAVE_EVERY_REQUEST), so requests that overlap undo each        *)
(* other's changes of it.                                                  *)
(***************************************************************************)
EXTENDS Naturals, FiniteSets, Sequences, FiniteSetsExt, Functions

CONSTANTS Pages, Posts, Requests, None,
          Written,    \* posts written before
          Library,    \* assets of the workspace's library
          Shared,     \* assets of the organization's shared library
          Files,      \* files to upload, each one an asset once uploaded
          MaxClicks,  \* bound: media picked and removed in a behaviour
          MaxOverlaps \* bound: requests begun while another is at work

Assets == Library \cup Shared \cup Files

VARIABLES
  session,   \* pending_media of the workspace; at, by: when and on which page it was picked
  page,      \* open pages: the post each writes to, the media it shows
  post,      \* the rows: the position of each attached asset, at and by as above
  asset,     \* the assets there are
  request,   \* requests at work, each with its copy of the session
  clock,     \* history: clicks so far
  overlaps,  \* history: requests begun while another was at work
  made,      \* history: the posts each page created
  hasty,     \* history: pages that saved not knowing the post they had created
  lost       \* history: assets whose place in the session something else took

vars == <<session, page, post, asset, request, clock, overlaps, made, hasty, lost>>

Idle == [kind |-> "idle", page |-> None, post |-> None, asset |-> None,
         seen |-> <<>>, session |-> <<>>, created |-> None, done |-> FALSE]
Creates == {"autosave", "save", "submit"}
Clicks == {"upload", "import", "pend", "attach", "remove", "unpend"}
Kinds == Creates \cup Clicks \cup {"idle", "view"}
Entries == [asset : Assets, at : 1..MaxClicks, by : Pages]
Of(pending) == {e.asset : e \in Range(pending)}
Media == [pos : Nat, at : 1..MaxClicks, by : Pages]
NoMedia == [a \in {} |-> a]

TypeOK ==
  /\ Range(session) \subseteq Entries
  /\ page \in [Pages -> [open : BOOLEAN, edit : BOOLEAN, post : Posts \cup {None},
                         shown : SUBSET Assets]]
  /\ DOMAIN post \subseteq Posts
  /\ \A p \in DOMAIN post : DOMAIN post[p] \subseteq Assets /\ Range(post[p]) \subseteq Media
  /\ asset \subseteq Assets
  /\ \A r \in Requests : request[r].kind \in Kinds /\ Range(request[r].session) \subseteq Entries
  /\ clock \in 0..MaxClicks /\ overlaps \in 0..MaxOverlaps /\ made \in [Pages -> SUBSET Posts]
  /\ hasty \subseteq Pages /\ lost \subseteq Assets

Closed == [open |-> FALSE, edit |-> FALSE, post |-> None, shown |-> {}]

Init ==
  /\ session = <<>>
  /\ page = [g \in Pages |-> Closed]
  /\ post = [p \in Written |-> NoMedia]
  /\ asset = Library \cup Shared
  /\ request = [r \in Requests |-> Idle]
  /\ clock = 0 /\ overlaps = 0 /\ made = [g \in Pages |-> {}] /\ hasty = {} /\ lost = {}

-----------------------------------------------------------------------------
(* A request begins *)

Meets ==
  /\ overlaps' = IF \E q \in Requests : request[q].kind # "idle" THEN overlaps + 1 ELSE overlaps
  /\ overlaps' <= MaxOverlaps

Begin(r, kind, g, p, a) ==
  /\ page[g].open /\ request[r].kind = "idle" /\ Meets
  /\ r = CHOOSE q \in Requests : request[q].kind = "idle"   \* requests are alike
  /\ request' = [request EXCEPT ![r] =
       [Idle EXCEPT !.kind = kind, !.page = g, !.post = p, !.asset = a,
                    !.seen = session, !.session = session]]
  /\ UNCHANGED <<session, page, post, asset, clock, made, lost>>

\* The page sends the post it knows of: in the URL, or as _autosave_post_id.
BeginCreate(r, g, kind) ==
  /\ Begin(r, kind, g, page[g].post, None)
  /\ hasty' = IF /\ page[g].post = None
                 /\ \/ made[g] # {}
                    \/ \E q \in Requests : request[q].page = g /\ request[q].kind \in Creates
              THEN hasty \cup {g} ELSE hasty

Clicking == Cardinality({r \in Requests : request[r].kind \in Clicks /\ ~request[r].done})

\* The picker of a page opened without a post goes on asking for pending media.
\* An upload makes an asset of its own each time.
BeginOther(r, g) ==
  /\ \/ Begin(r, "view", g, None, None)
     \/ /\ clock + Clicking < MaxClicks
        /\ \E f \in Files \ (asset \cup lost \cup {request[q].asset : q \in Requests}),
             kind \in {"upload", "import"} : Begin(r, kind, g, page[g].post, f)
     \/ /\ clock + Clicking < MaxClicks
        /\ \E a \in (Library \cup Shared) \cap asset :
             IF page[g].edit THEN Begin(r, "attach", g, page[g].post, a)
             ELSE Begin(r, "pend", g, None, a)
     \/ /\ clock + Clicking < MaxClicks
        /\ \E a \in page[g].shown :
          IF page[g].post # None /\ a \in DOMAIN post[page[g].post]
          THEN Begin(r, "remove", g, page[g].post, a)
          ELSE Begin(r, "unpend", g, None, a)
  /\ UNCHANGED hasty

At(r, kind) == request[r].kind = kind /\ ~request[r].done
Mine(r) == request[r].session
Target(r) == request[r].post
Wanted(r) == request[r].asset
Picked(r) == [asset |-> Wanted(r), at |-> clock + 1, by |-> request[r].page]

\* The rows are written; the session and the answer are left.
Worked(r, copy, created) ==
  request' = [request EXCEPT ![r].session = copy, ![r].created = created, ![r].done = TRUE]

-----------------------------------------------------------------------------
(* What a request does to the rows *)

MaxPosition(media) == Max({media[a].pos : a \in DOMAIN media} \cup {0})

\* PostMedia.objects.get_or_create(defaults={"position": ...}) for each pending
\* id that is an asset of this workspace.
Migrate(media, pending, base) ==
  LET new == {i \in DOMAIN pending : pending[i].asset \in asset \ (Shared \cup DOMAIN media)}
      first(a) == Min({i \in new : pending[i].asset = a})
  IN [a \in DOMAIN media \cup {pending[i].asset : i \in new} |->
        IF a \in DOMAIN media THEN media[a]
        ELSE [pos |-> base + first(a) - 1, at |-> pending[first(a)].at, by |-> pending[first(a)].by]]

Append1(media, e) == [b \in DOMAIN media \cup {e.asset} |->
  IF b = e.asset THEN [pos |-> MaxPosition(media) + 1, at |-> e.at, by |-> e.by] ELSE media[b]]

\* _attach_asset_for_composer, the post path: what waits in the session goes
\* first, then the asset at the next position.
AppendMedia(media, pending, e) ==
  Append1(Migrate(media, pending, MaxPosition(media) + 1), e)

\* The asset is created whatever comes after.
Add(r) ==
  /\ asset' = asset \cup {Wanted(r)} /\ clock' = clock + 1
  /\ IF Target(r) = None
     THEN /\ Worked(r, Append(Mine(r), Picked(r)), None)
          /\ UNCHANGED <<post, lost>>
     ELSE /\ post' = [post EXCEPT ![Target(r)] = AppendMedia(@, Mine(r), Picked(r))]
          /\ Worked(r, <<>>, None)
          /\ lost' = lost \cup (Of(Mine(r)) \cap Shared)
  /\ UNCHANGED <<session, page, overlaps, made, hasty>>

\* upload_media, and unsplash_import of a photo.
Upload(r) == At(r, "upload") /\ Add(r)
ImportPhoto(r) == At(r, "import") /\ Add(r)

\* The storage has no room for the photo (413), or the asset is not there any
\* more (404): an answer like that of a view, with the session as the request
\* loaded it.
Refuse(r) ==
  /\ At(r, "import") \/ ((At(r, "pend") \/ At(r, "attach")) /\ Wanted(r) \notin asset)
  /\ request' = [request EXCEPT ![r].kind = "view"]
  /\ UNCHANGED <<session, page, post, asset, clock, overlaps, made, hasty, lost>>

\* attach_pending_media: the asset is added to what waits, once.
AttachPending(r) ==
  /\ At(r, "pend") /\ Wanted(r) \in asset /\ clock' = clock + 1
  /\ Worked(r, IF Wanted(r) \in Of(Mine(r)) THEN Mine(r)
               ELSE Append(Mine(r), Picked(r)), None)
  /\ UNCHANGED <<session, page, post, asset, overlaps, made, hasty, lost>>

\* attach_media: at the next position, unless it is attached already.
AttachMedia(r) ==
  /\ At(r, "attach") /\ Wanted(r) \in asset /\ clock' = clock + 1
  /\ post' = IF Wanted(r) \in DOMAIN post[Target(r)] THEN post
             ELSE [post EXCEPT ![Target(r)] = Append1(@, Picked(r))]
  /\ Worked(r, Mine(r), None)
  /\ UNCHANGED <<session, page, asset, overlaps, made, hasty, lost>>

Without(media, gone) == Restrict(media, DOMAIN media \ gone)

RemoveMedia(r) ==
  /\ At(r, "remove") /\ clock' = clock + 1
  /\ post' = [post EXCEPT ![Target(r)] = Without(@, {Wanted(r)})]
  /\ Worked(r, Mine(r), None) /\ lost' = lost \cup {Wanted(r)}
  /\ UNCHANGED <<session, page, asset, overlaps, made, hasty>>

\* list.remove: what waits without one asset, which waits once at most.
Taken(pending, a) ==
  IF a \notin Of(pending) THEN pending
  ELSE LET i == CHOOSE j \in DOMAIN pending : pending[j].asset = a
       IN SubSeq(pending, 1, i - 1) \o SubSeq(pending, i + 1, Len(pending))

\* remove_pending_media deletes an asset of the workspace, and its attachments
\* with it; a scheduled or publishing post that has it keeps it (delete_asset
\* raises, the view goes on).
RemovePending(r) ==
  /\ At(r, "unpend") /\ clock' = clock + 1
  /\ \E gone \in {{}, {Wanted(r)} \ Shared} :
       /\ gone # {} \/ Wanted(r) \in Shared \/ \E p \in DOMAIN post : Wanted(r) \in DOMAIN post[p]
       /\ asset' = asset \ gone
       /\ post' = [p \in DOMAIN post |-> Without(post[p], gone)]
  /\ Worked(r, Taken(Mine(r), Wanted(r)), None)
  /\ lost' = lost \cup {Wanted(r)}
  /\ UNCHANGED <<session, page, overlaps, made, hasty>>

\* A save without a post creates one; what the copy of the session holds is
\* attached in its order, when the save gets that far.
NewPost(r, attaches) ==
  /\ DOMAIN post # Posts
  /\ LET p == CHOOSE q \in Posts \ DOMAIN post : TRUE IN
     /\ post' = [q \in DOMAIN post \cup {p} |->
          IF q # p THEN post[q] ELSE IF attaches THEN Migrate(NoMedia, Mine(r), 0) ELSE NoMedia]
     /\ made' = [made EXCEPT ![request[r].page] = @ \cup {p}]
     /\ Worked(r, IF attaches THEN <<>> ELSE Mine(r), p)
  /\ lost' = IF attaches THEN lost \cup (Of(Mine(r)) \cap Shared) ELSE lost

KeepPost(r, copy) == Worked(r, copy, None) /\ UNCHANGED <<post, made, lost>>

\* Mutant: an autosave of a post there is drops what waits in the session.
Autosave_ClearsAll(r) ==
  /\ At(r, "autosave")
  /\ IF Target(r) = None THEN NewPost(r, TRUE) ELSE KeepPost(r, <<>>)
  /\ UNCHANGED <<session, page, asset, clock, overlaps, hasty>>

\* autosave: what waits is attached to a new draft only.
Autosave(r) ==
  /\ At(r, "autosave")
  /\ IF Target(r) = None THEN NewPost(r, TRUE) ELSE KeepPost(r, Mine(r))
  /\ UNCHANGED <<session, page, asset, clock, overlaps, hasty>>

\* save_post, to save the draft, to schedule or to publish: the same.
Save(r) ==
  /\ At(r, "save")
  /\ IF Target(r) = None THEN NewPost(r, TRUE) ELSE KeepPost(r, Mine(r))
  /\ UNCHANGED <<session, page, asset, clock, overlaps, hasty>>

\* save_post, to queue or to submit for approval: it returns before the pending
\* media are attached.
Submit(r) ==
  /\ At(r, "submit")
  /\ IF Target(r) = None THEN NewPost(r, FALSE) ELSE KeepPost(r, Mine(r))
  /\ UNCHANGED <<session, page, asset, clock, overlaps, hasty>>

-----------------------------------------------------------------------------
(* How a request ends, and what the browser makes of the answer *)

\* The session is written back whole.
WriteBack(r) ==
  /\ request[r].done \/ request[r].kind = "view"
  /\ session' = Mine(r)
  /\ lost' = lost \cup (Of(session) \ (Of(request[r].seen) \cup Of(Mine(r))))
  /\ request' = [request EXCEPT ![r] = Idle]
  /\ UNCHANGED <<post, asset, clock, overlaps, made, hasty>>

\* Only the autosave's answer tells the page its post.
End(r) ==
  /\ WriteBack(r)
  /\ LET g == request[r].page
         adds == IF request[r].kind \in {"upload", "import", "pend", "attach"} THEN {Wanted(r)} ELSE {}
         drops == IF request[r].kind \in {"remove", "unpend"} THEN {Wanted(r)} ELSE {}
         knows == request[r].kind = "autosave" /\ request[r].created # None IN
     page' = IF ~page[g].open THEN page
             ELSE [page EXCEPT ![g].shown = (@ \cup adds) \ drops,
                               ![g].post = IF knows THEN request[r].created ELSE @]

\* The answer is lost on the way.
Unheard(r) == WriteBack(r) /\ UNCHANGED page

\* The server fails before it answers, or no photo could be fetched (502): the
\* session is not written back.
Fail(r) ==
  /\ request[r].done \/ At(r, "import")
  /\ request' = [request EXCEPT ![r] = Idle]
  /\ UNCHANGED <<session, page, post, asset, clock, overlaps, made, hasty, lost>>

\* compose: a page load forgets what waits in the session.
Open(g, p) ==
  /\ ~page[g].open /\ made[g] = {} /\ \A r \in Requests : request[r].page # g
  /\ page' = [page EXCEPT ![g] =
       [open |-> TRUE, edit |-> p # None, post |-> p,
        shown |-> IF p = None THEN {} ELSE DOMAIN post[p]]]
  /\ session' = <<>> /\ lost' = lost \cup Of(session) /\ Meets
  /\ UNCHANGED <<post, asset, request, clock, made, hasty>>

Close(g) ==
  /\ page[g].open
  /\ page' = [page EXCEPT ![g] = Closed]
  /\ UNCHANGED <<session, post, asset, request, clock, overlaps, made, hasty, lost>>

Next ==
  \/ \E g \in Pages : Close(g) \/ \E p \in {None} \cup DOMAIN post : Open(g, p)
  \/ \E r \in Requests :
       \/ Upload(r) \/ ImportPhoto(r) \/ Refuse(r) \/ AttachPending(r) \/ AttachMedia(r) \/ RemoveMedia(r) \/ RemovePending(r)
       \/ Autosave(r) \/ Save(r) \/ Submit(r) \/ End(r) \/ Unheard(r) \/ Fail(r)
       \/ \E g \in Pages : BeginOther(r, g) \/ \E k \in Creates : BeginCreate(r, g, k)

Spec == Init /\ [][Next]_vars

-----------------------------------------------------------------------------
\* A composer page creates one draft, unless it saved again before an answer
\* told it of the first: the answer was on its way or lost, or was that of an
\* explicit save.
OneDraftPerPage == \A g \in Pages \ hasty : Cardinality(made[g]) <= 1

\* Media a page shows wait in the session or are attached to a post, unless
\* another page load or an overlapping request wrote the session without them,
\* or they are of the shared library, which the saves do not look in.
PickedMediaAreKept ==
  \A g \in Pages : \A a \in (page[g].shown \cap asset) \ lost :
    a \in Of(session) \/ \E p \in DOMAIN post : a \in DOMAIN post[p]

\* While no two requests overlap, the media of a post that one page picked are
\* in the order it picked them in, those that waited in the session included.
\* Two pages share what waits, and what was removed may wait again when the
\* session of the request that attached it was not written back.
MediaKeepTheirOrder ==
  overlaps = 0 =>
    \A p \in DOMAIN post : \A a, b \in DOMAIN post[p] \ lost :
      post[p][a].by = post[p][b].by /\ post[p][a].at < post[p][b].at =>
        post[p][a].pos < post[p][b].pos

=============================================================================
