---------------------------- MODULE MediaFolders ----------------------------
(***************************************************************************)
(* The folders of a workspace's media library                              *)
(* (apps/media_library/views.py, services.py).  A folder holds assets and   *)
(* folders, three levels deep at most; deleting one moves what it holds to  *)
(* its parent, in statements of their own, before the row goes and the      *)
(* database cascades over what is in it by then.                            *)
(***************************************************************************)
EXTENDS Integers, FiniteSets

CONSTANTS
  MaxFolders,  \* bound: the MediaFolder rows ever inserted
  Assets,      \* MediaAsset rows
  Requests     \* requests that can be in flight

Folders == 1..MaxFolders
None == 0       \* the root: no parent, no folder
Unused == -1   \* a row not inserted yet
Gone == -2     \* a row deleted: its id never comes back

VARIABLES
  parent,    \* the parent of each row, None at the root, or Unused, or Gone
  holds,     \* the folder of each asset
  request,   \* what each request is about to do
  late,      \* what was put into a folder that was already being emptied
  dropped,   \* what was in a folder when its row went
  astray     \* a deletion moved folders to one that its own was not in any more

vars == <<parent, holds, request, late, dropped, astray>>

\* A folder or an asset, as what has a place.
Of(kind, x) == <<kind, x>>
Places == {Of("folder", f) : f \in Folders} \cup {Of("asset", a) : a \in Assets}

Idle == [do |-> "idle"]
Live == {f \in Folders : parent[f] \notin {Unused, Gone}}
In(f) == {c \in Live : parent[c] = f}

TypeOK ==
  /\ parent \in [Folders -> Folders \cup {None, Unused, Gone}]
  /\ holds \in [Assets -> Folders \cup {None}]
  /\ \A r \in Requests : request[r].do \in {"idle", "create", "move", "assets",
                                            "folders", "remove"}
  /\ late \subseteq Places /\ dropped \subseteq Places /\ astray \in BOOLEAN

Init ==
  /\ parent = [f \in Folders |-> Unused]
  /\ holds = [a \in Assets |-> None]
  /\ request = [r \in Requests |-> Idle]
  /\ late = {} /\ dropped = {} /\ astray = FALSE

\* The folders above a folder.
Above(f) ==
  IF f = None THEN {} ELSE
  LET p == parent[f] IN
  IF p = None THEN {} ELSE
  IF parent[p] = None THEN {p} ELSE
  IF parent[parent[p]] = None THEN {p, parent[p]} ELSE {p, parent[p], parent[parent[p]]}
Level(f) == Cardinality(Above(f)) + 1

\* The folders below a folder, at any depth.
Holding(set) == \A c \in Live : parent[c] \in set => c \in set
Below(f) == {c \in Live : \A set \in SUBSET Live : In(f) \subseteq set /\ Holding(set) => c \in set}

\* check_folder_depth, and MediaFolder.clean again.
MayHold(p) == p = None \/ Level(p) < 3

\* A folder whose deletion has moved its folders, or its assets, already.
Emptied(f, stages) == \E r \in Requests : request[r].do \in stages /\ request[r].folder = f
Placed(things, f, stages) == IF Emptied(f, stages) THEN late \cup things ELSE late \ things
PlacedFolders(set, f) == Placed({Of("folder", c) : c \in set}, f, {"remove"})
PlacedAssets(set, f) == Placed({Of("asset", a) : a \in set}, f, {"folders", "remove"})

Asked(r, what) == request[r] = Idle /\ request' = [request EXCEPT ![r] = what]
Done(r) == request' = [request EXCEPT ![r] = Idle]

-----------------------------------------------------------------------------
\* folder_create: the parent is read and checked, then the row is inserted; the
\* insert fails where the parent has gone or the name is taken by then.
BeginCreate(r, p) ==
  /\ p \in Live \cup {None}
  /\ MayHold(p)
  /\ Asked(r, [do |-> "create", folder |-> p])
  /\ UNCHANGED <<parent, holds, late, dropped, astray>>

Create(r, f) ==
  LET q == request[r] IN
  /\ q.do = "create" /\ parent[f] = Unused
  /\ \A g \in Folders : parent[g] = Unused => f <= g
  /\ Done(r)
  /\ \/ /\ q.folder \in Live \cup {None}
        /\ parent' = [parent EXCEPT ![f] = q.folder]
        /\ late' = PlacedFolders({f}, q.folder)
     \/ UNCHANGED <<parent, late>>
  /\ UNCHANGED <<holds, dropped, astray>>

\* asset_move, to a folder or to the root.
BeginMove(r, a, f) ==
  /\ f \in Live \cup {None}
  /\ Asked(r, [do |-> "move", asset |-> a, folder |-> f])
  /\ UNCHANGED <<parent, holds, late, dropped, astray>>

Move(r) ==
  LET q == request[r] IN
  /\ q.do = "move"
  /\ Done(r)
  /\ IF q.folder \in Live \cup {None}
     THEN /\ holds' = [holds EXCEPT ![q.asset] = q.folder]
          /\ late' = PlacedAssets({q.asset}, q.folder)
          /\ dropped' = dropped \ {Of("asset", q.asset)}
     ELSE UNCHANGED <<holds, late, dropped>>
  /\ UNCHANGED <<parent, astray>>

-----------------------------------------------------------------------------
(* folder_delete *)

\* The folder is read, and its parent with it.
BeginDelete(r, f) ==
  /\ f \in Live
  /\ Asked(r, [do |-> "assets", folder |-> f, to |-> parent[f]])
  /\ UNCHANGED <<parent, holds, late, dropped, astray>>

\* The request fails where the parent it read has gone.
Stopped(r) == request[r].to \notin Live \cup {None}

\* Its assets move up.
MoveAssets(r) ==
  LET q == request[r]
      moved == {a \in Assets : holds[a] = q.folder}
  IN
  /\ q.do = "assets"
  /\ IF Stopped(r) THEN Done(r) /\ UNCHANGED <<holds, late>>
     ELSE /\ request' = [request EXCEPT ![r].do = "folders"]
          /\ holds' = [a \in Assets |-> IF a \in moved THEN q.to ELSE holds[a]]
          /\ late' = PlacedAssets(moved, q.to)
  /\ UNCHANGED <<parent, dropped, astray>>

\* Its folders move up; one whose name is taken there stops the request, with
\* the assets moved and the folder still there.
MoveFolders(r) ==
  LET q == request[r]
      moved == In(q.folder)
  IN
  /\ q.do = "folders"
  /\ \/ /\ moved = {} \/ ~Stopped(r)
        /\ request' = [request EXCEPT ![r].do = "remove"]
        /\ parent' = [f \in Folders |-> IF f \in moved THEN q.to ELSE parent[f]]
        /\ late' = PlacedFolders(moved, q.to)
        /\ astray' = (astray \/ (moved # {} /\ parent[q.folder] # q.to))
     \/ /\ moved # {}
        /\ Done(r) /\ UNCHANGED <<parent, late, astray>>
  /\ UNCHANGED <<holds, dropped>>

\* The row goes, the folders in it by then go with it, and their assets are
\* left at the root.
Remove(r) ==
  LET q == request[r]
      gone == {q.folder} \cup Below(q.folder)
      in == {Of("folder", f) : f \in In(q.folder)}
              \cup {Of("asset", a) : a \in {a \in Assets : holds[a] = q.folder}}
  IN
  /\ q.do = "remove"
  /\ Done(r)
  /\ parent' = [f \in Folders |-> IF f \in gone THEN Gone ELSE parent[f]]
  /\ holds' = [a \in Assets |-> IF holds[a] \in gone THEN None ELSE holds[a]]
  /\ dropped' = dropped \cup in
  /\ UNCHANGED <<late, astray>>

Next ==
  \E r \in Requests :
    \/ \E p \in Folders \cup {None} : BeginCreate(r, p)
    \/ \E f \in Folders : Create(r, f)
    \/ \E a \in Assets, f \in Folders \cup {None} : BeginMove(r, a, f)
    \/ Move(r)
    \/ \E f \in Folders : BeginDelete(r, f)
    \/ MoveAssets(r) \/ MoveFolders(r) \/ Remove(r)

Spec == Init /\ [][Next]_vars

-----------------------------------------------------------------------------
(* Properties *)

\* Folders are at most three levels deep, although the check and the insert are
\* apart and deletions move folders meanwhile; unless a deletion moved folders
\* to the parent it had read, which its own folder had left by then.
ThreeLevels == astray \/ \A f \in Live : Level(f) <= 3

\* A deletion moves what a folder holds and destroys none of it: only what was
\* put into a folder while it was being emptied goes with it.
DeletionMovesUp == dropped \subseteq late

\* Every folder hangs on the root, and every asset is in a folder there is.
NothingHangsLoose ==
  /\ \A f \in Live : parent[f] \in Live \cup {None} /\ f \notin Above(f)
  /\ \A a \in Assets : holds[a] \in Live \cup {None}

=============================================================================
