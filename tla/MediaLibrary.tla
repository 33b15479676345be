---------------------------- MODULE MediaLibrary ----------------------------
(***************************************************************************)
(* Media assets and their stored objects                                    *)
(* (apps/media_library/services.py, apps/mcp/handlers.py).  An asset is      *)
(* uploaded through a web worker, or an agent asks for a PendingUpload,      *)
(* puts the bytes into the object store itself and then finalizes.          *)
(* Finalizing inspects the object without a lock and registers the asset    *)
(* under the row's lock.  Users delete assets, and two sweeps of the        *)
(* background worker delete expired uploads and unreferenced assets.        *)
(*                                                                         *)
(* Every file counts one unit of the organization's storage quota.          *)
(***************************************************************************)
EXTENDS Naturals, FiniteSets

CONSTANTS
  Uploads,    \* storage keys: presigned ones, and files sent to a web worker
  Presigned,  \* the keys an agent's PendingUpload may be presigned for
  Assets,     \* rows that can come to exist
  Calls,      \* requests: finalizations, uploads and deletions
  Quota       \* resolve_storage_quota

None == "none"
NoAsset == [file |-> None, refs |-> "none", old |-> FALSE]
NoPending == [state |-> "absent", expired |-> FALSE, asset |-> None]

VARIABLES
  pending,  \* the PendingUpload of each presigned key
  stored,   \* objects in the store
  asset,    \* the MediaAsset rows: file, the posts that use it, age over 14 days
  call,     \* each request: its step and what it works on
  reaping,  \* keys sweep_pending_uploads read and has not deleted
  orphans,  \* assets sweep_orphaned_media listed and has not deleted
  fresh,    \* asset rows never inserted
  apart     \* history: no two operations overlapped on a file

vars == <<pending, stored, asset, call, reaping, orphans, fresh, apart>>

References == {"none", "draft", "scheduled"}
IdleCall == [step |-> "idle", on |-> None]

TypeOK ==
  /\ pending \in [Presigned ->
       [state: {"absent", "open", "finalized", "deleted"}, expired: BOOLEAN,
        asset: Assets \cup {None}]]
  /\ stored \subseteq Uploads
  /\ asset \in [Assets -> [file: Uploads \cup {None}, refs: References, old: BOOLEAN]]
  /\ call \in [Calls -> [step: {"idle", "looked", "inspected", "vetted", "checked", "emptied"},
                         on: Uploads \cup Assets \cup {None}]]
  /\ reaping \subseteq Presigned /\ orphans \subseteq Assets /\ fresh \subseteq Assets
  /\ apart \in BOOLEAN

Init ==
  /\ pending = [k \in Presigned |-> NoPending]
  /\ stored = {}
  /\ asset = [a \in Assets |-> NoAsset]
  /\ call = [c \in Calls |-> IdleCall]
  /\ reaping = {} /\ orphans = {} /\ fresh = Assets
  /\ apart = TRUE

Live(a) == asset[a].file # None
Used == Cardinality({a \in Assets : Live(a)})     \* used_storage_bytes

\* The keys some unfinished operation works on.
Touched == {asset[call[c].on].file : c \in {d \in Calls : call[d].on \in Assets}}
           \cup {call[c].on : c \in Calls} \cup reaping \cup {asset[a].file : a \in orphans}
Work(k) == apart' = (apart /\ k \notin Touched)

At(c, s) == call[c].step = s
To(c, s, x) == call' = [call EXCEPT ![c] = [step |-> s, on |-> x]]
End(c) == call' = [call EXCEPT ![c] = IdleCall]
NewAsset == CHOOSE a \in fresh : TRUE
Insert(k) ==
  /\ fresh # {}
  /\ fresh' = fresh \ {NewAsset}
  /\ asset' = [asset EXCEPT ![NewAsset] = [file |-> k, refs |-> "none", old |-> FALSE]]

-----------------------------------------------------------------------------
(* Presigned uploads *)

\* request_media_upload: the row, and a POST policy for the key.
Request(k) ==
  /\ pending[k].state = "absent"
  /\ pending' = [pending EXCEPT ![k].state = "open"]
  /\ UNCHANGED <<stored, asset, call, reaping, orphans, fresh, apart>>

\* The agent sends the bytes while the policy is valid.
Put(k) ==
  /\ pending[k].state # "absent" /\ ~pending[k].expired
  /\ stored' = stored \cup {k}
  /\ UNCHANGED <<pending, asset, call, reaping, orphans, fresh, apart>>

Expire(k) ==
  /\ pending[k].state # "absent" /\ ~pending[k].expired
  /\ pending' = [pending EXCEPT ![k].expired = TRUE]
  /\ UNCHANGED <<stored, asset, call, reaping, orphans, fresh, apart>>

\* finalize_media_upload reads the row: a finalized upload is answered with
\* its asset, an expired one is refused.
Look(c, k) ==
  /\ At(c, "idle")
  /\ pending[k].state = "open" /\ ~pending[k].expired
  /\ To(c, "looked", k) /\ Work(k)
  /\ UNCHANGED <<pending, stored, asset, reaping, orphans, fresh>>

\* inspect_uploaded_object, without the lock: a missing object is an error,
\* a full quota deletes the object.
Inspect(c) ==
  /\ At(c, "looked")
  /\ LET k == call[c].on IN
       CASE k \notin stored -> End(c) /\ UNCHANGED stored
         [] k \in stored /\ Used >= Quota -> End(c) /\ stored' = stored \ {k}
         [] OTHER -> To(c, "inspected", k) /\ UNCHANGED stored
  /\ UNCHANGED <<pending, asset, reaping, orphans, fresh, apart>>

\* Mutant: the row is not read again under the lock.
Register_NoRecheck(c) ==
  /\ At(c, "inspected") /\ End(c)
  /\ LET k == call[c].on IN
       IF pending[k].state = "deleted"
       THEN UNCHANGED <<pending, asset, fresh>>
       ELSE /\ Insert(k)
            /\ pending' = [pending EXCEPT ![k].state = "finalized", ![k].asset = NewAsset]
  /\ UNCHANGED <<stored, reaping, orphans, apart>>

\* Under the row's lock: a finalization that won is answered with its asset;
\* otherwise the asset is registered and the upload finalized.  A row the
\* sweep has deleted is an error.
Register(c) ==
  /\ At(c, "inspected") /\ End(c)
  /\ LET k == call[c].on IN
       IF pending[k].state = "deleted"
          \/ (pending[k].state = "finalized" /\ pending[k].asset # None)
       THEN UNCHANGED <<pending, asset, fresh>>
       ELSE /\ Insert(k)
            /\ pending' = [pending EXCEPT ![k].state = "finalized", ![k].asset = NewAsset]
  /\ UNCHANGED <<stored, reaping, orphans, apart>>

-----------------------------------------------------------------------------
(* Uploads through a web worker: create_asset *)

\* validate_file and enforce_storage_quota.
Vet(c, k) ==
  /\ At(c, "idle") /\ k \in Uploads \ (Presigned \cup stored)
  /\ \A d \in Calls : call[d].on # k       \* storage names are unique
  /\ \A a \in Assets : asset[a].file # k
  /\ Used < Quota
  /\ To(c, "vetted", k)
  /\ UNCHANGED <<pending, stored, asset, reaping, orphans, fresh, apart>>

\* asset.save writes the file and then the row.
Save(c) ==
  /\ At(c, "vetted") /\ End(c)
  /\ stored' = stored \cup {call[c].on}
  /\ Insert(call[c].on)
  /\ UNCHANGED <<pending, reaping, orphans, apart>>

-----------------------------------------------------------------------------
(* Posts that use an asset *)

Refer(a, r) ==
  /\ Live(a) /\ asset[a].refs # r
  /\ asset' = [asset EXCEPT ![a].refs = r]
  /\ UNCHANGED <<pending, stored, call, reaping, orphans, fresh, apart>>

Age(a) ==
  /\ Live(a) /\ ~asset[a].old
  /\ asset' = [asset EXCEPT ![a].old = TRUE]
  /\ UNCHANGED <<pending, stored, call, reaping, orphans, fresh, apart>>

-----------------------------------------------------------------------------
(* Deletion: delete_asset of a user's request *)

\* _check_post_references
Check(c, a) ==
  /\ At(c, "idle") /\ Live(a)
  /\ asset[a].refs # "scheduled"
  /\ To(c, "checked", a) /\ Work(asset[a].file)
  /\ UNCHANGED <<pending, stored, asset, reaping, orphans, fresh>>

\* The files go first ...
Empty(c) ==
  /\ At(c, "checked")
  /\ To(c, "emptied", call[c].on)
  /\ stored' = stored \ {asset[call[c].on].file}
  /\ UNCHANGED <<pending, asset, reaping, orphans, fresh, apart>>

Unlinked(a) == [k \in Presigned |-> IF pending[k].asset = a
                                    THEN [pending[k] EXCEPT !.asset = None] ELSE pending[k]]

\* ... then the row; an upload that made it keeps finalized_at.
Remove(c) ==
  /\ At(c, "emptied") /\ End(c)
  /\ asset' = [asset EXCEPT ![call[c].on] = NoAsset]
  /\ pending' = Unlinked(call[c].on)
  /\ UNCHANGED <<stored, reaping, orphans, fresh, apart>>

-----------------------------------------------------------------------------
(* The sweeps *)

\* sweep_pending_uploads reads the expired uploads nobody finalized ...
ReadExpired ==
  /\ reaping = {}
  /\ reaping' = {k \in Presigned : pending[k].state = "open" /\ pending[k].expired}
  /\ reaping' # {}
  /\ apart' = (apart /\ reaping' \cap Touched = {})
  /\ UNCHANGED <<pending, stored, asset, call, orphans, fresh>>

\* ... and deletes the object and the row of each.
Reap(k) ==
  /\ k \in reaping
  /\ reaping' = reaping \ {k}
  /\ stored' = stored \ {k}
  /\ pending' = [pending EXCEPT ![k].state = "deleted", ![k].asset = None]
  /\ UNCHANGED <<asset, call, orphans, fresh, apart>>

\* sweep_orphaned_media lists the old assets no post, idea or template uses.
ListOrphans ==
  /\ orphans = {}
  /\ orphans' = {a \in Assets : Live(a) /\ asset[a].old /\ asset[a].refs = "none"}
  /\ orphans' # {}
  /\ apart' = (apart /\ {asset[a].file : a \in orphans'} \cap Touched = {})
  /\ UNCHANGED <<pending, stored, asset, call, reaping, fresh>>

\* delete_asset of one of them: skipped if a scheduled post uses it by now.
DeleteOrphan(a) ==
  /\ a \in orphans
  /\ orphans' = orphans \ {a}
  /\ IF asset[a].refs = "scheduled"
     THEN UNCHANGED <<stored, asset, pending>>
     ELSE /\ stored' = stored \ {asset[a].file}
          /\ asset' = [asset EXCEPT ![a] = NoAsset]
          /\ pending' = Unlinked(a)
  /\ UNCHANGED <<call, reaping, fresh, apart>>

Next ==
  \/ \E k \in Presigned : Request(k) \/ Put(k) \/ Expire(k) \/ Reap(k)
  \/ \E c \in Calls :
       \/ \E k \in Presigned : Look(c, k)
       \/ \E k \in Uploads : Vet(c, k)
       \/ \E a \in Assets : Check(c, a)
       \/ Inspect(c) \/ Register(c) \/ Save(c) \/ Empty(c) \/ Remove(c)
  \/ \E a \in Assets : (\E r \in References : Refer(a, r)) \/ Age(a) \/ DeleteOrphan(a)
  \/ ReadExpired \/ ListOrphans

Spec == Init /\ [][Next]_vars

-----------------------------------------------------------------------------
\* handlers.py, "never mint a second": however many finalizations of an
\* upload inspect it at once, at most one living asset owns its object.
OneAssetPerObject ==
  \A a, b \in Assets : (a # b /\ Live(a)) => asset[a].file # asset[b].file

\* An asset's file exists until a deletion of that asset has begun, unless
\* operations on the file overlapped: a finalization that a full quota or the
\* sweep overtakes deletes the object of the one that won.
AssetKeepsItsFile ==
  apart => \A a \in Assets :
    (Live(a) /\ \A c \in Calls : call[c] # [step |-> "emptied", on |-> a]) =>
      asset[a].file \in stored
=============================================================================
