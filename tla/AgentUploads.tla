---------------------------- MODULE AgentUploads ----------------------------
(***************************************************************************)
(* The uploads of an agent: POST /api/v1/media/ with an idempotency key     *)
(* (apps/api/routers/media.py), and MCP's upload_media, which has none      *)
(* (apps/mcp/handlers.py).  Only the creation of the asset releases the     *)
(* claim when it fails: a folder that is gone, or a task that cannot be     *)
(* queued, leaves the key in flight until the sweep.                        *)
(***************************************************************************)
EXTENDS Naturals

CONSTANTS Requests, Keys

NoKey == "nokey"
Uploads == [key : Keys \cup {NoKey}, folder : BOOLEAN]
NoReply == [code |-> "none", asset |-> "none"]
NoClaim == [print |-> FALSE, answer |-> "none"]

VARIABLES
  upload,   \* each request: its key, or none as with MCP; into a folder or not
  at,       \* where its handler is
  reply,    \* its answer; an asset is named by the request that stores it
  claim,    \* the IdempotencyRecord of each key
  folder,   \* the folder is there
  kept,     \* requests whose asset is stored
  queued,   \* those whose processing is queued
  swept,    \* history: the day's sweep has been
  since     \* history: requests that stored after it

vars == <<upload, at, reply, claim, folder, kept, queued, swept, since>>
asset == <<kept, queued, since>>
day == <<folder, swept>>

Places == {"idle", "taken", "claimed", "placed", "stored", "queued", "done", "killed"}

TypeOK ==
  /\ upload \in [Requests -> Uploads] /\ at \in [Requests -> Places]
  /\ reply \in [Requests -> [code : {"none", "created", "replayed", "invalid", "busy", "lost", "error"},
                             asset : Requests \cup {"none"}]]
  /\ claim \in [Keys -> [print : BOOLEAN, answer : {"none", "pending"} \cup Requests]]
  /\ folder \in BOOLEAN /\ swept \in BOOLEAN
  /\ queued \subseteq kept /\ kept \subseteq Requests /\ since \subseteq kept

Init ==
  /\ upload \in [Requests -> Uploads]
  /\ at = [r \in Requests |-> "idle"] /\ reply = [r \in Requests |-> NoReply]
  /\ claim = [k \in Keys |-> NoClaim]
  /\ folder = TRUE /\ swept = FALSE
  /\ kept = {} /\ queued = {} /\ since = {}

Key(r) == upload[r].key
Keyed(r) == Key(r) # NoKey
InFlight(r) == at[r] \notin {"idle", "done", "killed"}
Go(r, to) == at' = [at EXCEPT ![r] = to] /\ UNCHANGED reply
Answer(r, code, a) ==
  /\ at' = [at EXCEPT ![r] = "done"]
  /\ reply' = [reply EXCEPT ![r] = [code |-> code, asset |-> a]]

\* release_idempotent_claim
Released(r) ==
  IF Keyed(r) /\ claim[Key(r)].answer = "pending"
  THEN [claim EXCEPT ![Key(r)] = NoClaim] ELSE claim

\* upload claims its key; MCP's tool has nothing to claim.
Claim(r) ==
  /\ at[r] = "idle"
  /\ IF Keyed(r) /\ claim[Key(r)] # NoClaim
     THEN Go(r, "taken") /\ UNCHANGED claim
     ELSE /\ Go(r, "claimed")
          /\ claim' = IF Keyed(r)
                      THEN [claim EXCEPT ![Key(r)] = [print |-> upload[r].folder, answer |-> "pending"]]
                      ELSE claim
  /\ UNCHANGED <<upload, asset, day>>

LookUp(r) ==
  /\ at[r] = "taken"
  /\ LET row == claim[Key(r)] IN
       \/ row = NoClaim /\ Answer(r, "error", "none")
       \/ row # NoClaim /\ row.print # upload[r].folder /\ Answer(r, "invalid", "none")
       \/ row.answer = "pending" /\ row.print = upload[r].folder /\ Answer(r, "busy", "none")
       \/ row.answer \in Requests /\ row.print = upload[r].folder /\ Answer(r, "replayed", row.answer)
  /\ UNCHANGED <<upload, claim, asset, day>>

\* A folder that is not there is a 404, and the claim stays.
FindFolder(r) ==
  /\ at[r] = "claimed"
  /\ IF upload[r].folder /\ ~folder THEN Answer(r, "lost", "none") ELSE Go(r, "placed")
  /\ UNCHANGED <<upload, claim, asset, day>>

\* create_asset saves the file and its row ...
Store(r) ==
  /\ at[r] = "placed" /\ (upload[r].folder => folder)
  /\ Go(r, "stored")
  /\ kept' = kept \cup {r} /\ since' = IF swept THEN since \cup {r} ELSE since
  /\ UNCHANGED <<upload, claim, queued, day>>

\* ... or refuses: the type of the file, the quota, a folder that went.
StoreRefused(r) ==
  /\ at[r] = "placed"
  /\ claim' = Released(r) /\ Answer(r, "invalid", "none")
  /\ UNCHANGED <<upload, asset, day>>

\* process_media_asset is queued.
Enqueue(r) ==
  /\ at[r] = "stored"
  /\ Go(r, "queued") /\ queued' = queued \cup {r}
  /\ UNCHANGED <<upload, claim, kept, since, day>>

\* finalize_idempotent_response stores the answer, and the client gets it.
Finalize(r) ==
  /\ at[r] = "queued" /\ Answer(r, "created", r)
  /\ claim' = IF Keyed(r) /\ claim[Key(r)] # NoClaim
              THEN [claim EXCEPT ![Key(r)].answer = r] ELSE claim
  /\ UNCHANGED <<upload, asset, day>>

\* What raises after the asset is stored raises to the client, and the claim
\* stays.
FailLate(r) ==
  /\ at[r] \in {"stored", "queued"} /\ Answer(r, "error", "none")
  /\ UNCHANGED <<upload, claim, asset, day>>

UploadMedia(r) ==
  \/ Claim(r) \/ FindFolder(r) \/ Store(r) \/ StoreRefused(r) \/ Enqueue(r) \/ Finalize(r)
  \/ FailLate(r)

Kill(r) ==
  /\ InFlight(r) /\ at' = [at EXCEPT ![r] = "killed"]
  /\ UNCHANGED <<upload, reply, claim, asset, day>>

DeleteFolder ==
  /\ folder /\ folder' = FALSE
  /\ UNCHANGED <<upload, at, reply, claim, asset, swept>>

\* A day later the sweep removes the records, pending ones too.
Sweep ==
  /\ ~swept /\ swept' = TRUE /\ \A r \in Requests : ~InFlight(r)
  /\ claim' = [k \in Keys |-> NoClaim]
  /\ UNCHANGED <<upload, at, reply, folder, asset>>

Next ==
  \/ \E r \in Requests : UploadMedia(r) \/ LookUp(r) \/ Kill(r)
  \/ DeleteFolder \/ Sweep

Spec == Init /\ [][Next]_vars

-----------------------------------------------------------------------------
\* Retries under one key store one file until the sweep forgets the key,
\* wherever a worker is killed or fails.
StoredOnce ==
  \A r, s \in kept : r # s /\ Keyed(r) /\ Key(r) = Key(s) => (r \in since) # (s \in since)

\* An asset that an agent was told of will be processed, told by a replay too,
\* and the replay is of the same upload.
ToldIsProcessed ==
  \A r \in Requests : reply[r].asset # "none" =>
    /\ reply[r].asset \in queued
    /\ upload[reply[r].asset].key = Key(r) /\ upload[reply[r].asset].folder = upload[r].folder
=============================================================================
