--------------------------- MODULE MediaVersions ---------------------------
(***************************************************************************)
(* Processing a media asset and its edits                                   *)
(* (apps/media_library/views.py, tasks.py, services.py).  An upload, to a   *)
(* workspace or to the organization's shared library, inserts the row and   *)
(* then queues a task that reads the file's metadata.  An edit makes a      *)
(* MediaAssetVersion that shares the asset's file and queues a task that    *)
(* gives it a file of its own; restoring a version makes another one and    *)
(* puts its file into the asset.  One worker runs the tasks; a task it was  *)
(* killed in runs again.                                                    *)
(***************************************************************************)
EXTENDS Integers

CONSTANTS
  Editors,      \* requests that edit or restore
  MaxVersions,  \* bound: versions of the asset
  MaxKills      \* bound: the worker killed

None == -1
Process == 0                   \* the task of the upload; the others are edits
Original == 0                  \* the file uploaded; version n's own file is n
Numbers == 1..MaxVersions
Tasks == 0..MaxVersions
Files == 0..MaxVersions

VARIABLES
  status,    \* processing_status of the asset, None before the upload
  shared,    \* the asset is of the organization's library
  uploading, \* the upload has inserted the row and not queued the task
  file,      \* the asset's file
  thumb,     \* what the asset's thumbnail and size show: a file's
  version,   \* the file of each version that exists, in order of its number
  queue,     \* tasks: Process, or the version to edit
  running,   \* the task the worker runs
  base,      \* the file the running task reads
  numbered,  \* the number each request will give its version, and the file
  gone,      \* the asset is deleted
  kills

vars == <<status, shared, uploading, file, thumb, version, queue, running, base, numbered, gone, kills>>

NotEditing == [number |-> None, from |-> None, copy |-> Original]

TypeOK ==
  /\ status \in {"none", "pending", "processing", "completed", "failed"}
  /\ shared \in BOOLEAN /\ uploading \in BOOLEAN
  /\ file \in Files /\ thumb \in Files \cup {None}
  /\ version \in [Numbers -> Files \cup {None}]
  /\ queue \subseteq Tasks
  /\ running \in queue \cup {None}
  /\ base \in Files
  /\ numbered \in [Editors -> [number: Numbers \cup {None}, from: Numbers \cup {None}, copy: Files]]
  /\ gone \in BOOLEAN /\ kills \in 0..MaxKills

Init ==
  /\ status = "none" /\ shared = FALSE /\ uploading = FALSE /\ file = Original /\ thumb = None
  /\ version = [n \in Numbers |-> None]
  /\ queue = {} /\ running = None /\ base = Original
  /\ numbered = [e \in Editors |-> NotEditing]
  /\ gone = FALSE /\ kills = 0

Made == {n \in Numbers : version[n] # None}

-----------------------------------------------------------------------------
(* Requests *)

upload == <<status, shared, uploading>>

\* The row is inserted, then its task, for each of the files.
Insert(toShared) ==
  /\ status = "none"
  /\ status' = "pending" /\ shared' = toShared /\ uploading' = TRUE
  /\ UNCHANGED <<file, thumb, version, queue, running, base, numbered, gone, kills>>

Upload == Insert(FALSE)
SharedUpload == Insert(TRUE)

Enqueue ==
  /\ uploading
  /\ uploading' = FALSE /\ queue' = queue \cup {Process}
  /\ UNCHANGED <<status, shared, file, thumb, version, running, base, numbered, gone, kills>>

\* The request has read the asset, and create_version reads the newest
\* number; from: the version to restore.
Begin(e, from) ==
  /\ numbered[e] = NotEditing /\ status # "none" /\ ~gone
  /\ \E n \in Numbers \ Made :
       /\ \A k \in Numbers : k < n => k \in Made
       /\ numbered' = [numbered EXCEPT ![e] =
            [number |-> n, from |-> from, copy |-> IF from = None THEN file ELSE version[from]]]
  /\ UNCHANGED <<upload, file, thumb, version, queue, running, base, gone, kills>>

\* An image is cropped, rotated, flipped or resized, a video is trimmed; the
\* shared library's only through its own pages, which do not restore.
BeginEdit(e) == ~shared /\ Begin(e, None)
BeginSharedEdit(e) == shared /\ Begin(e, None)
BeginRestore(e, from) == ~shared /\ from \in Made /\ Begin(e, from)

\* The row is inserted; the unique pair of asset and number refuses the
\* second of two requests that read the same newest number.
InsertVersion(e) ==
  /\ numbered[e] # NotEditing
  /\ numbered' = [numbered EXCEPT ![e] = NotEditing]
  /\ LET n == numbered[e].number
         from == numbered[e].from
         copy == numbered[e].copy
     IN IF gone \/ n \in Made
        THEN UNCHANGED <<file, thumb, version, queue>>
        ELSE /\ version' = [version EXCEPT ![n] = copy]
             /\ IF from = None
                THEN queue' = queue \cup {n} /\ UNCHANGED <<file, thumb>>
                ELSE /\ file' = copy /\ UNCHANGED queue
                     /\ thumb' = IF copy = from THEN from ELSE None
  /\ UNCHANGED <<upload, running, base, gone, kills>>

\* The asset is deleted, and its versions with it.
DeleteRow ==
  /\ status # "none" /\ ~gone
  /\ gone' = TRUE
  /\ version' = [n \in Numbers |-> None]
  /\ UNCHANGED <<upload, file, thumb, queue, running, base, numbered, kills>>

Delete == ~shared /\ DeleteRow
SharedDelete == shared /\ DeleteRow

-----------------------------------------------------------------------------
(* The worker *)

\* A task reads its row, and process_media_asset saves that it began.
Start(t) ==
  /\ running = None /\ t \in queue /\ ~gone
  /\ running' = t /\ base' = file
  /\ status' = IF t = Process THEN "processing" ELSE status
  /\ UNCHANGED <<shared, uploading, file, thumb, version, queue, numbered, gone, kills>>

\* Its row is gone: nothing to do.
Skip(t) ==
  /\ running = None /\ t \in queue /\ gone
  /\ queue' = queue \ {t}
  /\ UNCHANGED <<upload, file, thumb, version, running, base, numbered, gone, kills>>

Finish == running' = None /\ queue' = queue \ {running}

\* The metadata and the thumbnail of the file read are saved; the edited
\* file becomes the version's own, and the asset shows it.
Succeed ==
  /\ running # None /\ ~gone
  /\ Finish
  /\ IF running = Process
     THEN status' = "completed" /\ thumb' = base /\ UNCHANGED version
     ELSE /\ version' = [version EXCEPT ![running] = running]
          /\ thumb' = running /\ UNCHANGED status
  /\ UNCHANGED <<shared, uploading, file, base, numbered, gone, kills>>

\* An exception is caught; that the asset is gone raises again where the
\* upload's status is saved, and that task is run once more.
Fail ==
  /\ running # None
  /\ IF gone /\ running = Process THEN running' = None /\ UNCHANGED queue ELSE Finish
  /\ status' = IF running = Process THEN "failed" ELSE status
  /\ UNCHANGED <<shared, uploading, file, thumb, version, base, numbered, gone, kills>>

Kill ==
  /\ running # None /\ kills < MaxKills
  /\ kills' = kills + 1
  /\ running' = None
  /\ UNCHANGED <<upload, file, thumb, version, queue, base, numbered, gone>>

\* The web worker is killed between the row and its task.
KillUpload ==
  /\ uploading /\ kills < MaxKills
  /\ kills' = kills + 1
  /\ uploading' = FALSE
  /\ UNCHANGED <<status, shared, file, thumb, version, queue, running, base, numbered, gone>>

Next ==
  \/ Upload \/ SharedUpload \/ Enqueue \/ KillUpload
  \/ \E e \in Editors :
       \/ BeginEdit(e) \/ BeginSharedEdit(e) \/ InsertVersion(e)
       \/ \E n \in Numbers : BeginRestore(e, n)
  \/ \E t \in Tasks : Start(t) \/ Skip(t)
  \/ Delete \/ SharedDelete \/ Succeed \/ Fail \/ Kill

\* The worker takes its tasks, and a task ends.
WorkerStep == Succeed \/ Fail \/ \E t \in Tasks : Start(t)
Fairness == WF_vars(WorkerStep)

Spec == Init /\ [][Next]_vars /\ Fairness

-----------------------------------------------------------------------------
\* An upload whose task was queued does not stay in processing: unless it is
\* deleted, its metadata ends as completed or failed, although the worker is
\* killed on the way.  An upload killed before its task was queued stays
\* pending.
Queued == Process \in queue
Processed == gone \/ status \in {"completed", "failed"}
ProcessingEnds == Queued ~> Processed
=============================================================================
