----------------------------- MODULE CsvImport -----------------------------
(***************************************************************************)
(* The import of posts from a CSV file (apps/composer/views.py): a page    *)
(* uploads the file, maps and previews its columns, and confirms.  The     *)
(* rows and the mapping wait in the session, which every request loads     *)
(* when it begins and writes back whole when it ends; each row is a post   *)
(* of its own, without a transaction.                                      *)
(***************************************************************************)
EXTENDS Naturals, FiniteSets, Sequences

CONSTANTS Files,      \* files uploaded; the mapping made for one is named as the file
          Requests,   \* requests at work at one time
          None,
          NumRows,    \* bound: rows of a file
          MaxConfirms \* bound: imports begun in a behaviour

VARIABLES
  session,   \* the file and the mapping that wait
  request,   \* requests at work, each with the session it loaded
  uploaded,  \* files uploaded
  post,      \* posts made: the file, the row, the mapping
  confirms,  \* history: imports begun
  flow,      \* history: what the user did last, one answer after another
  mixed      \* history: files imported beside another request, or by one that was killed

vars == <<session, request, uploaded, post, confirms, flow, mixed>>

Empty == [file |-> None, mapping |-> None]
Sessions == [file : Files \cup {None}, mapping : Files \cup {None}]
Idle == [kind |-> None, session |-> Empty, file |-> None, row |-> 0]
Nothing == [step |-> None, file |-> None]

TypeOK ==
  /\ session \in Sessions /\ uploaded \subseteq Files /\ mixed \subseteq Files
  /\ \A r \in Requests : request[r].session \in Sessions /\ request[r].row \in 0..NumRows + 1
  /\ \A n \in DOMAIN post : post[n].row \in 1..NumRows
  /\ confirms \in 0..MaxConfirms

Init ==
  /\ session = Empty /\ request = [r \in Requests |-> Idle] /\ uploaded = {} /\ post = <<>>
  /\ confirms = 0 /\ flow = Nothing /\ mixed = {}

Busy == {r \in Requests : request[r].kind # None}
Importing == {request[r].file : r \in {q \in Busy : request[q].kind = "confirm"}}

Begin(r, rec) ==
  /\ request[r].kind = None /\ r = CHOOSE q \in Requests \ Busy : TRUE
  /\ request' = [request EXCEPT ![r] = rec]
  /\ flow' = IF Busy = {} THEN flow ELSE Nothing
  /\ mixed' = mixed \cup Importing \cup
       IF rec.kind = "confirm" /\ Busy # {} THEN {rec.file} ELSE {}
  /\ UNCHANGED <<session, post>>

\* csv_upload: the rows wait; an earlier mapping goes on waiting.
Upload(r, f) ==
  /\ f \notin uploaded /\ uploaded' = uploaded \cup {f}
  /\ Begin(r, [Idle EXCEPT !.kind = "upload", !.file = f, !.session = [session EXCEPT !.file = f]])
  /\ UNCHANGED confirms

Mapped(waiting, f) == [waiting EXCEPT !.mapping = f]

\* csv_preview, with the mapping of the page of any file.
Preview(r, f) ==
  /\ f \in uploaded /\ session.file # None
  /\ Begin(r, [Idle EXCEPT !.kind = "preview", !.file = f, !.session = Mapped(session, f)])
  /\ UNCHANGED <<uploaded, confirms>>

\* csv_confirm_import: of what waits, whatever the preview found.
Confirm(r) ==
  /\ session.file # None /\ session.mapping # None /\ confirms < MaxConfirms
  /\ confirms' = confirms + 1
  /\ Begin(r, [Idle EXCEPT !.kind = "confirm", !.file = session.file, !.row = 1,
                           !.session = session])
  /\ UNCHANGED uploaded

View(r) == Begin(r, [Idle EXCEPT !.kind = "view", !.session = session])
           /\ UNCHANGED <<uploaded, confirms>>

\* A row becomes a post, a draft or scheduled, with the children of its
\* platforms; or it cannot be read; or what follows the save of the post fails.
ImportRow(r) ==
  /\ request[r].kind = "confirm" /\ request[r].row <= NumRows
  /\ request' = [request EXCEPT ![r].row = @ + 1]
  /\ \/ post' = Append(post, [file |-> request[r].file, row |-> request[r].row,
                              mapping |-> request[r].session.mapping,
                              straight |-> flow = [step |-> "preview", file |-> request[r].file]])
     \/ post' = post
  /\ UNCHANGED <<session, uploaded, confirms, flow, mixed>>

\* What the import leaves of the session.
Left(r) == IF request[r].kind = "confirm" THEN Empty ELSE request[r].session

\* What the user did last, when one request followed the answer to another.
Followed(r) ==
  LET q == request[r] IN
  IF Cardinality(Busy) > 1 \/ q.kind = "confirm" THEN Nothing ELSE
  IF q.kind = "upload" THEN [step |-> "upload", file |-> q.file] ELSE
  IF q.kind = "preview" /\ flow.file = q.file THEN [flow EXCEPT !.step = "preview"] ELSE
  IF q.kind = "preview" THEN Nothing ELSE flow

End(r) ==
  /\ r \in Busy /\ (request[r].kind = "confirm" => request[r].row = NumRows + 1)
  /\ session' = Left(r) /\ flow' = Followed(r) /\ request' = [request EXCEPT ![r] = Idle]
  /\ UNCHANGED <<uploaded, post, confirms, mixed>>

\* The web worker is killed: the session stays as it was.
Kill(r) ==
  /\ r \in Busy /\ request' = [request EXCEPT ![r] = Idle] /\ flow' = Nothing
  /\ mixed' = IF request[r].kind = "confirm" THEN mixed \cup {request[r].file} ELSE mixed
  /\ UNCHANGED <<session, uploaded, post, confirms>>

Next ==
  \E r \in Requests :
    \/ Confirm(r) \/ View(r) \/ ImportRow(r) \/ End(r) \/ Kill(r)
    \/ \E f \in Files : Upload(r, f) \/ Preview(r, f)

Spec == Init /\ [][Next]_vars

-----------------------------------------------------------------------------
\* A row of a file becomes one post at most, unless another request of the
\* browser was at work beside the import, or it was killed and made again.
RowsImportedOnce ==
  \A n, k \in DOMAIN post :
    post[n].file = post[k].file /\ post[n].row = post[k].row /\ n # k => post[n].file \in mixed

\* An import confirmed after the file's upload and preview, one answer after
\* another, reads the file with the mapping that was previewed.
ImportsWhatWasPreviewed == \A n \in DOMAIN post : post[n].straight => post[n].mapping = post[n].file
=============================================================================
