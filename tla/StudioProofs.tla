---------------------------- MODULE StudioProofs ----------------------------
(***************************************************************************)
(* What MCStudio's parts promise, for any workers, requests, pages, files, *)
(* folders, posts and zones: what members work on is kept, and what they   *)
(* look at is true.  Each part has its own inductive invariant; a step of  *)
(* the whole is one of each part or leaves it alone (EachPart).            *)
(***************************************************************************)
EXTENDS MCStudio, Sequences, FiniteSetTheorems, WellFoundedInduction, TLAPS
-----------------------------------------------------------------------------
(* The import of a file: what waits in the session, and what the requests   *)
(* that loaded it will write back.                                         *)

Sessions == [file : Sheets \cup {Nil}, mapping : Sheets \cup {Nil}]
CsvKinds == {"upload", "preview", "confirm", "view", Nil}
CsvCalls == [kind : CsvKinds, session : Sessions, file : Sheets \cup {Nil}, row : 0..(NumRows + 1)]
Rows == [file : Sheets, row : 1..NumRows, mapping : Sheets, straight : BOOLEAN]
Steps == [step : {Nil, "upload", "preview"}, file : Sheets \cup {Nil}]

CsvTyped ==
  /\ waiting \in Sessions /\ importing \in [Requests -> CsvCalls] /\ uploaded \subseteq Sheets
  /\ imported \in Seq(Rows) /\ confirms \in 0..MaxConfirms /\ flow \in Steps /\ mixed \subseteq Sheets

\* A file waits, or is imported, that was uploaded.
Sent ==
  /\ waiting.file \in uploaded \cup {Nil}
  /\ \A r \in Requests : importing[r].session.file \in uploaded \cup {Nil}
  /\ \A n \in DOMAIN imported : imported[n].file \in uploaded

\* An import works on what its request loaded.
Works(r) ==
  importing[r].kind = "confirm" =>
    /\ importing[r].file = importing[r].session.file /\ importing[r].file \in Sheets
    /\ importing[r].session.mapping \in Sheets /\ importing[r].row > 0

\* An import of an unmixed file is alone, and has made posts of the rows before
\* its own only; when it has ended, nobody has the file in hand.
Alone(r) ==
  importing[r].kind = "confirm" /\ importing[r].file \notin mixed =>
    /\ \A q \in Requests : importing[q].kind # Nil => q = r
    /\ \A n \in DOMAIN imported :
         imported[n].file = importing[r].file => imported[n].row < importing[r].row
Over(n) ==
  \/ imported[n].file \in mixed
  \/ \E r \in Requests : importing[r].kind = "confirm" /\ importing[r].file = imported[n].file
  \/ /\ waiting.file # imported[n].file
     /\ \A r \in Requests : importing[r].session.file # imported[n].file

\* While one answer follows another, the session is what the user saw of it.
Shown ==
  IF flow.step = Nil THEN flow.file = Nil ELSE
    /\ flow.file \in Sheets /\ waiting.file = flow.file
    /\ flow.step = "preview" => waiting.mapping = flow.file
    /\ \A r, q \in Requests : importing[r].kind # Nil /\ importing[q].kind # Nil => r = q
    /\ \A r \in Requests :
         /\ importing[r].kind \in {"confirm", "view"} => importing[r].session = waiting
         /\ importing[r].kind = "preview" =>
              importing[r].session.file = waiting.file
              /\ importing[r].session.mapping = importing[r].file

CsvInv ==
  /\ CsvTyped /\ Sent
  /\ \A r \in Requests :
       /\ Works(r) /\ Alone(r)
       /\ importing[r].kind = Nil => importing[r] = Import!Idle
       /\ importing[r].kind \in {"upload", "preview"} => importing[r].file \in Sheets
       /\ importing[r].kind = "upload" => importing[r].session.file = importing[r].file
       /\ importing[r].kind = "preview" => importing[r].session.mapping = importing[r].file
  /\ \A n \in DOMAIN imported : Over(n)
  /\ Shown
  /\ Import!RowsImportedOnce /\ Import!ImportsWhatWasPreviewed

LEMMA CsvIdle ==
  /\ Import!Idle \in CsvCalls /\ Import!Idle.kind = Nil /\ Import!Idle.session = Import!Empty
  /\ Import!Empty \in Sessions /\ Import!Empty.file = Nil /\ Import!Nothing \in Steps /\ Import!Nothing.step = Nil /\ Import!Nothing.file = Nil
BY BoundAssumption DEF Import!Idle, Import!Empty, Import!Nothing, CsvCalls, Sessions, Steps, CsvKinds

LEMMA ImportCount == ASSUME NEW S PROVE Import!Cardinality(S) = Cardinality(S)
BY SMT DEF Import!Cardinality, Cardinality

LEMMA Absent ==
  /\ Nil \notin Sheets
  /\ Nil \notin {"upload", "preview", "confirm", "view"}
  /\ Nil \notin {"create", "edit", "move", "convert", "delete", "board", "addColumn", "deleteColumn", "reorder"}
BY NoneAssumption

LEMMA CsvInit == Import!Init => CsvInv
<1> SUFFICES ASSUME Import!Init PROVE CsvInv
  OBVIOUS
<1>1. /\ waiting = Import!Empty /\ importing = [r \in Requests |-> Import!Idle] /\ uploaded = {}
      /\ imported = <<>> /\ confirms = 0 /\ flow = Import!Nothing /\ mixed = {}
  BY DEF Import!Init
<1>2. CsvTyped
  BY <1>1, CsvIdle, BoundAssumption DEF CsvTyped
<1>3. \A r \in Requests : importing[r] = Import!Idle
  BY <1>1
<1>4. DOMAIN imported = {}
  BY <1>1
<1> QED BY <1>1, <1>2, <1>3, <1>4, CsvIdle, Absent
        DEF CsvInv, Sent, Works, Alone, Over, Shown, Import!RowsImportedOnce, Import!ImportsWhatWasPreviewed

LEMMA CsvTypes ==
  ASSUME CsvInv
  PROVE  /\ waiting \in Sessions /\ importing \in [Requests -> CsvCalls] /\ uploaded \subseteq Sheets
         /\ imported \in Seq(Rows) /\ confirms \in 0..MaxConfirms /\ flow \in Steps /\ mixed \subseteq Sheets
         /\ \A n \in DOMAIN imported : imported[n] \in Rows
         /\ Import!Busy = {r \in Requests : importing[r].kind # Nil}
BY DEF CsvInv, CsvTyped, Import!Busy

\* A request that begins loads the session, or what it will make of it.
LEMMA CsvBegins ==
  ASSUME CsvInv, NEW r \in Requests, NEW rec \in CsvCalls, Import!Begin(r, rec),
         rec.kind # Nil, uploaded \subseteq uploaded', uploaded' \subseteq Sheets,
         confirms' \in 0..MaxConfirms,
         rec.session.file \in uploaded' \cup {Nil},
         rec.session.file = waiting.file \/ rec.session.file \in uploaded' \ uploaded,
         rec.kind = "confirm" => /\ rec.file = waiting.file /\ rec.session = waiting /\ rec.row = 1
                                 /\ rec.file \in Sheets /\ rec.session.mapping \in Sheets,
         rec.kind = "view" => rec.session = waiting,
         rec.kind = "upload" => rec.file \in Sheets /\ rec.session.file = rec.file,
         rec.kind = "preview" => /\ rec.file \in Sheets /\ rec.session.file = waiting.file
                                 /\ rec.session.mapping = rec.file
  PROVE  CsvInv'
<1> DEFINE importing1 == [importing EXCEPT ![r] = rec]
<1>1. /\ importing[r].kind = Nil /\ importing' = importing1 /\ waiting' = waiting /\ imported' = imported
      /\ flow' = IF Import!Busy = {} THEN flow ELSE Import!Nothing
      /\ mixed' = mixed \cup Import!Importing \cup
           IF rec.kind = "confirm" /\ Import!Busy # {} THEN {rec.file} ELSE {}
  BY DEF Import!Begin
<1>2. Import!Importing = {importing[q].file : q \in {p \in Requests : importing[p].kind = "confirm"}}
  BY Absent DEF Import!Importing, Import!Busy
<1>3. \A q \in Requests : importing'[q] = IF q = r THEN rec ELSE importing[q]
  BY <1>1, CsvTypes
<1>4. /\ \A q \in Requests : importing[q].kind = "confirm" => importing[q].file \in mixed'
      /\ rec.kind = "confirm" => rec.file \in mixed' \/ Import!Busy = {}
      /\ mixed \subseteq mixed'
  BY <1>1, <1>2
<1>5. \A q \in Requests : importing[q].kind = "confirm" => importing[q].file \in Sheets
  BY DEF CsvInv, Works
<1>6. CsvTyped'
  <2>1. mixed' \subseteq Sheets
    BY <1>1, <1>2, <1>5, CsvTypes
  <2>2. flow' \in Steps
    BY <1>1, CsvTypes, CsvIdle
  <2>3. importing' \in [Requests -> CsvCalls]
    BY <1>1, CsvTypes
  <2> QED BY <1>1, <2>1, <2>2, <2>3, CsvTypes DEF CsvTyped
<1>7. Sent'
  BY <1>1, <1>3 DEF CsvInv, Sent
<1>8. ASSUME NEW q \in Requests
      PROVE  /\ Works(q)' /\ Alone(q)'
             /\ importing'[q].kind = Nil => importing'[q] = Import!Idle
             /\ importing'[q].kind \in {"upload", "preview"} => importing'[q].file \in Sheets
             /\ importing'[q].kind = "upload" => importing'[q].session.file = importing'[q].file
             /\ importing'[q].kind = "preview" => importing'[q].session.mapping = importing'[q].file
  <2>1. CASE q = r
    <3>1. importing'[q] = rec
      BY <1>3, <2>1
    <3>2. Works(q)'
      BY <3>1 DEF Works
    <3>3. ASSUME rec.kind = "confirm", rec.file \notin mixed'
          PROVE  /\ \A p \in Requests : importing'[p].kind # Nil => p = q
                 /\ \A n \in DOMAIN imported' :
                      imported'[n].file = rec.file => imported'[n].row < rec.row
      <4>1. \A p \in Requests : importing[p].kind = Nil
        BY <1>4, <3>3 DEF Import!Busy
      <4>2. \A n \in DOMAIN imported : imported[n].file # rec.file
        BY <1>4, <3>3, <4>1, Absent DEF CsvInv, Over
      <4> QED BY <1>1, <1>3, <2>1, <4>1, <4>2
    <3>4. Alone(q)'
      BY <3>1, <3>3 DEF Alone
    <3> QED BY <3>1, <3>2, <3>4
  <2>2. CASE q # r
    <3>1. importing'[q] = importing[q]
      BY <1>3, <2>2
    <3>2. Works(q)'
      BY <3>1 DEF Works, CsvInv
    <3>3. Alone(q)'
      BY <1>4, <3>1 DEF Alone
    <3> QED BY <3>1, <3>2, <3>3 DEF CsvInv
  <2> QED BY <2>1, <2>2
<1>9. ASSUME NEW n \in DOMAIN imported' PROVE Over(n)'
  <2>1. n \in DOMAIN imported /\ imported'[n] = imported[n] /\ Over(n) /\ imported[n].file \in uploaded
        /\ imported[n].file \in Sheets
    BY <1>1, CsvTypes DEF CsvInv, Sent, Rows
  <2>2. CASE imported[n].file \in mixed
    BY <1>4, <2>1, <2>2 DEF Over
  <2>3. CASE \E q \in Requests : importing[q].kind = "confirm" /\ importing[q].file = imported[n].file
    BY <1>4, <2>1, <2>3 DEF Over
  <2>4. CASE waiting.file # imported[n].file
             /\ \A q \in Requests : importing[q].session.file # imported[n].file
    <3>1. rec.session.file # imported[n].file
      BY <2>1, <2>4
    <3>2. \A q \in Requests : importing'[q].session.file # imported[n].file
      BY <1>3, <2>4, <3>1
    <3> QED BY <1>1, <2>1, <2>4, <3>2 DEF Over
  <2> QED BY <2>1, <2>2, <2>3, <2>4 DEF Over
<1>10. Shown'
  <2> SUFFICES ASSUME flow'.step # Nil PROVE Shown'
    BY <1>1, CsvIdle DEF Shown, CsvInv
  <2>1. flow' = flow /\ Import!Busy = {}
    BY <1>1, CsvIdle
  <2>2. \A q \in Requests : importing[q].kind = Nil
    BY <2>1 DEF Import!Busy
  <2>3. Shown /\ flow.step # Nil
    BY <2>1 DEF CsvInv
  <2>4. \A p, q \in Requests : importing'[p].kind # Nil /\ importing'[q].kind # Nil => p = q
    BY <1>3, <2>2
  <2>5. \A q \in Requests :
         /\ importing'[q].kind \in {"confirm", "view"} => importing'[q].session = waiting'
         /\ importing'[q].kind = "preview" =>
              importing'[q].session.file = waiting'.file
              /\ importing'[q].session.mapping = importing'[q].file
    BY <1>1, <1>3, <2>2, Absent
  <2> QED BY <1>1, <2>1, <2>3, <2>4, <2>5 DEF Shown
<1>11. Import!RowsImportedOnce' /\ Import!ImportsWhatWasPreviewed'
  BY <1>1, <1>4 DEF CsvInv, Import!RowsImportedOnce, Import!ImportsWhatWasPreviewed
<1> QED BY <1>6, <1>7, <1>8, <1>9, <1>10, <1>11 DEF CsvInv

LEMMA CsvRow ==
  ASSUME CsvInv, NEW r \in Requests, Import!ImportRow(r) PROVE CsvInv'
<1>1. /\ importing[r].kind = "confirm" /\ importing[r].row <= NumRows
      /\ importing' = [importing EXCEPT ![r].row = @ + 1]
      /\ UNCHANGED <<waiting, uploaded, confirms, flow, mixed>>
  BY DEF Import!ImportRow
<1> DEFINE F == importing[r].file
           added == [file |-> F, row |-> importing[r].row, mapping |-> importing[r].session.mapping,
                    straight |-> flow = [step |-> "preview", file |-> F]]
<1>2. imported' = Append(imported, added) \/ imported' = imported
  BY DEF Import!ImportRow
<1>3. Works(r) /\ F = importing[r].session.file /\ F \in Sheets /\ importing[r].session.mapping \in Sheets
      /\ importing[r].row > 0 /\ importing[r].row \in 0..(NumRows + 1) /\ Alone(r) /\ F \in uploaded
  BY <1>1, Absent, CsvTypes DEF CsvInv, Works, Sent, CsvCalls
<1>4. added \in Rows
  <2>1. importing[r].row \in 1..NumRows
    BY <1>1, <1>3, BoundAssumption
  <2> QED BY <1>3, <2>1 DEF Rows
<1>5. \A q \in Requests :
        /\ importing'[q].kind = importing[q].kind /\ importing'[q].file = importing[q].file
        /\ importing'[q].session = importing[q].session
        /\ importing'[q].row = IF q = r THEN importing[r].row + 1 ELSE importing[q].row
        /\ q # r => importing'[q] = importing[q]
  BY <1>1, CsvTypes DEF CsvCalls
<1>6. /\ imported' \in Seq(Rows)
      /\ \A n \in DOMAIN imported' :
           (n \in DOMAIN imported /\ imported'[n] = imported[n]) \/ imported'[n] = added
  <2>1. CASE imported' = Append(imported, added)
    <3>1. DOMAIN imported = 1..Len(imported) /\ DOMAIN imported' = 1..(Len(imported) + 1) /\ Len(imported) \in Nat
      BY <1>4, <2>1, CsvTypes
    <3>2. \A n \in 1..(Len(imported) + 1) :
            imported'[n] = IF n <= Len(imported) THEN imported[n] ELSE added
      BY <1>4, <2>1, CsvTypes
    <3> QED BY <1>4, <2>1, <3>1, <3>2, CsvTypes
  <2> QED BY <1>2, <2>1, CsvTypes
<1>7. CsvTyped'
  <2>1. importing' \in [Requests -> CsvCalls]
    <3>1. importing[r].row + 1 \in 0..(NumRows + 1)
      BY <1>1, <1>3, BoundAssumption
    <3>2. [importing[r] EXCEPT !.row = @ + 1] \in CsvCalls
      BY <3>1, CsvTypes DEF CsvCalls
    <3> QED BY <1>1, <3>2, CsvTypes
  <2> QED BY <1>1, <1>6, <2>1, CsvTypes DEF CsvTyped
<1>8. Sent'
  BY <1>1, <1>3, <1>5, <1>6 DEF CsvInv, Sent
\* The row imported now comes after every row of this file, unless it is mixed.
<1>9. F \notin mixed => \A n \in DOMAIN imported : imported[n].file = F => imported[n].row < importing[r].row
  BY <1>1, <1>3 DEF Alone
<1>10. ASSUME NEW q \in Requests
       PROVE  /\ Works(q)' /\ Alone(q)'
              /\ importing'[q].kind = Nil => importing'[q] = Import!Idle
              /\ importing'[q].kind \in {"upload", "preview"} => importing'[q].file \in Sheets
              /\ importing'[q].kind = "upload" => importing'[q].session.file = importing'[q].file
              /\ importing'[q].kind = "preview" => importing'[q].session.mapping = importing'[q].file
  <2>1. Works(q)'
    BY <1>3, <1>5 DEF CsvInv, Works
  <2>2. Alone(q)'
    <3> SUFFICES ASSUME importing'[q].kind = "confirm", importing'[q].file \notin mixed' PROVE
           /\ \A p \in Requests : importing'[p].kind # Nil => p = q
           /\ \A n \in DOMAIN imported' :
                imported'[n].file = importing'[q].file => imported'[n].row < importing'[q].row
      BY DEF Alone
    <3>1. Alone(q) /\ importing[q].kind = "confirm" /\ importing[q].file \notin mixed
      BY <1>1, <1>5 DEF CsvInv
    <3>2. r = q
      BY <1>1, <3>1, Absent DEF Alone
    <3>3. \A n \in DOMAIN imported' : imported'[n].file = F => imported'[n].row < importing[r].row + 1
      <4> SUFFICES ASSUME NEW n \in DOMAIN imported', imported'[n].file = F
                   PROVE  imported'[n].row < importing[r].row + 1
        OBVIOUS
      <4>1. CASE n \in DOMAIN imported /\ imported'[n] = imported[n]
        <5>1. imported[n].row < importing[r].row /\ imported[n].row \in Nat /\ importing[r].row \in Nat
          BY <1>3, <1>9, <3>1, <3>2, <4>1, CsvTypes DEF Rows
        <5> QED BY <4>1, <5>1
      <4>2. CASE imported'[n] = added
        BY <1>3, <4>2
      <4> QED BY <1>6, <4>1, <4>2
    <3> QED BY <1>5, <3>1, <3>2, <3>3 DEF Alone
  <2> QED BY <1>1, <1>5, <2>1, <2>2, Absent DEF CsvInv
<1>11. ASSUME NEW n \in DOMAIN imported' PROVE Over(n)'
  <2>1. CASE n \in DOMAIN imported /\ imported'[n] = imported[n]
    BY <1>1, <1>5, <2>1 DEF CsvInv, Over
  <2>2. CASE imported'[n] = added
    BY <1>1, <1>5, <2>2 DEF Over
  <2> QED BY <1>6, <2>1, <2>2
<1>12. Shown'
  BY <1>1, <1>5 DEF CsvInv, Shown
<1>13. Import!RowsImportedOnce'
  <2> SUFFICES ASSUME NEW n \in DOMAIN imported', NEW k \in DOMAIN imported', n # k,
                      imported'[n].file = imported'[k].file, imported'[n].row = imported'[k].row,
                      imported'[n].file \notin mixed'
               PROVE  FALSE
    BY DEF Import!RowsImportedOnce
  <2>1. CASE imported' = imported
    BY <1>1, <2>1 DEF CsvInv, Import!RowsImportedOnce
  <2>2. CASE imported' = Append(imported, added)
    <3>1. DOMAIN imported = 1..Len(imported) /\ DOMAIN imported' = 1..(Len(imported) + 1) /\ Len(imported) \in Nat
      BY <1>4, <2>2, CsvTypes
    <3>2. \A m \in 1..(Len(imported) + 1) :
            imported'[m] = IF m <= Len(imported) THEN imported[m] ELSE added
      BY <1>4, <2>2, CsvTypes
    <3>3. ~(n <= Len(imported) /\ k <= Len(imported))
      BY <1>1, <3>1, <3>2 DEF CsvInv, Import!RowsImportedOnce
    <3>4. \A m \in DOMAIN imported : imported[m].file = F /\ F \notin mixed => imported[m].row < importing[r].row
      BY <1>9
    <3>5. \A m \in DOMAIN imported : imported[m].row \in Nat
      BY CsvTypes DEF Rows
    <3>6. CASE n <= Len(imported)
      <4>1. k = Len(imported) + 1 /\ n \in DOMAIN imported /\ imported'[k] = added /\ imported'[n] = imported[n]
        BY <3>1, <3>2, <3>3, <3>6
      <4> QED BY <1>1, <1>3, <3>4, <3>5, <4>1
    <3>7. CASE k <= Len(imported)
      <4>1. n = Len(imported) + 1 /\ k \in DOMAIN imported /\ imported'[n] = added /\ imported'[k] = imported[k]
        BY <3>1, <3>2, <3>3, <3>7
      <4> QED BY <1>1, <1>3, <3>4, <3>5, <4>1
    <3> QED BY <3>1, <3>6, <3>7
  <2> QED BY <1>2, <2>1, <2>2
<1>14. Import!ImportsWhatWasPreviewed'
  <2>1. added.straight => added.mapping = added.file
    <3> SUFFICES ASSUME flow = [step |-> "preview", file |-> F] PROVE importing[r].session.mapping = F
      OBVIOUS
    <3>1. flow.step = "preview" /\ flow.file = F /\ flow.step # Nil
      BY Absent
    <3>2. Shown /\ importing[r].session = waiting /\ waiting.mapping = flow.file
      BY <1>1, <3>1 DEF CsvInv, Shown
    <3> QED BY <3>1, <3>2
  <2> QED BY <1>6, <2>1 DEF CsvInv, Import!ImportsWhatWasPreviewed
<1> QED BY <1>7, <1>8, <1>10, <1>11, <1>12, <1>13, <1>14 DEF CsvInv

\* A request that ends, or is killed, leaves the others as they are.
LEMMA CsvEnds ==
  ASSUME CsvInv, NEW r \in Requests, importing[r].kind # Nil,
         importing' = [importing EXCEPT ![r] = Import!Idle],
         UNCHANGED <<uploaded, imported, confirms>>, mixed \subseteq mixed', mixed' \subseteq Sheets,
         waiting' = waiting \/ (waiting' = importing[r].session /\ importing[r].kind # "confirm")
           \/ waiting' = Import!Empty,
         importing[r].kind = "confirm" => importing[r].file \in mixed' \/ waiting' = Import!Empty,
         flow' \in Steps, Shown'
  PROVE  CsvInv'
<1>1. \A q \in Requests : importing'[q] = IF q = r THEN Import!Idle ELSE importing[q]
  BY CsvTypes
<1>2. CsvTyped'
  <2>1. importing' \in [Requests -> CsvCalls] /\ waiting' \in Sessions
    BY CsvTypes, CsvIdle DEF CsvCalls
  <2> QED BY <2>1, CsvTypes DEF CsvTyped
<1>3. Sent'
  <2>1. waiting'.file \in uploaded \cup {Nil}
    BY CsvIdle DEF CsvInv, Sent
  <2> QED BY <1>1, <2>1, CsvIdle DEF CsvInv, Sent
<1>4. ASSUME NEW q \in Requests
      PROVE  /\ Works(q)' /\ Alone(q)'
             /\ importing'[q].kind = Nil => importing'[q] = Import!Idle
             /\ importing'[q].kind \in {"upload", "preview"} => importing'[q].file \in Sheets
             /\ importing'[q].kind = "upload" => importing'[q].session.file = importing'[q].file
             /\ importing'[q].kind = "preview" => importing'[q].session.mapping = importing'[q].file
  <2>1. CASE q = r
    BY <1>1, <2>1, CsvIdle, Absent DEF Works, Alone
  <2>2. CASE q # r
    <3>1. importing'[q] = importing[q] /\ Alone(q) /\ Works(q)
      BY <1>1, <2>2 DEF CsvInv
    <3>2. Alone(q)'
      BY <1>1, <3>1, CsvIdle DEF Alone
    <3> QED BY <3>1, <3>2 DEF CsvInv, Works
  <2> QED BY <2>1, <2>2
<1>5. ASSUME NEW n \in DOMAIN imported' PROVE Over(n)'
  <2>1. n \in DOMAIN imported /\ imported' = imported /\ Over(n) /\ imported[n].file \in Sheets /\ imported[n].file # Nil
    BY CsvTypes, Absent DEF CsvInv, Rows
  <2>2. CASE imported[n].file \in mixed
    BY <2>1, <2>2 DEF Over
  <2>3. ASSUME NEW q \in Requests, importing[q].kind = "confirm", importing[q].file = imported[n].file
        PROVE  Over(n)'
    <3>1. CASE q # r
      BY <1>1, <2>1, <2>3, <3>1 DEF Over
    <3>2. CASE q = r /\ imported[n].file \in mixed'
      BY <2>1, <3>2 DEF Over
    <3>3. CASE q = r /\ waiting' = Import!Empty /\ imported[n].file \notin mixed'
      <4>1. Alone(r) /\ importing[r].file \notin mixed
        BY <2>3, <3>3 DEF CsvInv
      <4>2. \A p \in Requests : p # r => importing[p] = Import!Idle
        BY <2>3, <3>3, <4>1 DEF Alone, CsvInv
      <4>3. \A p \in Requests : importing'[p].session.file = Nil
        BY <1>1, <4>2, CsvIdle
      <4> QED BY <2>1, <3>3, <4>3, CsvIdle DEF Over
    <3> QED BY <2>3, <3>1, <3>2, <3>3
  <2>4. CASE waiting.file # imported[n].file
             /\ \A q \in Requests : importing[q].session.file # imported[n].file
    <3>1. waiting'.file # imported[n].file
      BY <2>1, <2>4, CsvIdle
    <3>2. \A q \in Requests : importing'[q].session.file # imported[n].file
      BY <1>1, <2>1, <2>4, CsvIdle
    <3> QED BY <2>1, <3>1, <3>2 DEF Over
  <2> QED BY <2>1, <2>2, <2>3, <2>4 DEF Over
<1>6. Import!RowsImportedOnce' /\ Import!ImportsWhatWasPreviewed'
  BY DEF CsvInv, Import!RowsImportedOnce, Import!ImportsWhatWasPreviewed
<1> QED BY <1>2, <1>3, <1>4, <1>5, <1>6 DEF CsvInv

LEMMA CsvEnd ==
  ASSUME CsvInv, NEW r \in Requests, Import!End(r) PROVE CsvInv'
<1>1. /\ importing[r].kind # Nil /\ importing' = [importing EXCEPT ![r] = Import!Idle]
      /\ UNCHANGED <<uploaded, imported, confirms, mixed>>
      /\ waiting' = IF importing[r].kind = "confirm" THEN Import!Empty ELSE importing[r].session
      /\ flow' = Import!Followed(r) /\ r \in Import!Busy
  BY CsvTypes DEF Import!End, Import!Left
<1>2. \A q \in Requests : importing'[q] = IF q = r THEN Import!Idle ELSE importing[q]
  BY <1>1, CsvTypes
<1>3. importing[r] \in CsvCalls /\ importing[r].file \in Sheets \cup {Nil} /\ importing[r].kind \in CsvKinds
  BY CsvTypes DEF CsvCalls
<1>4. flow' \in Steps
  <2>1. [step |-> "upload", file |-> importing[r].file] \in Steps /\ [flow EXCEPT !.step = "preview"] \in Steps
    BY <1>3, CsvTypes DEF Steps
  <2> QED BY <1>1, <2>1, CsvIdle, CsvTypes DEF Import!Followed
<1>5. Shown'
  <2>0. flow'.step = Nil => flow'.file = Nil
    <3>1. flow.step = Nil => flow.file = Nil
      BY DEF CsvInv, Shown
    <3> QED BY <1>1, <3>1, CsvIdle, CsvTypes, Absent DEF Import!Followed, Steps
  <2> SUFFICES ASSUME flow'.step # Nil PROVE Shown'
    BY <2>0 DEF Shown
  <2>1. ~(Cardinality(Import!Busy) > 1)
    BY <1>1, CsvIdle, ImportCount DEF Import!Followed
  <2>2. ASSUME NEW q \in Requests, q # r PROVE importing'[q] = Import!Idle
    <3>1. ASSUME q \in Import!Busy PROVE FALSE
      <4>1. IsFiniteSet(Import!Busy)
        BY CsvTypes, SetAssumption, FS_Subset
      <4>2. IsFiniteSet({r}) /\ Cardinality({r}) = 1 /\ q \notin {r} /\ {r} \cup {q} = {r, q}
        BY <2>2, FS_Singleton
      <4>5. Cardinality({r} \cup {q}) = Cardinality({r}) + 1
        BY <4>2, FS_AddElement
      <4>6. {r, q} \subseteq Import!Busy
        BY <1>1, <3>1
      <4>4. {r, q} \subseteq Import!Busy /\ Cardinality({r, q}) = 2
        BY <4>2, <4>5, <4>6
      <4>3. Cardinality({r, q}) <= Cardinality(Import!Busy) /\ Cardinality(Import!Busy) \in Nat
        BY <4>1, <4>4, FS_Subset, FS_CardinalityType
      <4> QED BY <2>1, <4>4, <4>3
    <3>2. importing[q].kind = Nil
      BY <3>1, CsvTypes
    <3> QED BY <1>2, <2>2, <3>2 DEF CsvInv
  <2>3. \A q \in Requests : importing'[q].kind = Nil
    BY <1>2, <2>2, CsvIdle
  <2>4. CASE importing[r].kind = "upload"
    <3>1. flow' = [step |-> "upload", file |-> importing[r].file] /\ waiting' = importing[r].session
      BY <1>1, <2>1, <2>4, CsvIdle, ImportCount DEF Import!Followed
    <3>2. importing[r].file \in Sheets /\ importing[r].session.file = importing[r].file
      BY <2>4 DEF CsvInv
    <3> QED BY <2>3, <3>1, <3>2, Absent DEF Shown
  <2>5. CASE importing[r].kind = "preview"
    <3>1. waiting' = importing[r].session /\ importing[r].session.mapping = importing[r].file
      BY <1>1, <2>5 DEF CsvInv
    <3>2. flow' = (IF flow.file = importing[r].file THEN [flow EXCEPT !.step = "preview"] ELSE Import!Nothing)
      BY <1>1, <2>1, <2>5, ImportCount DEF Import!Followed
    <3>3. flow.file = importing[r].file /\ flow'.file = flow.file /\ importing[r].file \in Sheets
      BY <2>5, <3>2, CsvIdle, CsvTypes DEF CsvInv, Steps
    <3>4. flow.step # Nil
      BY <3>3, Absent DEF CsvInv, Shown
    <3>5. waiting.file = flow.file /\ importing[r].session.file = waiting.file
      BY <2>5, <3>4 DEF CsvInv, Shown
    <3> QED BY <2>3, <3>1, <3>3, <3>5, Absent DEF Shown
  <2>6. CASE importing[r].kind = "confirm"
    BY <1>1, <2>1, <2>6, CsvIdle, ImportCount DEF Import!Followed
  <2>7. CASE importing[r].kind = "view"
    <3>1. flow' = flow /\ waiting' = importing[r].session
      BY <1>1, <2>1, <2>7, ImportCount DEF Import!Followed
    <3>2. Shown /\ importing[r].session = waiting
      BY <2>7, <3>1 DEF CsvInv, Shown
    <3> QED BY <2>3, <3>1, <3>2, Absent DEF Shown
  <2> QED BY <1>1, <1>3, <2>4, <2>5, <2>6, <2>7 DEF CsvKinds
<1> QED BY <1>1, <1>4, <1>5, CsvEnds, CsvTypes

LEMMA CsvKill ==
  ASSUME CsvInv, NEW r \in Requests, Import!Kill(r) PROVE CsvInv'
<1>1. /\ importing[r].kind # Nil /\ importing' = [importing EXCEPT ![r] = Import!Idle]
      /\ UNCHANGED <<waiting, uploaded, imported, confirms>> /\ flow' = Import!Nothing
      /\ mixed' = IF importing[r].kind = "confirm" THEN mixed \cup {importing[r].file} ELSE mixed
  BY CsvTypes DEF Import!Kill
<1>2. mixed' \subseteq Sheets
  BY <1>1, CsvTypes DEF CsvInv, Works
<1>3. Shown'
  BY <1>1, CsvIdle DEF Shown
<1>4. /\ mixed \subseteq mixed' /\ flow' \in Steps
      /\ importing[r].kind = "confirm" => importing[r].file \in mixed'
  BY <1>1, CsvIdle
<1> QED BY <1>1, <1>2, <1>3, <1>4, CsvEnds

LEMMA CsvNext == CsvInv /\ [Import!Next]_Import!vars => CsvInv'
<1> SUFFICES ASSUME CsvInv, [Import!Next]_Import!vars PROVE CsvInv'
  OBVIOUS
<1> USE CsvTypes
<1>1. /\ MaxConfirms \in Nat /\ 1 \in 0..(NumRows + 1) /\ 0 \in 0..(NumRows + 1)
      /\ waiting.file \in uploaded \cup {Nil} /\ waiting.file \in Sheets \cup {Nil}
      /\ waiting.mapping \in Sheets \cup {Nil}
  BY BoundAssumption DEF CsvInv, Sent, Sessions
<1>2. ASSUME NEW r \in Requests, NEW f \in Sheets, Import!Upload(r, f) PROVE CsvInv'
  <2> DEFINE rec == [Import!Idle EXCEPT !.kind = "upload", !.file = f, !.session = [waiting EXCEPT !.file = f]]
  <2>1. /\ f \notin uploaded /\ uploaded' = uploaded \cup {f} /\ confirms' = confirms /\ Import!Begin(r, rec)
    BY <1>2 DEF Import!Upload
  <2>2. [waiting EXCEPT !.file = f] \in Sessions /\ [waiting EXCEPT !.file = f].file = f
    BY DEF Sessions
  <2>3. rec \in CsvCalls /\ rec.kind = "upload" /\ rec.file = f /\ rec.session.file = f
    BY <1>1, <2>2, CsvIdle DEF CsvCalls, CsvKinds
  <2> HIDE DEF rec
  <2> QED BY <2>1, <2>3, Absent, CsvBegins
<1>3. ASSUME NEW r \in Requests, NEW f \in Sheets, Import!Preview(r, f) PROVE CsvInv'
  <2> DEFINE rec == [Import!Idle EXCEPT !.kind = "preview", !.file = f, !.session = Import!Mapped(waiting, f)]
  <2>1. UNCHANGED <<uploaded, confirms>> /\ Import!Begin(r, rec)
    BY <1>3 DEF Import!Preview
  <2>2. /\ Import!Mapped(waiting, f) \in Sessions /\ Import!Mapped(waiting, f).file = waiting.file
        /\ Import!Mapped(waiting, f).mapping = f
    BY DEF Sessions, Import!Mapped
  <2>3. /\ rec \in CsvCalls /\ rec.kind = "preview" /\ rec.file = f /\ rec.session.file = waiting.file
        /\ rec.session.mapping = f
    BY <1>1, <2>2, CsvIdle DEF CsvCalls, CsvKinds
  <2> HIDE DEF rec
  <2> QED BY <1>1, <2>1, <2>3, Absent, CsvBegins
<1>4. ASSUME NEW r \in Requests, Import!Confirm(r) PROVE CsvInv'
  <2> DEFINE rec == [Import!Idle EXCEPT !.kind = "confirm", !.file = waiting.file, !.row = 1, !.session = waiting]
  <2>1. /\ uploaded' = uploaded /\ confirms < MaxConfirms /\ confirms' = confirms + 1 /\ Import!Begin(r, rec)
        /\ waiting.file # Nil /\ waiting.mapping # Nil
    BY <1>4 DEF Import!Confirm
  <2>2. /\ rec \in CsvCalls /\ rec.kind = "confirm" /\ rec.file = waiting.file /\ rec.session = waiting /\ rec.row = 1
    BY <1>1, CsvIdle DEF CsvCalls, CsvKinds
  <2>3. confirms' \in 0..MaxConfirms
    BY <1>1, <2>1
  <2> HIDE DEF rec
  <2> QED BY <1>1, <2>1, <2>2, <2>3, Absent, CsvBegins
<1>5. ASSUME NEW r \in Requests, Import!View(r) PROVE CsvInv'
  <2> DEFINE rec == [Import!Idle EXCEPT !.kind = "view", !.session = waiting]
  <2>1. UNCHANGED <<uploaded, confirms>> /\ Import!Begin(r, rec)
    BY <1>5 DEF Import!View
  <2>2. rec \in CsvCalls /\ rec.kind = "view" /\ rec.session = waiting
    BY <1>1, CsvIdle DEF CsvCalls, CsvKinds
  <2> HIDE DEF rec
  <2> QED BY <1>1, <2>1, <2>2, Absent, CsvBegins
<1>6. CASE UNCHANGED Import!vars
  <2>1. UNCHANGED <<waiting, importing, uploaded, imported, confirms, flow, mixed>>
    BY <1>6 DEF Import!vars
  <2> QED BY <2>1 DEF CsvInv, CsvTyped, Sent, Works, Alone, Over, Shown, Import!RowsImportedOnce,
                      Import!ImportsWhatWasPreviewed
<1> QED BY <1>2, <1>3, <1>4, <1>5, <1>6, CsvRow, CsvEnd, CsvKill DEF Import!Next
-----------------------------------------------------------------------------
(* The folders: a folder is younger than the one it is in, so the tree has  *)
(* no cycles whatever deletions move; and what is in a folder that was      *)
(* emptied came late.                                                       *)

LEMMA TreeCount == ASSUME NEW S PROVE Tree!Cardinality(S) = Cardinality(S)
BY SMT DEF Tree!Cardinality, Cardinality

Deleting == {"assets", "folders", "remove"}
Filings ==
  {Tree!Idle} \cup [do : {"create"}, folder : 0..MaxFolders]
    \cup [do : {"move"}, asset : Items, folder : 0..MaxFolders]
    \cup [do : Deleting, folder : 1..MaxFolders, to : 0..MaxFolders]

TreeTyped ==
  /\ parent \in [1..MaxFolders -> -2..MaxFolders] /\ holds \in [Items -> 0..MaxFolders]
  /\ filing \in [Requests -> Filings]
  /\ late \subseteq Tree!Places /\ dropped \subseteq Tree!Places /\ astray \in BOOLEAN

\* Rows are inserted one after another, each into a folder that there is; what
\* goes takes along what is in it.
Hangs ==
  /\ \A f \in Tree!Live : parent[f] < f /\ (parent[f] = 0 \/ parent[f] \in Tree!Live)
  /\ \A f, g \in 1..MaxFolders : f <= g /\ parent[f] = -1 => parent[g] = -1
  /\ \A a \in Items : holds[a] = 0 \/ holds[a] \in Tree!Live
  /\ \A r \in Requests : filing[r].do \in Deleting => filing[r].to < filing[r].folder
  /\ \A r \in Requests :
       filing[r].do \in Deleting \cup {"create"} /\ filing[r].folder # 0 => parent[filing[r].folder] # -1

\* On the first two levels, and on the third.
Near(f) == parent[f] = 0 \/ parent[parent[f]] = 0
Within(f) == parent[f] = 0 \/ Near(parent[f])
Shallow ==
  astray \/ /\ \A f \in Tree!Live : Within(f)
            /\ \A r \in Requests :
                 filing[r].do = "create" /\ filing[r].folder \in Tree!Live => Near(filing[r].folder)

\* What is in a folder that a deletion has emptied came late.
Came(r) ==
  /\ filing[r].do = "remove" =>
       \A c \in Tree!Live : parent[c] = filing[r].folder => <<"folder", c>> \in late
  /\ filing[r].do \in {"folders", "remove"} =>
       \A a \in Items : holds[a] = filing[r].folder => <<"asset", a>> \in late
Left ==
  /\ \A c \in 1..MaxFolders : <<"folder", c>> \in dropped => parent[c] = -2
  /\ \A a \in Items : <<"asset", a>> \in dropped => holds[a] = 0

TreeInv ==
  /\ TreeTyped /\ Hangs /\ Shallow /\ Left
  /\ \A r \in Requests : Came(r)
  /\ Tree!DeletionMovesUp

LEMMA TreeDefs ==
  /\ Tree!Folders = 1..MaxFolders /\ Tree!None = 0 /\ Tree!Unused = -1 /\ Tree!Gone = -2 /\ MaxFolders \in Nat
  /\ Tree!Live = {f \in 1..MaxFolders : parent[f] # -1 /\ parent[f] # -2}
  /\ Tree!Live' = {f \in 1..MaxFolders : parent'[f] # -1 /\ parent'[f] # -2}
  /\ \A f : Tree!In(f) = {c \in Tree!Live : parent[c] = f}
  /\ Tree!Idle \in Filings /\ Tree!Idle.do = "idle"
  /\ \A kind, x : Tree!Of(kind, x) = <<kind, x>>
  /\ Tree!Places = {<<"folder", f>> : f \in 1..MaxFolders} \cup {<<"asset", a>> : a \in Items}
BY BoundAssumption DEF Tree!Folders, Tree!None, Tree!Unused, Tree!Gone, Tree!Live, Tree!In, Tree!Idle,
   Filings, Tree!Of, Tree!Places

LEMMA TreeTypes ==
  ASSUME TreeInv
  PROVE  /\ parent \in [1..MaxFolders -> -2..MaxFolders] /\ holds \in [Items -> 0..MaxFolders]
         /\ filing \in [Requests -> Filings] /\ MaxFolders \in Nat
         /\ late \subseteq Tree!Places /\ dropped \subseteq Tree!Places /\ astray \in BOOLEAN
         /\ \A f \in Tree!Live : f \in 1..MaxFolders /\ parent[f] \in 0..MaxFolders
<1>1. TreeTyped /\ MaxFolders \in Nat
  BY TreeDefs DEF TreeInv
<1>2. \A f \in Tree!Live : f \in 1..MaxFolders /\ parent[f] \in 0..MaxFolders
  BY <1>1, TreeDefs DEF TreeTyped
<1> QED BY <1>1, <1>2 DEF TreeTyped

LEMMA FilingKinds ==
  ASSUME NEW q \in Filings
  PROVE  /\ q.do \in {"idle", "create", "move"} \cup Deleting
         /\ q.do = "create" => q.folder \in 0..MaxFolders
         /\ q.do = "move" => q.asset \in Items /\ q.folder \in 0..MaxFolders
         /\ q.do \in Deleting => q \in [do : Deleting, folder : 1..MaxFolders, to : 0..MaxFolders]
BY DEF Filings, Deleting, Tree!Idle

\* A level is how many folders are above, as long as parents are older.
LEMMA Levels ==
  ASSUME TreeTyped, Hangs, NEW f \in Tree!Live
  PROVE  /\ Tree!Level(f) <= 3 <=> Within(f)
         /\ Tree!Level(f) < 3 <=> Near(f)
         /\ f \notin Tree!Above(f)
<1> DEFINE p == parent[f]
           pp == parent[p]
           ppp == parent[pp]
<1>1. /\ f \in 1..MaxFolders /\ p \in 0..MaxFolders /\ p < f /\ (p = 0 \/ p \in Tree!Live)
      /\ MaxFolders \in Nat
  BY TreeDefs DEF TreeTyped, Hangs
<1>2. p # 0 => /\ p \in Tree!Live /\ pp \in 0..MaxFolders /\ pp < p /\ (pp = 0 \/ pp \in Tree!Live)
  BY <1>1, TreeDefs DEF TreeTyped, Hangs
<1>3. p # 0 /\ pp # 0 => /\ pp \in Tree!Live /\ ppp \in 0..MaxFolders /\ ppp < pp
  BY <1>1, <1>2, TreeDefs DEF TreeTyped, Hangs
<1>4. Tree!Level(f) = Cardinality(Tree!Above(f)) + 1 /\ f # 0
  BY <1>1, TreeCount DEF Tree!Level
<1>5. CASE p = 0
  <2>1. Tree!Above(f) = {}
    BY <1>1, <1>5, TreeDefs DEF Tree!Above
  <2> QED BY <1>4, <1>5, <2>1, FS_EmptySet DEF Within, Near
<1>6. CASE p # 0 /\ pp = 0
  <2>1. Tree!Above(f) = {p}
    BY <1>1, <1>6, TreeDefs DEF Tree!Above
  <2>2. Cardinality({p}) = 1 /\ Near(f) /\ Within(f)
    BY <1>6, FS_Singleton DEF Within, Near
  <2>3. f \notin {p}
    BY <1>1, <1>6
  <2> QED BY <1>4, <2>1, <2>2, <2>3
<1>7. CASE p # 0 /\ pp # 0 /\ ppp = 0
  <2>1. Tree!Above(f) = {p, pp}
    BY <1>1, <1>7, TreeDefs DEF Tree!Above
  <2>2. {p, pp} = {p} \cup {pp} /\ pp \notin {p} /\ IsFiniteSet({p}) /\ Cardinality({p}) = 1
    BY <1>1, <1>2, <1>7, FS_Singleton
  <2>3. Cardinality({p, pp}) = 2
    <3> HIDE DEF p, pp
    <3> QED BY <2>2, FS_AddElement
  <2>4. ~Near(f) /\ Within(f) /\ f \notin {p, pp}
    BY <1>1, <1>2, <1>7 DEF Near, Within
  <2> QED BY <1>4, <2>1, <2>3, <2>4
<1>8. CASE p # 0 /\ pp # 0 /\ ppp # 0
  <2>1. Tree!Above(f) = {p, pp, ppp}
    BY <1>1, <1>8, TreeDefs DEF Tree!Above
  <2>7. pp # p
    BY <1>1, <1>2, <1>8
  <2>2. {p, pp} = {p} \cup {pp} /\ pp \notin {p} /\ IsFiniteSet({p}) /\ Cardinality({p}) = 1
    BY <2>7, FS_Singleton
  <2>3. Cardinality({p, pp}) = 2 /\ IsFiniteSet({p, pp})
    <3> HIDE DEF p, pp
    <3> QED BY <2>2, FS_AddElement
  <2>4. {p, pp, ppp} = {p, pp} \cup {ppp} /\ ppp \notin {p, pp}
    BY <1>1, <1>2, <1>3, <1>8
  <2>5. Cardinality({p, pp, ppp}) = 3
    <3> HIDE DEF p, pp, ppp
    <3> QED BY <2>3, <2>4, FS_AddElement
  <2>6. ~Near(f) /\ ~Within(f) /\ f \notin {p, pp, ppp}
    BY <1>1, <1>2, <1>3, <1>8 DEF Near, Within
  <2> QED BY <1>4, <2>1, <2>5, <2>6
<1> QED BY <1>5, <1>6, <1>7, <1>8

LEMMA TreeInit == Tree!Init => TreeInv
<1> SUFFICES ASSUME Tree!Init PROVE TreeInv
  OBVIOUS
<1>1. /\ parent = [f \in 1..MaxFolders |-> -1] /\ holds = [a \in Items |-> 0]
      /\ filing = [r \in Requests |-> Tree!Idle] /\ late = {} /\ dropped = {} /\ astray = FALSE
      /\ MaxFolders \in Nat
  BY TreeDefs DEF Tree!Init
<1>2. Tree!Live = {} /\ \A r \in Requests : filing[r].do = "idle"
  BY <1>1, TreeDefs
<1>3. TreeTyped
  <2>1. -1 \in -2..MaxFolders /\ 0 \in 0..MaxFolders
    BY <1>1
  <2>2. filing \in [Requests -> Filings]
    BY <1>1, TreeDefs
  <2> QED BY <1>1, <2>1, <2>2 DEF TreeTyped
<1>4. Hangs /\ Shallow /\ Left /\ Tree!DeletionMovesUp /\ \A r \in Requests : Came(r)
  BY <1>1, <1>2 DEF Hangs, Shallow, Left, Tree!DeletionMovesUp, Came, Deleting
<1> QED BY <1>3, <1>4 DEF TreeInv

LEMMA FilingSet ==
  ASSUME filing \in [Requests -> Filings], NEW r \in Requests, NEW q \in Filings,
         filing' = [filing EXCEPT ![r] = q]
  PROVE  /\ filing' \in [Requests -> Filings] /\ filing'[r] = q
         /\ \A s \in Requests : s # r => filing'[s] = filing[s]
OBVIOUS

LEMMA LateOnes ==
  ASSUME NEW things, NEW f, NEW stages
  PROVE  \A x : x \in Tree!Placed(things, f, stages) <=>
                  IF Tree!Emptied(f, stages) THEN x \in late \/ x \in things
                  ELSE x \in late /\ x \notin things
BY DEF Tree!Placed

\* A request that begins, or stops, changes nothing but itself.
LEMMA TreeAsked ==
  ASSUME TreeInv, NEW r \in Requests, NEW q \in Filings, filing' = [filing EXCEPT ![r] = q],
         parent' = parent, holds' = holds, late' = late, dropped' = dropped, astray' = astray,
         q.do \in Deleting => q.do = "assets" /\ q.to < q.folder,
         q.do \in Deleting \cup {"create"} /\ q.folder # 0 => parent[q.folder] # -1,
         astray \/ (q.do = "create" /\ q.folder \in Tree!Live => Near(q.folder))
  PROVE  TreeInv'
<1>1. /\ filing' \in [Requests -> Filings] /\ filing'[r] = q
      /\ \A s \in Requests : s # r => filing'[s] = filing[s]
  BY FilingSet, TreeTypes
<1>2. Tree!Live' = Tree!Live
  BY TreeDefs
<1>3. TreeTyped'
  BY <1>1 DEF TreeInv, TreeTyped
<1>4. Hangs'
  <2>1. \A s \in Requests : filing'[s].do \in Deleting => filing'[s].to < filing'[s].folder
    BY <1>1 DEF TreeInv, Hangs
  <2>2. \A s \in Requests :
          filing'[s].do \in Deleting \cup {"create"} /\ filing'[s].folder # 0 =>
            parent[filing'[s].folder] # -1
    BY <1>1 DEF TreeInv, Hangs
  <2> QED BY <1>2, <2>1, <2>2 DEF TreeInv, Hangs
<1>5. Shallow'
  <2>1. astray \/ \A s \in Requests :
          filing'[s].do = "create" /\ filing'[s].folder \in Tree!Live => Near(filing'[s].folder)
    BY <1>1 DEF TreeInv, Shallow
  <2> QED BY <1>2, <2>1 DEF TreeInv, Shallow, Within, Near
<1>6. \A s \in Requests : Came(s)'
  <2> TAKE s \in Requests
  <2>1. CASE s = r
    BY <1>1, <2>1 DEF Came, Deleting
  <2>2. CASE s # r
    BY <1>1, <1>2, <2>2 DEF TreeInv, Came
  <2> QED BY <2>1, <2>2
<1> QED BY <1>3, <1>4, <1>5, <1>6 DEF TreeInv, Left, Tree!DeletionMovesUp

LEMMA TreeStops ==
  ASSUME TreeInv, NEW r \in Requests, Tree!Done(r),
         parent' = parent, holds' = holds, late' = late, dropped' = dropped, astray' = astray
  PROVE  TreeInv'
<1>1. Tree!Idle \in Filings /\ Tree!Idle.do = "idle" /\ filing' = [filing EXCEPT ![r] = Tree!Idle]
  BY TreeDefs DEF Tree!Done
<1>2. Tree!Idle.do \notin Deleting \cup {"create"}
  BY <1>1 DEF Deleting
<1> HIDE DEF Filings
<1> QED BY <1>1, <1>2, TreeAsked

LEMMA TreeBeginCreate ==
  ASSUME TreeInv, NEW r \in Requests, NEW p \in 0..MaxFolders, Tree!BeginCreate(r, p)
  PROVE  TreeInv'
<1> DEFINE q == [do |-> "create", folder |-> p]
<1>1. /\ p \in Tree!Live \cup {0} /\ Tree!MayHold(p) /\ filing' = [filing EXCEPT ![r] = q]
      /\ parent' = parent /\ holds' = holds /\ late' = late /\ dropped' = dropped /\ astray' = astray
  BY TreeDefs DEF Tree!BeginCreate, Tree!Asked
<1>2. q \in Filings
  BY DEF Filings
<1>3. q.do = "create" /\ q.folder = p /\ q.do \notin Deleting
  BY DEF Deleting
<1>4. p # 0 => parent[p] # -1
  BY <1>1, TreeDefs
<1>5. p \in Tree!Live => Near(p)
  <2> SUFFICES ASSUME p \in Tree!Live PROVE Near(p)
    OBVIOUS
  <2>1. p # 0
    BY TreeDefs
  <2> QED BY <1>1, <2>1, Levels, TreeDefs DEF TreeInv, Tree!MayHold
<1> HIDE DEF q
<1> QED BY <1>1, <1>2, <1>3, <1>4, <1>5, TreeAsked

LEMMA TreeBeginMove ==
  ASSUME TreeInv, NEW r \in Requests, NEW a \in Items, NEW f \in 0..MaxFolders,
         Tree!BeginMove(r, a, f)
  PROVE  TreeInv'
<1> DEFINE q == [do |-> "move", asset |-> a, folder |-> f]
<1>1. /\ filing' = [filing EXCEPT ![r] = q]
      /\ parent' = parent /\ holds' = holds /\ late' = late /\ dropped' = dropped /\ astray' = astray
  BY DEF Tree!BeginMove, Tree!Asked
<1>2. q \in Filings
  BY DEF Filings
<1>3. q.do \notin Deleting \cup {"create"}
  BY DEF Deleting
<1> HIDE DEF q
<1> QED BY <1>1, <1>2, <1>3, TreeAsked

LEMMA TreeBeginDelete ==
  ASSUME TreeInv, NEW r \in Requests, NEW f \in 1..MaxFolders, Tree!BeginDelete(r, f)
  PROVE  TreeInv'
<1> DEFINE q == [do |-> "assets", folder |-> f, to |-> parent[f]]
<1>1. /\ f \in Tree!Live /\ filing' = [filing EXCEPT ![r] = q]
      /\ parent' = parent /\ holds' = holds /\ late' = late /\ dropped' = dropped /\ astray' = astray
  BY DEF Tree!BeginDelete, Tree!Asked
<1>2. parent[f] \in 0..MaxFolders /\ parent[f] < f /\ parent[f] # -1
  BY <1>1, TreeTypes, TreeDefs DEF TreeInv, Hangs
<1>3. q \in Filings
  BY <1>2 DEF Filings, Deleting
<1>4. q.do = "assets" /\ q.folder = f /\ q.to = parent[f]
  OBVIOUS
<1> HIDE DEF q
<1> QED BY <1>1, <1>2, <1>3, <1>4, TreeAsked

LEMMA TreeDone ==
  ASSUME TreeInv, NEW r \in Requests, Tree!Done(r)
  PROVE  /\ filing' \in [Requests -> Filings] /\ filing'[r].do = "idle"
         /\ \A s \in Requests : s # r => filing'[s] = filing[s]
         /\ \A s \in Requests : filing'[s].do # "idle" => s # r
<1>1. Tree!Idle \in Filings /\ Tree!Idle.do = "idle" /\ filing' = [filing EXCEPT ![r] = Tree!Idle]
  BY TreeDefs DEF Tree!Done
<1>2. filing \in [Requests -> Filings]
  BY TreeTypes
<1> HIDE DEF Filings
<1> QED BY <1>1, <1>2

LEMMA TreeMove ==
  ASSUME TreeInv, NEW r \in Requests, Tree!Move(r)
  PROVE  TreeInv'
<1> DEFINE q == filing[r]
<1>1. /\ q.do = "move" /\ Tree!Done(r) /\ parent' = parent /\ astray' = astray
      /\ Tree!Live' = Tree!Live
  BY TreeDefs DEF Tree!Move
<1>2. CASE ~(q.folder \in Tree!Live \cup {0})
  <2>1. holds' = holds /\ late' = late /\ dropped' = dropped
    BY <1>2, TreeDefs DEF Tree!Move
  <2> QED BY <1>1, <2>1, TreeStops
<1>3. CASE q.folder \in Tree!Live \cup {0}
  <2> DEFINE a == q.asset
             f == q.folder
  <2>1. /\ holds' = [holds EXCEPT ![a] = f]
        /\ late' = Tree!Placed({<<"asset", a>>}, f, {"folders", "remove"})
        /\ dropped' = dropped \ {<<"asset", a>>}
    <3>1. {Tree!Of("asset", x) : x \in {a}} = {<<"asset", a>>}
      BY TreeDefs
    <3>2. Tree!PlacedAssets({a}, f) = Tree!Placed({<<"asset", a>>}, f, {"folders", "remove"})
      BY <3>1 DEF Tree!PlacedAssets
    <3> QED BY <1>3, <3>2, TreeDefs DEF Tree!Move
  <2>2. a \in Items /\ f \in 0..MaxFolders
    BY <1>1, FilingKinds, TreeTypes
  <2>3. holds'[a] = f /\ (\A b \in Items : b # a => holds'[b] = holds[b])
    BY <2>1, <2>2, TreeTypes
  <2>4. \A x : x \in late' <=> IF Tree!Emptied(f, {"folders", "remove"}) THEN x \in late \/ x = <<"asset", a>>
                                ELSE x \in late /\ x # <<"asset", a>>
    BY <2>1, LateOnes
  <2>5. TreeTyped'
    <3>1. filing' \in [Requests -> Filings]
      BY <1>1, TreeDone
    <3>2. holds' \in [Items -> 0..MaxFolders]
      BY <2>1, <2>2, TreeTypes
    <3>3. late' \subseteq Tree!Places' /\ dropped' \subseteq Tree!Places'
      <4>1. <<"asset", a>> \in Tree!Places /\ Tree!Places' = Tree!Places
        BY <2>2, TreeDefs DEF Tree!Places, Tree!Of, Tree!Folders
      <4>2. late \subseteq Tree!Places /\ dropped \subseteq Tree!Places
        BY TreeTypes
      <4> QED BY <2>1, <2>4, <4>1, <4>2
    <3> QED BY <1>1, <3>1, <3>2, <3>3 DEF TreeInv, TreeTyped
  <2>6. Hangs'
    <3>1. \A b \in Items : holds'[b] = 0 \/ holds'[b] \in Tree!Live
      BY <1>3, <2>2, <2>3 DEF TreeInv, Hangs
    <3>2. \A s \in Requests : filing'[s].do # "idle" => filing'[s] = filing[s]
      BY <1>1, TreeDone
    <3>3. /\ \A s \in Requests : filing'[s].do \in Deleting => filing'[s].to < filing'[s].folder
          /\ \A s \in Requests :
               filing'[s].do \in Deleting \cup {"create"} /\ filing'[s].folder # 0 =>
                 parent[filing'[s].folder] # -1
      BY <3>2 DEF TreeInv, Hangs, Deleting
    <3> QED BY <1>1, <3>1, <3>3 DEF TreeInv, Hangs
  <2>7. Shallow'
    <3>1. \A s \in Requests : filing'[s].do # "idle" => filing'[s] = filing[s]
      BY <1>1, TreeDone
    <3>2. astray \/ \A s \in Requests :
            filing'[s].do = "create" /\ filing'[s].folder \in Tree!Live => Near(filing'[s].folder)
      BY <3>1 DEF TreeInv, Shallow
    <3> QED BY <1>1, <3>2 DEF TreeInv, Shallow, Within, Near
  <2>8. \A s \in Requests : Came(s)'
    <3> TAKE s \in Requests
    <3>1. SUFFICES ASSUME filing'[s].do \in {"folders", "remove"} PROVE Came(s)'
      BY DEF Came
    <3>2. filing'[s] = filing[s]
      BY <1>1, <3>1, TreeDone
    <3>3. \A c : <<"folder", c>> \in late => <<"folder", c>> \in late'
      BY <2>4
    <3>4. \A b \in Items : holds'[b] = filing[s].folder => <<"asset", b>> \in late'
      <4> SUFFICES ASSUME NEW b \in Items, holds'[b] = filing[s].folder PROVE <<"asset", b>> \in late'
        OBVIOUS
      <4>1. CASE b = a
        <5>1. Tree!Emptied(f, {"folders", "remove"})
          BY <2>3, <3>1, <3>2, <4>1 DEF Tree!Emptied
        <5> QED BY <2>4, <4>1, <5>1
      <4>2. CASE b # a
        <5>1. <<"asset", b>> \in late /\ <<"asset", b>> # <<"asset", a>>
          BY <2>3, <3>1, <3>2, <4>2 DEF TreeInv, Came
        <5> QED BY <2>4, <5>1
      <4> QED BY <4>1, <4>2
    <3> QED BY <1>1, <3>2, <3>3, <3>4 DEF TreeInv, Came
  <2>9. Left' /\ Tree!DeletionMovesUp'
    <3>1. \A b \in Items : <<"asset", b>> \in dropped' => b # a
      BY <2>1
    <3>2. dropped' \subseteq late'
      BY <2>1, <2>4 DEF TreeInv, Tree!DeletionMovesUp
    <3> QED BY <1>1, <2>1, <2>3, <3>1, <3>2 DEF TreeInv, Left, Tree!DeletionMovesUp
  <2> QED BY <2>5, <2>6, <2>7, <2>8, <2>9 DEF TreeInv
<1> QED BY <1>2, <1>3

LEMMA TreeMoveAssets ==
  ASSUME TreeInv, NEW r \in Requests, Tree!MoveAssets(r)
  PROVE  TreeInv'
<1> DEFINE q == filing[r]
           f == q.folder
           up == q.to
           moved == {a \in Items : holds[a] = f}
           things == {<<"asset", a>> : a \in moved}
<1>1. /\ q.do = "assets" /\ parent' = parent /\ astray' = astray /\ dropped' = dropped
      /\ Tree!Live' = Tree!Live
  BY TreeDefs DEF Tree!MoveAssets
<1>2. CASE Tree!Stopped(r)
  <2>1. holds' = holds /\ late' = late /\ Tree!Done(r)
    BY <1>2 DEF Tree!MoveAssets
  <2> QED BY <1>1, <2>1, TreeStops
<1>3. CASE ~Tree!Stopped(r)
  <2>1. /\ filing' = [filing EXCEPT ![r].do = "folders"]
        /\ holds' = [a \in Items |-> IF a \in moved THEN up ELSE holds[a]]
        /\ late' = Tree!Placed(things, up, {"folders", "remove"})
        /\ up \in Tree!Live \cup {0}
    <3>1. {Tree!Of("asset", x) : x \in moved} = things
      BY TreeDefs
    <3>2. Tree!PlacedAssets(moved, up) = Tree!Placed(things, up, {"folders", "remove"})
      BY <3>1 DEF Tree!PlacedAssets
    <3> QED BY <1>3, <3>2, TreeDefs DEF Tree!MoveAssets, Tree!Stopped
  <2>2. q \in [do : Deleting, folder : 1..MaxFolders, to : 0..MaxFolders] /\ up < f /\ f # 0 /\ up \in 0..MaxFolders
    <3>1. q \in Filings /\ q.do \in Deleting
      BY <1>1, TreeTypes DEF Deleting
    <3>2. q \in [do : Deleting, folder : 1..MaxFolders, to : 0..MaxFolders]
      BY <3>1, FilingKinds
    <3> QED BY <3>1, <3>2 DEF TreeInv, Hangs
  <2>3. \A a \in Items : holds'[a] = IF holds[a] = f THEN up ELSE holds[a]
    BY <2>1
  <2>4. \A x : x \in late' <=> IF Tree!Emptied(up, {"folders", "remove"}) THEN x \in late \/ x \in things
                                ELSE x \in late /\ x \notin things
    BY <2>1, LateOnes
  <2>5. /\ filing' \in [Requests -> Filings] /\ filing'[r] = [q EXCEPT !.do = "folders"]
        /\ \A s \in Requests : s # r => filing'[s] = filing[s]
        /\ filing'[r].do = "folders" /\ filing'[r].folder = f /\ filing'[r].to = up
    <3>1. [q EXCEPT !.do = "folders"] \in Filings
      BY <2>2 DEF Filings, Deleting
    <3>2. filing' = [filing EXCEPT ![r] = [q EXCEPT !.do = "folders"]]
      BY <2>1
    <3>3. filing \in [Requests -> Filings]
      BY TreeTypes
    <3>4. /\ [q EXCEPT !.do = "folders"].do = "folders" /\ [q EXCEPT !.do = "folders"].folder = f
          /\ [q EXCEPT !.do = "folders"].to = up
      BY <2>2
    <3> HIDE DEF Filings, q
    <3> QED BY <3>1, <3>2, <3>3, <3>4, FilingSet
  <2>6. TreeTyped'
    <3>1. holds' \in [Items -> 0..MaxFolders]
      BY <2>1, <2>2, TreeTypes
    <3>2. late' \subseteq Tree!Places' /\ dropped' \subseteq Tree!Places'
      <4>1. things \subseteq Tree!Places /\ Tree!Places' = Tree!Places
        BY TreeDefs DEF Tree!Places, Tree!Of, Tree!Folders
      <4>2. late \subseteq Tree!Places /\ dropped \subseteq Tree!Places
        BY TreeTypes
      <4> QED BY <1>1, <2>4, <4>1, <4>2
    <3> QED BY <1>1, <2>5, <3>1, <3>2 DEF TreeInv, TreeTyped
  <2>7. Hangs'
    <3>1. \A a \in Items : holds'[a] = 0 \/ holds'[a] \in Tree!Live
      BY <2>1, <2>3 DEF TreeInv, Hangs
    <3>2. parent[f] # -1
      BY <1>1, <2>2 DEF TreeInv, Hangs, Deleting
    <3>3. \A s \in Requests : filing'[s].do \in Deleting => filing'[s].to < filing'[s].folder
      BY <2>2, <2>5 DEF TreeInv, Hangs
    <3>4. \A s \in Requests :
               filing'[s].do \in Deleting \cup {"create"} /\ filing'[s].folder # 0 =>
                 parent[filing'[s].folder] # -1
      BY <2>5, <3>2 DEF TreeInv, Hangs
    <3> QED BY <1>1, <3>1, <3>3, <3>4 DEF TreeInv, Hangs
  <2>8. Shallow'
    <3>1. \A s \in Requests : filing'[s].do = "create" => filing'[s] = filing[s]
      BY <2>5
    <3>2. astray \/ \A s \in Requests :
            filing'[s].do = "create" /\ filing'[s].folder \in Tree!Live => Near(filing'[s].folder)
      BY <3>1 DEF TreeInv, Shallow
    <3> QED BY <1>1, <3>2 DEF TreeInv, Shallow, Within, Near
  <2>9. \A s \in Requests : Came(s)'
    <3> TAKE s \in Requests
    <3>1. \A c : <<"folder", c>> \in late => <<"folder", c>> \in late'
      BY <2>4
    <3>2. filing'[s].folder = filing[s].folder /\ (filing'[s].do = "remove" => filing[s].do = "remove")
      BY <2>5
    <3>3. filing'[s].do \in {"folders", "remove"} =>
            \A a \in Items : holds'[a] = filing[s].folder => <<"asset", a>> \in late'
      <4> SUFFICES ASSUME filing'[s].do \in {"folders", "remove"},
                          NEW a \in Items, holds'[a] = filing[s].folder
                   PROVE  <<"asset", a>> \in late'
        OBVIOUS
      <4>1. CASE holds[a] = f
        <5>1. s # r /\ filing[s].do \in {"folders", "remove"} /\ filing[s].folder = up
          BY <2>2, <2>3, <2>5, <4>1
        <5>2. Tree!Emptied(up, {"folders", "remove"}) /\ <<"asset", a>> \in things
          BY <4>1, <5>1 DEF Tree!Emptied
        <5> QED BY <2>4, <5>2
      <4>2. CASE holds[a] # f
        <5>1. s # r /\ filing[s].do \in {"folders", "remove"} /\ holds[a] = filing[s].folder
          BY <2>3, <2>5, <4>2
        <5>2. <<"asset", a>> \in late /\ <<"asset", a>> \notin things
          BY <4>2, <5>1 DEF TreeInv, Came
        <5> QED BY <2>4, <5>2
      <4> QED BY <4>1, <4>2
    <3> QED BY <1>1, <3>1, <3>2, <3>3 DEF TreeInv, Came
  <2>10. Left' /\ Tree!DeletionMovesUp'
    <3>1. \A a \in Items : <<"asset", a>> \in dropped => holds[a] = 0 /\ holds'[a] = 0
      BY <2>2, <2>3 DEF TreeInv, Left
    <3>2. \A x \in dropped : x \notin things
      BY <2>2, <3>1
    <3>3. dropped \subseteq late'
      BY <2>4, <3>2 DEF TreeInv, Tree!DeletionMovesUp
    <3> QED BY <1>1, <3>1, <3>3 DEF TreeInv, Left, Tree!DeletionMovesUp
  <2> QED BY <2>6, <2>7, <2>8, <2>9, <2>10 DEF TreeInv
<1> QED BY <1>2, <1>3

LEMMA TreeCreate ==
  ASSUME TreeInv, NEW r \in Requests, NEW f \in 1..MaxFolders, Tree!Create(r, f)
  PROVE  TreeInv'
<1> DEFINE q == filing[r]
           p == q.folder
<1>1. /\ q.do = "create" /\ parent[f] = -1 /\ Tree!Done(r)
      /\ \A g \in 1..MaxFolders : parent[g] = -1 => f <= g
      /\ holds' = holds /\ dropped' = dropped /\ astray' = astray
  BY TreeDefs DEF Tree!Create
<1>2. CASE parent' = parent /\ late' = late
  BY <1>1, <1>2, TreeStops
<1>3. CASE /\ p \in Tree!Live \cup {0} /\ parent' = [parent EXCEPT ![f] = p]
           /\ late' = Tree!PlacedFolders({f}, p)
  <2>1. p \in 0..MaxFolders /\ MaxFolders \in Nat /\ parent \in [1..MaxFolders -> -2..MaxFolders]
    BY <1>1, FilingKinds, TreeTypes
  <2>2. /\ \A g \in 1..MaxFolders : g # f => parent'[g] = parent[g]
        /\ parent'[f] = p
    BY <2>1, <1>3
  <2>3. Tree!Live' = Tree!Live \cup {f} /\ f \notin Tree!Live /\ f # 0
    BY <1>1, <2>1, <2>2, TreeDefs
  <2>4. p < f /\ p # f
    <3>1. CASE p = 0
      BY <2>1, <3>1
    <3>2. CASE p # 0
      <4>1. p \in 1..MaxFolders /\ parent[p] # -1
        BY <1>3, <3>2, TreeDefs
      <4>2. ~(f <= p)
        BY <1>1, <4>1 DEF TreeInv, Hangs
      <4> QED BY <2>1, <4>1, <4>2
    <3> QED BY <3>1, <3>2
  <2>5. late' = Tree!Placed({<<"folder", f>>}, p, {"remove"})
    <3>1. {Tree!Of("folder", x) : x \in {f}} = {<<"folder", f>>}
      BY TreeDefs
    <3> QED BY <1>3, <3>1 DEF Tree!PlacedFolders
  <2>6. \A x : x \in late' <=> IF Tree!Emptied(p, {"remove"}) THEN x \in late \/ x = <<"folder", f>>
                                ELSE x \in late /\ x # <<"folder", f>>
    BY <2>5, LateOnes
  <2>7. /\ filing' \in [Requests -> Filings]
        /\ \A s \in Requests : filing'[s].do # "idle" => filing'[s] = filing[s]
    BY <1>1, TreeDone
  <2>8. TreeTyped'
    <3>1. parent' \in [1..MaxFolders -> -2..MaxFolders]
      BY <1>3, <2>1
    <3>2. late' \subseteq Tree!Places' /\ dropped' \subseteq Tree!Places'
      <4>1. <<"folder", f>> \in Tree!Places /\ Tree!Places' = Tree!Places
        BY TreeDefs DEF Tree!Places, Tree!Of, Tree!Folders
      <4>2. late \subseteq Tree!Places /\ dropped \subseteq Tree!Places
        BY TreeTypes
      <4> QED BY <1>1, <2>6, <4>1, <4>2
    <3> QED BY <1>1, <2>7, <3>1, <3>2 DEF TreeInv, TreeTyped
  <2>9. Hangs'
    <3>1. \A g \in Tree!Live' : parent'[g] < g /\ (parent'[g] = 0 \/ parent'[g] \in Tree!Live')
      BY <1>3, <2>2, <2>3, <2>4, TreeDefs DEF TreeInv, Hangs
    <3>2. \A g, h \in 1..MaxFolders : g <= h /\ parent'[g] = -1 => parent'[h] = -1
      <4> SUFFICES ASSUME NEW g \in 1..MaxFolders, NEW h \in 1..MaxFolders, g <= h, parent'[g] = -1
                   PROVE  parent'[h] = -1
        OBVIOUS
      <4>1. g # f /\ parent[g] = -1
        BY <2>1, <2>2
      <4>2. f <= g /\ f # h /\ parent[h] = -1
        BY <1>1, <2>1, <4>1 DEF TreeInv, Hangs
      <4> QED BY <2>2, <4>2
    <3>3. \A a \in Items : holds[a] = 0 \/ holds[a] \in Tree!Live'
      BY <2>3 DEF TreeInv, Hangs
    <3>4. \A s \in Requests : filing'[s].do \in Deleting => filing'[s].to < filing'[s].folder
      BY <2>7 DEF TreeInv, Hangs, Deleting
    <3>5. \A s \in Requests :
               filing'[s].do \in Deleting \cup {"create"} /\ filing'[s].folder # 0 =>
                 parent'[filing'[s].folder] # -1
      <4> SUFFICES ASSUME NEW s \in Requests, filing'[s].do \in Deleting \cup {"create"},
                          filing'[s].folder # 0
                   PROVE  parent'[filing'[s].folder] # -1
        OBVIOUS
      <4>1. filing'[s] = filing[s] /\ parent[filing[s].folder] # -1
        BY <2>7 DEF TreeInv, Hangs, Deleting
      <4>2. filing[s].folder \in 1..MaxFolders
        <5>1. filing[s].folder \in 0..MaxFolders
          <6>1. filing[s] \in Filings
            BY TreeTypes
          <6>2. filing[s].do = "create" => filing[s].folder \in 0..MaxFolders
            BY <6>1, FilingKinds
          <6>3. filing[s].do \in Deleting => filing[s].folder \in 1..MaxFolders
            BY <6>1, FilingKinds
          <6> QED BY <4>1, <6>2, <6>3, <2>1
        <5> QED BY <4>1, <5>1, <2>1
      <4> QED BY <1>1, <2>2, <4>1, <4>2
    <3> QED BY <1>1, <3>1, <3>2, <3>3, <3>4, <3>5 DEF Hangs
  <2>10. Shallow'
    <3> DEFINE NearThen(g) == parent'[g] = 0 \/ parent'[parent'[g]] = 0
               WithinThen(g) == parent'[g] = 0 \/ NearThen(parent'[g])
    <3> SUFFICES ASSUME ~astray PROVE Shallow'
      BY <1>1 DEF Shallow
    <3>1. \A g \in Tree!Live : Near(g) => NearThen(g)
      BY <2>2, <2>3, TreeDefs DEF TreeInv, Hangs, Near
    <3>2. \A g \in Tree!Live : Within(g) => WithinThen(g)
      BY <2>2, <2>3, <3>1, TreeDefs DEF TreeInv, Hangs, Within
    <3>3. p # 0 => Near(p) /\ NearThen(p)
      BY <1>1, <1>3, <3>1 DEF TreeInv, Shallow
    <3>4. WithinThen(f)
      BY <2>2, <3>3 DEF Within
    <3>5. \A g \in Tree!Live' : WithinThen(g)
      BY <2>3, <3>2, <3>4 DEF TreeInv, Shallow
    <3>6. \A s \in Requests :
            filing'[s].do = "create" /\ filing'[s].folder \in Tree!Live' => NearThen(filing'[s].folder)
      <4> SUFFICES ASSUME NEW s \in Requests, filing'[s].do = "create", filing'[s].folder \in Tree!Live'
                   PROVE  NearThen(filing'[s].folder)
        OBVIOUS
      <4>1. filing'[s] = filing[s] /\ parent[filing[s].folder] # -1
        BY <2>3, <2>7, TreeDefs DEF TreeInv, Hangs
      <4>2. filing[s].folder \in Tree!Live /\ Near(filing[s].folder)
        BY <1>1, <2>3, <4>1 DEF TreeInv, Shallow
      <4> QED BY <3>1, <4>1, <4>2
    <3> QED BY <3>5, <3>6 DEF Shallow, Near, Within
  <2>11. \A s \in Requests : Came(s)'
    <3> TAKE s \in Requests
    <3>1. SUFFICES ASSUME filing'[s].do \in {"folders", "remove"} PROVE Came(s)'
      BY DEF Came
    <3>2. filing'[s] = filing[s]
      BY <2>7, <3>1
    <3>3. \A a : <<"asset", a>> \in late => <<"asset", a>> \in late'
      BY <2>6
    <3>4. filing[s].do = "remove" =>
            \A c \in Tree!Live' : parent'[c] = filing[s].folder => <<"folder", c>> \in late'
      <4> SUFFICES ASSUME filing[s].do = "remove", NEW c \in Tree!Live', parent'[c] = filing[s].folder
                   PROVE  <<"folder", c>> \in late'
        OBVIOUS
      <4>1. CASE c = f
        <5>1. Tree!Emptied(p, {"remove"})
          BY <2>2, <4>1 DEF Tree!Emptied
        <5> QED BY <2>6, <4>1, <5>1
      <4>2. CASE c # f
        <5>1. c \in Tree!Live /\ parent[c] = filing[s].folder
          BY <2>2, <2>3, <4>2, TreeDefs
        <5>2. <<"folder", c>> \in late /\ <<"folder", c>> # <<"folder", f>>
          BY <4>2, <5>1 DEF TreeInv, Came
        <5> QED BY <2>6, <5>2
      <4> QED BY <4>1, <4>2
    <3> QED BY <1>1, <3>2, <3>3, <3>4 DEF TreeInv, Came
  <2>12. Left' /\ Tree!DeletionMovesUp'
    <3>1. \A c \in 1..MaxFolders : <<"folder", c>> \in dropped => c # f /\ parent'[c] = -2
      BY <1>1, <2>2 DEF TreeInv, Left
    <3>2. dropped \subseteq late'
      BY <2>6, <3>1 DEF TreeInv, Tree!DeletionMovesUp
    <3> QED BY <1>1, <3>1, <3>2 DEF TreeInv, Left, Tree!DeletionMovesUp
  <2> QED BY <2>8, <2>9, <2>10, <2>11, <2>12 DEF TreeInv
<1> QED BY <1>2, <1>3, TreeDefs DEF Tree!Create

LEMMA TreeMoveFolders ==
  ASSUME TreeInv, NEW r \in Requests, Tree!MoveFolders(r)
  PROVE  TreeInv'
<1> DEFINE q == filing[r]
           f == q.folder
           up == q.to
           moved == {c \in Tree!Live : parent[c] = f}
           things == {<<"folder", c>> : c \in moved}
<1>1. q.do = "folders" /\ holds' = holds /\ dropped' = dropped /\ Tree!In(f) = moved
  BY TreeDefs DEF Tree!MoveFolders
<1>2. CASE Tree!Done(r) /\ parent' = parent /\ late' = late /\ astray' = astray
  BY <1>1, <1>2, TreeStops
<1>3. CASE /\ moved = {} \/ ~Tree!Stopped(r)
           /\ filing' = [filing EXCEPT ![r].do = "remove"]
           /\ parent' = [g \in 1..MaxFolders |-> IF g \in moved THEN up ELSE parent[g]]
           /\ late' = Tree!PlacedFolders(moved, up)
           /\ astray' = (astray \/ (moved # {} /\ parent[f] # up))
  <2>1. late' = Tree!Placed(things, up, {"remove"})
    <3>1. {Tree!Of("folder", x) : x \in moved} = things
      BY TreeDefs
    <3> QED BY <1>3, <3>1 DEF Tree!PlacedFolders
  <2>2. /\ q \in [do : Deleting, folder : 1..MaxFolders, to : 0..MaxFolders]
        /\ up < f /\ f \in 1..MaxFolders /\ up \in 0..MaxFolders /\ MaxFolders \in Nat
        /\ parent \in [1..MaxFolders -> -2..MaxFolders] /\ parent[f] # -1
    <3>1. q \in Filings /\ q.do \in Deleting /\ MaxFolders \in Nat
      BY <1>1, TreeTypes DEF Deleting
    <3>2. q \in [do : Deleting, folder : 1..MaxFolders, to : 0..MaxFolders]
      BY <3>1, FilingKinds
    <3>3. f # 0
      BY <3>2
    <3> QED BY <3>1, <3>2, <3>3, TreeTypes DEF TreeInv, Hangs
  <2>3. /\ \A g \in 1..MaxFolders : parent'[g] = IF g \in moved THEN up ELSE parent[g]
        /\ \A g \in 1..MaxFolders : g \in moved <=> parent[g] = f
        /\ \A c \in moved : f < c /\ c \in Tree!Live /\ parent[c] = f
        /\ moved # {} => f \in Tree!Live /\ (up = 0 \/ up \in Tree!Live)
    <3>1. \A g \in 1..MaxFolders : g \in moved <=> parent[g] = f
      BY <2>2, TreeDefs
    <3>2. moved # {} => up = 0 \/ up \in Tree!Live
      BY <1>3, TreeDefs DEF Tree!Stopped
    <3>3. \A c \in moved : f < c /\ f \in Tree!Live
      BY <2>2 DEF TreeInv, Hangs
    <3> QED BY <1>3, <3>1, <3>2, <3>3
  <2>4. \A x : x \in late' <=> IF Tree!Emptied(up, {"remove"}) THEN x \in late \/ x \in things
                                ELSE x \in late /\ x \notin things
    BY <2>1, LateOnes
  <2>5. /\ filing' \in [Requests -> Filings] /\ \A s \in Requests : s # r => filing'[s] = filing[s]
        /\ filing'[r].do = "remove" /\ filing'[r].folder = f /\ filing'[r].to = up
    <3>1. [q EXCEPT !.do = "remove"] \in Filings
      BY <2>2 DEF Filings, Deleting
    <3>2. filing' = [filing EXCEPT ![r] = [q EXCEPT !.do = "remove"]]
      BY <1>3
    <3>3. filing \in [Requests -> Filings]
      BY TreeTypes
    <3>4. /\ [q EXCEPT !.do = "remove"].do = "remove" /\ [q EXCEPT !.do = "remove"].folder = f
          /\ [q EXCEPT !.do = "remove"].to = up
      BY <2>2
    <3> HIDE DEF Filings, q
    <3> QED BY <3>1, <3>2, <3>3, <3>4, FilingSet
  <2>6. Tree!Live' = Tree!Live
    <3>1. \A g \in 1..MaxFolders : (parent'[g] \in {-1, -2}) <=> (parent[g] \in {-1, -2})
      <4> SUFFICES ASSUME NEW g \in 1..MaxFolders
                   PROVE  (parent'[g] \in {-1, -2}) <=> (parent[g] \in {-1, -2})
        OBVIOUS
      <4> HIDE DEF moved, up, f, q
      <4>1. CASE g \in moved
        <5>1. parent'[g] = up /\ parent[g] = f
          BY <2>3, <4>1
        <5>2. f >= 0 /\ up >= 0
          BY <2>2
        <5>3. f \notin {-1, -2} /\ up \notin {-1, -2}
          BY <2>2, <5>2
        <5> QED BY <5>1, <5>3
      <4>2. CASE g \notin moved
        BY <2>3, <4>2
      <4> QED BY <4>1, <4>2
    <3> QED BY <3>1, TreeDefs
  <2>7. TreeTyped'
    <3>1. parent' \in [1..MaxFolders -> -2..MaxFolders]
      <4>1. up \in -2..MaxFolders
        BY <2>2
      <4> QED BY <1>3, <2>2, <4>1
    <3>2. late' \subseteq Tree!Places' /\ dropped' \subseteq Tree!Places'
      <4>1. things \subseteq Tree!Places /\ Tree!Places' = Tree!Places
        BY TreeDefs DEF Tree!Places, Tree!Of, Tree!Folders
      <4>2. late \subseteq Tree!Places /\ dropped \subseteq Tree!Places
        BY TreeTypes
      <4> QED BY <1>1, <2>4, <4>1, <4>2
    <3>3. astray' \in BOOLEAN
      BY <1>3, TreeTypes
    <3> QED BY <1>1, <2>5, <3>1, <3>2, <3>3 DEF TreeInv, TreeTyped
  <2>8. Hangs'
    <3>1. \A g \in Tree!Live : parent'[g] < g /\ (parent'[g] = 0 \/ parent'[g] \in Tree!Live)
      <4> SUFFICES ASSUME NEW g \in Tree!Live
                   PROVE  parent'[g] < g /\ (parent'[g] = 0 \/ parent'[g] \in Tree!Live)
        OBVIOUS
      <4>1. g \in 1..MaxFolders
        BY TreeTypes
      <4>2. CASE g \in moved
        <5> HIDE DEF moved, up, f, q
        <5>1. parent'[g] = up /\ f < g /\ (up = 0 \/ up \in Tree!Live)
          BY <2>3, <4>1, <4>2
        <5>2. up < g
          BY <2>2, <4>1, <5>1
        <5> QED BY <5>1, <5>2
      <4>3. CASE g \notin moved
        BY <2>3, <4>1, <4>3 DEF TreeInv, Hangs
      <4> QED BY <4>2, <4>3
    <3>2. \A g \in 1..MaxFolders : parent'[g] = -1 <=> parent[g] = -1
      BY <2>2, <2>3
    <3>3. \A s \in Requests : filing'[s].do \in Deleting => filing'[s].to < filing'[s].folder
      BY <2>2, <2>5 DEF TreeInv, Hangs
    <3>4. \A s \in Requests :
               filing'[s].do \in Deleting \cup {"create"} /\ filing'[s].folder # 0 =>
                 parent'[filing'[s].folder] # -1
      <4> SUFFICES ASSUME NEW s \in Requests, filing'[s].do \in Deleting \cup {"create"},
                          filing'[s].folder # 0
                   PROVE  parent'[filing'[s].folder] # -1
        OBVIOUS
      <4>1. CASE s = r
        BY <2>2, <2>5, <3>2, <4>1
      <4>2. CASE s # r
        <5>1. filing'[s] = filing[s] /\ parent[filing[s].folder] # -1
          BY <2>5, <4>2 DEF TreeInv, Hangs
        <5>2. filing[s] \in Filings
          BY TreeTypes
        <5>3. filing[s].do = "create" => filing[s].folder \in 0..MaxFolders
          BY <5>2, FilingKinds
        <5>4. filing[s].do \in Deleting => filing[s].folder \in 1..MaxFolders
          BY <5>2, FilingKinds
        <5>5. filing[s].folder \in 1..MaxFolders
          BY <2>2, <5>1, <5>3, <5>4
        <5> QED BY <3>2, <5>1, <5>5
      <4> QED BY <4>1, <4>2
    <3>5. \A g, h \in 1..MaxFolders : g <= h /\ parent'[g] = -1 => parent'[h] = -1
      BY <3>2 DEF TreeInv, Hangs
    <3>6. \A a \in Items : holds[a] = 0 \/ holds[a] \in Tree!Live
      BY DEF TreeInv, Hangs
    <3> QED BY <1>1, <2>6, <3>1, <3>3, <3>4, <3>5, <3>6 DEF Hangs
  <2>9. Shallow'
    <3> DEFINE NearThen(g) == parent'[g] = 0 \/ parent'[parent'[g]] = 0
               WithinThen(g) == parent'[g] = 0 \/ NearThen(parent'[g])
    <3> SUFFICES ASSUME ~astray' PROVE Shallow'
      BY DEF Shallow
    <3>1. ~astray /\ (moved # {} => parent[f] = up)
      BY <1>3
    <3>2. \A g \in Tree!Live : Near(g) => NearThen(g)
      <4> SUFFICES ASSUME NEW g \in Tree!Live, Near(g) PROVE NearThen(g)
        OBVIOUS
      <4>1. g \in 1..MaxFolders /\ parent[g] \in 0..MaxFolders
        BY TreeTypes
      <4>2. CASE parent[g] = 0
        BY <2>2, <2>3, <4>1, <4>2 DEF Near
      <4>3. CASE parent[g] = f
        <5>1. g \in moved
          BY <2>3, <4>1, <4>3
        <5>2. f # 0
          BY <2>2
        <5>3. parent[f] = 0
          BY <4>3, <5>2 DEF Near
        <5>4. parent'[g] = up /\ parent[f] = up
          <6> HIDE DEF moved, up, f
          <6> QED BY <2>3, <3>1, <4>1, <5>1
        <5>5. parent'[g] = up /\ parent[f] = 0 /\ up = 0
          BY <5>3, <5>4
        <5> QED BY <5>5 DEF Near
      <4>4. CASE parent[g] # 0 /\ parent[g] # f
        <5>1. parent'[g] = parent[g] /\ parent[parent[g]] = 0 /\ parent[g] \in 1..MaxFolders
          BY <2>2, <2>3, <4>1, <4>4 DEF Near
        <5>2. parent'[parent[g]] = 0
          BY <2>2, <2>3, <5>1
        <5> QED BY <5>1, <5>2 DEF Near
      <4> QED BY <4>2, <4>3, <4>4
    <3>3. \A g \in Tree!Live : Within(g) => WithinThen(g)
      <4> SUFFICES ASSUME NEW g \in Tree!Live, Within(g) PROVE WithinThen(g)
        OBVIOUS
      <4>1. g \in 1..MaxFolders /\ parent[g] \in 0..MaxFolders /\ (parent[g] = 0 \/ parent[g] \in Tree!Live)
        BY TreeTypes DEF TreeInv, Hangs
      <4>2. CASE parent[g] = 0
        BY <2>2, <2>3, <4>1, <4>2 DEF Within
      <4>3. CASE parent[g] = f
        <5>4. parent'[g] = up /\ parent[f] = up /\ f \in Tree!Live
          BY <2>2, <2>3, <3>1, <4>1, <4>3
        <5>1. parent'[g] = up /\ Near(f) /\ parent[f] = up
          <6>1. f # 0 /\ Near(parent[g])
            BY <2>2, <4>3 DEF Within
          <6> HIDE DEF f, up
          <6> QED BY <4>3, <5>4, <6>1
        <5>2. up # 0 => up \in 1..MaxFolders /\ parent[up] = 0
          BY <2>2, <5>1 DEF Near
        <5>3. up # 0 => parent'[up] = 0
          BY <2>2, <2>3, <5>2
        <5> QED BY <5>1, <5>3 DEF Within, Near
      <4>4. CASE parent[g] # 0 /\ parent[g] # f
        <5>1. parent'[g] = parent[g] /\ Near(parent[g]) /\ parent[g] \in Tree!Live
          BY <2>2, <2>3, <4>1, <4>4 DEF Within
        <5>2. NearThen(parent[g])
          <6> DEFINE h == parent[g]
          <6>1. h \in 1..MaxFolders /\ parent[h] \in 0..MaxFolders /\ Near(h)
            BY <5>1, TreeTypes
          <6>2. CASE parent[h] = 0
            <7>1. parent'[h] = 0
              BY <2>2, <2>3, <6>1, <6>2
            <7> QED BY <5>1, <7>1 DEF Near
          <6>3. CASE parent[h] = f
            <7>1. parent'[h] = up /\ parent[f] = 0 /\ up = 0
              BY <2>2, <2>3, <3>1, <6>1, <6>3 DEF Near
            <7> QED BY <5>1, <7>1 DEF Near
          <6>4. CASE parent[h] # 0 /\ parent[h] # f
            <7>1. parent'[h] = parent[h] /\ parent[parent[h]] = 0 /\ parent[h] \in 1..MaxFolders
              BY <2>2, <2>3, <6>1, <6>4 DEF Near
            <7>2. parent'[parent[h]] = 0
              BY <2>2, <2>3, <7>1
            <7> QED BY <5>1, <7>1, <7>2 DEF Near
          <6> QED BY <6>2, <6>3, <6>4
        <5> QED BY <5>1, <5>2 DEF Within, Near
      <4> QED BY <4>2, <4>3, <4>4
    <3>4. \A s \in Requests : filing'[s].do = "create" => filing'[s] = filing[s]
      BY <2>5
    <3>5. \A s \in Requests :
            filing'[s].do = "create" /\ filing'[s].folder \in Tree!Live => NearThen(filing'[s].folder)
      <4> SUFFICES ASSUME NEW s \in Requests, filing'[s].do = "create", filing'[s].folder \in Tree!Live
                   PROVE  NearThen(filing'[s].folder)
        OBVIOUS
      <4>1. filing'[s] = filing[s] /\ Near(filing[s].folder)
        BY <3>1, <3>4 DEF TreeInv, Shallow
      <4> QED BY <3>2, <4>1 DEF Near
    <3>6. \A g \in Tree!Live : WithinThen(g)
      BY <3>1, <3>3 DEF TreeInv, Shallow
    <3> QED BY <2>6, <3>5, <3>6 DEF Shallow, Near, Within
  <2>10. \A s \in Requests : Came(s)'
    <3> TAKE s \in Requests
    <3>1. \A a : <<"asset", a>> \in late => <<"asset", a>> \in late'
      BY <2>4
    <3>2. /\ filing'[s].folder = filing[s].folder
          /\ filing'[s].do \in {"folders", "remove"} => filing[s].do \in {"folders", "remove"}
      BY <1>1, <2>5
    <3>3. filing'[s].do = "remove" =>
            \A c \in Tree!Live : parent'[c] = filing[s].folder => <<"folder", c>> \in late'
      <4> SUFFICES ASSUME filing'[s].do = "remove", NEW c \in Tree!Live, parent'[c] = filing[s].folder
                   PROVE  <<"folder", c>> \in late'
        OBVIOUS
      <4>0. c \in 1..MaxFolders
        BY TreeTypes
      <4>1. CASE c \in moved
        <5>1. s # r /\ filing[s].do = "remove" /\ filing[s].folder = up
          BY <2>2, <2>3, <2>5, <4>0, <4>1
        <5>2. Tree!Emptied(up, {"remove"}) /\ <<"folder", c>> \in things
          BY <4>1, <5>1 DEF Tree!Emptied
        <5> QED BY <2>4, <5>2
      <4>2. CASE c \notin moved
        <5>1. parent[c] = filing[s].folder
          BY <2>3, <4>0, <4>2
        <5>2. s # r /\ filing[s].do = "remove"
          BY <2>5, <4>2, <5>1
        <5>3. <<"folder", c>> \in late /\ <<"folder", c>> \notin things
          BY <4>2, <5>1, <5>2 DEF TreeInv, Came
        <5> QED BY <2>4, <5>3
      <4> QED BY <4>1, <4>2
    <3> QED BY <1>1, <2>6, <3>1, <3>2, <3>3 DEF TreeInv, Came
  <2>11. Left' /\ Tree!DeletionMovesUp'
    <3>1. \A c \in 1..MaxFolders : <<"folder", c>> \in dropped =>
            c \notin moved /\ parent'[c] = -2
      BY <2>2, <2>3 DEF TreeInv, Left
    <3>2. \A x \in dropped : x \notin things
      BY <3>1, TreeTypes
    <3>3. dropped \subseteq late'
      BY <2>4, <3>2 DEF TreeInv, Tree!DeletionMovesUp
    <3> QED BY <1>1, <3>1, <3>3 DEF TreeInv, Left, Tree!DeletionMovesUp
  <2> QED BY <2>7, <2>8, <2>9, <2>10, <2>11 DEF TreeInv
<1> QED BY <1>1, <1>2, <1>3, TreeDefs DEF Tree!MoveFolders

LEMMA TreeRemove ==
  ASSUME TreeInv, NEW r \in Requests, Tree!Remove(r)
  PROVE  TreeInv'
<1> DEFINE q == filing[r]
           f == q.folder
           gone == {f} \cup Tree!Below(f)
           things == {<<"folder", c>> : c \in {c \in Tree!Live : parent[c] = f}}
                       \cup {<<"asset", a>> : a \in {a \in Items : holds[a] = f}}
<1>1. /\ q.do = "remove" /\ Tree!Done(r) /\ late' = late /\ astray' = astray
      /\ parent' = [g \in 1..MaxFolders |-> IF g \in gone THEN -2 ELSE parent[g]]
      /\ holds' = [a \in Items |-> IF holds[a] \in gone THEN 0 ELSE holds[a]]
      /\ dropped' = dropped \cup things
  <2>1. {Tree!Of("folder", c) : c \in Tree!In(f)} = {<<"folder", c>> : c \in {c \in Tree!Live : parent[c] = f}}
    BY TreeDefs
  <2>2. {Tree!Of("asset", a) : a \in {a \in Items : holds[a] = f}} = {<<"asset", a>> : a \in {a \in Items : holds[a] = f}}
    BY TreeDefs
  <2> QED BY <2>1, <2>2, TreeDefs DEF Tree!Remove
<1>2. /\ f \in 1..MaxFolders /\ MaxFolders \in Nat /\ parent \in [1..MaxFolders -> -2..MaxFolders]
      /\ parent[f] # -1 /\ Tree!Below(f) \subseteq Tree!Live
  <2>1. q \in Filings /\ q.do \in Deleting
    BY <1>1, TreeTypes DEF Deleting
  <2>2. f \in 1..MaxFolders /\ f # 0 /\ parent[f] # -1
    <3>1. q \in [do : Deleting, folder : 1..MaxFolders, to : 0..MaxFolders]
      BY <2>1, FilingKinds
    <3>2. f \in 1..MaxFolders /\ f # 0
      BY <3>1
    <3> QED BY <2>1, <3>2 DEF TreeInv, Hangs
  <2> QED BY <2>2, TreeTypes DEF Tree!Below
\* What the cascade takes is closed: what is in one of them is one of them.
<1>3. \A c \in Tree!Live : parent[c] \in gone => c \in gone
  <2> SUFFICES ASSUME NEW c \in Tree!Live, parent[c] \in gone,
                      NEW set \in SUBSET Tree!Live, Tree!In(f) \subseteq set /\ Tree!Holding(set)
               PROVE  c \in set
    BY DEF Tree!Below
  <2>1. CASE parent[c] = f
    BY <2>1, TreeDefs
  <2>2. CASE parent[c] # f
    <3>1. parent[c] \in Tree!Below(f)
      BY <2>2
    <3>2. parent[c] \in set
      BY <3>1 DEF Tree!Below
    <3> QED BY <3>2 DEF Tree!Holding
  <2> QED BY <2>1, <2>2
<1> HIDE DEF gone
<1>4. /\ \A g \in 1..MaxFolders : parent'[g] = IF g \in gone THEN -2 ELSE parent[g]
      /\ \A a \in Items : holds'[a] = IF holds[a] \in gone THEN 0 ELSE holds[a]
  BY <1>1
<1>5. gone \subseteq 1..MaxFolders /\ f \in gone /\ \A g \in gone : parent[g] # -1
  BY <1>2, TreeTypes, TreeDefs DEF gone
<1>6. Tree!Live' = Tree!Live \ gone
  BY <1>4, TreeDefs
<1>7. /\ filing' \in [Requests -> Filings]
      /\ \A s \in Requests : filing'[s].do # "idle" => filing'[s] = filing[s]
  BY <1>1, TreeDone
<1>8. TreeTyped'
  <2>1. parent' \in [1..MaxFolders -> -2..MaxFolders]
    <3>1. -2 \in -2..MaxFolders
      BY <1>2
    <3> QED BY <1>1, <1>2, <3>1
  <2>2. holds' \in [Items -> 0..MaxFolders]
    <3>1. 0 \in 0..MaxFolders
      BY <1>2
    <3> QED BY <1>1, <3>1, TreeTypes
  <2>3. late' \subseteq Tree!Places' /\ dropped' \subseteq Tree!Places'
    <3>1. things \subseteq Tree!Places /\ Tree!Places' = Tree!Places
      BY TreeDefs DEF Tree!Places, Tree!Of, Tree!Folders
    <3>2. late \subseteq Tree!Places /\ dropped \subseteq Tree!Places
      BY TreeTypes
    <3> QED BY <1>1, <3>1, <3>2
  <2> QED BY <1>1, <1>7, <2>1, <2>2, <2>3 DEF TreeInv, TreeTyped
<1>9. Hangs'
  <2>1. \A g \in Tree!Live' : parent'[g] < g /\ (parent'[g] = 0 \/ parent'[g] \in Tree!Live')
    <3> SUFFICES ASSUME NEW g \in Tree!Live, g \notin gone
                 PROVE  parent'[g] < g /\ (parent'[g] = 0 \/ parent'[g] \in Tree!Live \ gone)
      BY <1>6
    <3>1. g \in 1..MaxFolders /\ parent'[g] = parent[g]
      BY <1>4, TreeTypes
    <3> QED BY <1>3, <3>1 DEF TreeInv, Hangs
  <2>2. \A g \in 1..MaxFolders : parent'[g] = -1 <=> parent[g] = -1
    BY <1>4, <1>5
  <2>3. \A a \in Items : holds'[a] = 0 \/ holds'[a] \in Tree!Live'
    BY <1>4, <1>6 DEF TreeInv, Hangs
  <2>4. \A s \in Requests : filing'[s].do \in Deleting => filing'[s].to < filing'[s].folder
    BY <1>7 DEF TreeInv, Hangs, Deleting
  <2>5. \A s \in Requests :
             filing'[s].do \in Deleting \cup {"create"} /\ filing'[s].folder # 0 =>
               parent'[filing'[s].folder] # -1
    <3> SUFFICES ASSUME NEW s \in Requests, filing'[s].do \in Deleting \cup {"create"},
                        filing'[s].folder # 0
                 PROVE  parent'[filing'[s].folder] # -1
      OBVIOUS
    <3>1. filing'[s] = filing[s] /\ parent[filing[s].folder] # -1
      BY <1>7 DEF TreeInv, Hangs, Deleting
    <3>2. filing[s] \in Filings
      BY TreeTypes
    <3>3. filing[s].do = "create" => filing[s].folder \in 0..MaxFolders
      BY <3>2, FilingKinds
    <3>4. filing[s].do \in Deleting => filing[s].folder \in 1..MaxFolders
      BY <3>2, FilingKinds
    <3>5. filing[s].folder \in 1..MaxFolders
      BY <1>2, <3>1, <3>3, <3>4
    <3> QED BY <2>2, <3>1, <3>5
  <2>6. \A g, h \in 1..MaxFolders : g <= h /\ parent'[g] = -1 => parent'[h] = -1
    BY <2>2 DEF TreeInv, Hangs
  <2> QED BY <2>1, <2>3, <2>4, <2>5, <2>6 DEF Hangs
<1>10. Shallow'
  <2> DEFINE NearThen(g) == parent'[g] = 0 \/ parent'[parent'[g]] = 0
             WithinThen(g) == parent'[g] = 0 \/ NearThen(parent'[g])
  <2> SUFFICES ASSUME ~astray PROVE Shallow'
    BY <1>1 DEF Shallow
  <2>1. \A g \in Tree!Live \ gone :
          /\ g \in 1..MaxFolders /\ parent'[g] = parent[g]
          /\ parent[g] = 0 \/ parent[g] \in Tree!Live \ gone
    BY <1>3, <1>4, TreeTypes DEF TreeInv, Hangs
  <2>2. \A g \in Tree!Live \ gone : Near(g) => NearThen(g)
    BY <2>1 DEF Near
  <2>3. \A g \in Tree!Live \ gone : Within(g) => WithinThen(g)
    BY <2>1, <2>2 DEF Within
  <2>4. \A g \in Tree!Live' : WithinThen(g)
    BY <1>6, <2>3 DEF TreeInv, Shallow
  <2>5. \A s \in Requests :
          filing'[s].do = "create" /\ filing'[s].folder \in Tree!Live' => NearThen(filing'[s].folder)
    <3> SUFFICES ASSUME NEW s \in Requests, filing'[s].do = "create", filing'[s].folder \in Tree!Live'
                 PROVE  NearThen(filing'[s].folder)
      OBVIOUS
    <3>1. filing'[s] = filing[s] /\ filing[s].folder \in Tree!Live \ gone
      BY <1>6, <1>7
    <3>2. Near(filing[s].folder)
      BY <3>1 DEF TreeInv, Shallow
    <3>3. NearThen(filing[s].folder)
      BY <2>2, <3>1, <3>2
    <3> QED BY <3>1, <3>3
  <2> QED BY <2>4, <2>5 DEF Shallow, Near, Within
<1>11. \A s \in Requests : Came(s)'
  <2> TAKE s \in Requests
  <2>1. SUFFICES ASSUME filing'[s].do \in {"folders", "remove"} PROVE Came(s)'
    BY DEF Came
  <2>2. filing'[s] = filing[s]
    BY <1>7, <2>1
  <2>3. \A c \in Tree!Live' : c \in Tree!Live /\ parent'[c] = parent[c]
    BY <1>4, <1>6, TreeTypes
  <2>4. filing[s].folder # 0
    <3>1. filing[s] \in Filings /\ filing[s].do \in Deleting
      BY <2>1, <2>2, TreeTypes DEF Deleting
    <3>2. filing[s].folder \in 1..MaxFolders
      BY <3>1, FilingKinds
    <3> QED BY <1>2, <3>2
  <2>5. \A a \in Items : holds'[a] = filing[s].folder => holds[a] = filing[s].folder
    BY <1>4, <2>4
  <2> QED BY <1>1, <2>2, <2>3, <2>5 DEF TreeInv, Came
<1>12. Left'
  <2>1. \A c \in 1..MaxFolders : <<"folder", c>> \in dropped' => parent'[c] = -2
    <3> SUFFICES ASSUME NEW c \in 1..MaxFolders, <<"folder", c>> \in dropped' PROVE parent'[c] = -2
      OBVIOUS
    <3>1. CASE <<"folder", c>> \in dropped
      BY <1>4, <3>1 DEF TreeInv, Left
    <3>2. CASE <<"folder", c>> \in things
      <4>1. c \in Tree!Live /\ parent[c] = f
        BY <3>2
      <4>2. c \in gone
        BY <1>3, <1>5, <4>1
      <4> QED BY <1>4, <4>2
    <3> QED BY <1>1, <3>1, <3>2
  <2>2. \A a \in Items : <<"asset", a>> \in dropped' => holds'[a] = 0
    <3> SUFFICES ASSUME NEW a \in Items, <<"asset", a>> \in dropped' PROVE holds'[a] = 0
      OBVIOUS
    <3>1. CASE <<"asset", a>> \in dropped
      BY <1>4, <3>1 DEF TreeInv, Left
    <3>2. CASE <<"asset", a>> \in things
      <4>1. holds[a] = f
        BY <3>2
      <4> QED BY <1>4, <1>5, <4>1
    <3> QED BY <1>1, <3>1, <3>2
  <2> QED BY <2>1, <2>2 DEF Left
<1>13. Tree!DeletionMovesUp'
  <2>1. things \subseteq late
    <3>1. \A c \in Tree!Live : parent[c] = f => <<"folder", c>> \in late
      BY <1>1 DEF TreeInv, Came
    <3>2. \A a \in Items : holds[a] = f => <<"asset", a>> \in late
      BY <1>1 DEF TreeInv, Came
    <3> QED BY <3>1, <3>2
  <2>2. dropped' \subseteq late'
    BY <1>1, <2>1 DEF TreeInv, Tree!DeletionMovesUp
  <2> QED BY <2>2 DEF Tree!DeletionMovesUp
<1> QED BY <1>8, <1>9, <1>10, <1>11, <1>12, <1>13 DEF TreeInv

LEMMA TreeNext == TreeInv /\ [Tree!Next]_tree => TreeInv'
<1> SUFFICES ASSUME TreeInv, [Tree!Next]_tree PROVE TreeInv'
  OBVIOUS
<1>1. CASE UNCHANGED tree
  <2>1. /\ parent' = parent /\ holds' = holds /\ filing' = filing /\ late' = late
        /\ dropped' = dropped /\ astray' = astray
    BY <1>1 DEF tree
  <2>2. Tree!Live' = Tree!Live
    BY <2>1, TreeDefs
  <2> QED BY <2>1, <2>2 DEF TreeInv, TreeTyped, Hangs, Shallow, Within, Near, Left, Came,
          Tree!DeletionMovesUp, Tree!Places, Tree!Folders, Tree!Of
<1>2. CASE Tree!Next
  <2>1. PICK r \in Requests :
          \/ \E p \in 0..MaxFolders : Tree!BeginCreate(r, p)
          \/ \E f \in 1..MaxFolders : Tree!Create(r, f)
          \/ \E a \in Items, f \in 0..MaxFolders : Tree!BeginMove(r, a, f)
          \/ Tree!Move(r)
          \/ \E f \in 1..MaxFolders : Tree!BeginDelete(r, f)
          \/ Tree!MoveAssets(r) \/ Tree!MoveFolders(r) \/ Tree!Remove(r)
    <3>1. Tree!Folders \cup {Tree!None} = 0..MaxFolders
      BY TreeDefs
    <3> QED BY <1>2, <3>1, TreeDefs DEF Tree!Next
  <2> QED BY <2>1, TreeBeginCreate, TreeCreate, TreeBeginMove, TreeMove, TreeBeginDelete,
          TreeMoveAssets, TreeMoveFolders, TreeRemove
<1> QED BY <1>1, <1>2

\* What the run checks of the folders.
LEMMA TreeKeeps ==
  ASSUME TreeInv
  PROVE  Tree!TypeOK /\ Tree!ThreeLevels /\ Tree!DeletionMovesUp /\ Tree!NothingHangsLoose
<1>1. Tree!TypeOK
  <2>1. /\ Tree!Folders \cup {Tree!None, Tree!Unused, Tree!Gone} = -2..MaxFolders
        /\ Tree!Folders \cup {Tree!None} = 0..MaxFolders
    BY TreeDefs
  <2>2. \A r \in Requests : filing[r].do \in {"idle", "create", "move", "assets", "folders", "remove"}
    BY TreeTypes, FilingKinds DEF Deleting
  <2> QED BY <2>1, <2>2, TreeTypes, TreeDefs DEF Tree!TypeOK
<1>2. Tree!ThreeLevels
  BY Levels DEF TreeInv, Shallow, Tree!ThreeLevels
<1>3. Tree!NothingHangsLoose
  <2>1. \A f \in Tree!Live : parent[f] \in Tree!Live \cup {0} /\ f \notin Tree!Above(f)
    BY Levels DEF TreeInv, Hangs
  <2>2. \A a \in Items : holds[a] \in Tree!Live \cup {0}
    BY DEF TreeInv, Hangs
  <2> QED BY <2>1, <2>2, TreeDefs DEF Tree!NothingHangsLoose
<1> QED BY <1>1, <1>2, <1>3 DEF TreeInv

-----------------------------------------------------------------------------
(* The feeds: what is kept of a feed is as old as the cache at most, and a    *)
(* request that fetches has, of the feeds it is through with, what there is.  *)

NewsRows == [url : Urls, id : 1..MaxFeeds]
NewsEvents == [url : Urls, id : 1..MaxFeeds, entry : 1..MaxEvents]
Reads ==
  [at : {"idle", "add", "drop", "show", "look", "fetch"}, worker : Workers \cup {Nil},
   url : Urls \cup {Nil}, feeds : SUBSET NewsRows, left : SUBSET NewsRows, got : SUBSET NewsEvents]

NewsTyped ==
  /\ DOMAIN feed \subseteq Urls /\ (\A u \in DOMAIN feed : feed[u] \in 1..MaxFeeds)
  /\ followed \in 0..MaxFeeds /\ down \subseteq Urls /\ outage \in [Urls -> 0..TTL]
  /\ entry \in Seq([url : Urls, age : 0..TTL]) /\ Len(entry) <= MaxEvents
  /\ kept \in [Workers -> [feeds : SUBSET NewsRows, events : SUBSET NewsEvents, left : 0..TTL]]
  /\ reading \in [Requests -> Reads]
  /\ served \in [feeds : SUBSET NewsRows, events : SUBSET NewsEvents]

\* The events are of some feeds.
OfThem(events, feeds) == \A e \in events : [url |-> e.url, id |-> e.id] \in feeds

\* Of these feeds the events lack nothing but what came, or could not be
\* fetched, in the last ticks.
Lately(events, feeds, ticks) ==
  \A f \in feeds : \A n \in DOMAIN entry :
    entry[n].url = f.url =>
      \/ [url |-> f.url, id |-> f.id, entry |-> n] \in events
      \/ entry[n].age <= ticks \/ outage[f.url] <= ticks

Pending(q) == q.left
Reader(q) ==
  /\ q.at # "idle" => q.worker \in Workers
  /\ q.at = "add" => q.url \in Urls
  /\ q.at # "fetch" => q.got = {}
  /\ OfThem(q.got, q.feeds)
  /\ q.at = "fetch" =>
       /\ Pending(q) \subseteq q.feeds
       /\ Lately(q.got, q.feeds \ Pending(q), 0)

NewsInv ==
  /\ NewsTyped
  /\ \A u \in down : outage[u] = 0
  /\ \A w \in Workers :
       /\ OfThem(kept[w].events, kept[w].feeds)
       /\ kept[w].left > 0 => Lately(kept[w].events, kept[w].feeds, TTL - kept[w].left)
  /\ \A r \in Requests : Reader(reading[r])
  /\ OfThem(served.events, served.feeds) /\ Lately(served.events, served.feeds, TTL - 1)

LEMMA NewsIdle ==
  /\ News!Idle \in Reads /\ News!Idle.at = "idle" /\ News!Idle.got = {} /\ News!Idle.feeds = {}
  /\ News!Idle.worker = Nil /\ News!Idle.url = Nil /\ News!Idle.left = {}
  /\ News!NoCache \in [feeds : SUBSET NewsRows, events : SUBSET NewsEvents, left : 0..TTL]
  /\ News!NoCache.feeds = {} /\ News!NoCache.events = {} /\ News!NoCache.left = 0
  /\ News!NotServed \in [feeds : SUBSET NewsRows, events : SUBSET NewsEvents]
  /\ News!NotServed.feeds = {} /\ News!NotServed.events = {}
  /\ TTL \in Nat /\ TTL > 0 /\ MaxFeeds \in Nat /\ MaxEvents \in Nat
<1>1. TTL \in Nat /\ TTL > 0 /\ MaxFeeds \in Nat /\ MaxEvents \in Nat
  BY BoundAssumption
<1>2. {} \in SUBSET NewsRows /\ {} \in SUBSET NewsEvents
  OBVIOUS
<1>3. News!Idle \in Reads
  BY <1>2 DEF News!Idle, Reads
<1>4. News!NoCache \in [feeds : SUBSET NewsRows, events : SUBSET NewsEvents, left : 0..TTL]
  BY <1>1, <1>2 DEF News!NoCache
<1>5. News!NotServed \in [feeds : SUBSET NewsRows, events : SUBSET NewsEvents]
  BY <1>2 DEF News!NotServed
<1> QED BY <1>1, <1>3, <1>4, <1>5 DEF News!Idle, News!NoCache, News!NotServed

LEMMA SeqFacts ==
  ASSUME NEW E, NEW s \in Seq(E)
  PROVE  DOMAIN s = 1..Len(s) /\ Len(s) \in Nat /\ \A n \in DOMAIN s : s[n] \in E
OBVIOUS

LEMMA NewsTypes ==
  ASSUME NewsInv
  PROVE  /\ DOMAIN feed \subseteq Urls /\ (\A u \in DOMAIN feed : feed[u] \in 1..MaxFeeds)
         /\ followed \in 0..MaxFeeds /\ down \subseteq Urls /\ outage \in [Urls -> 0..TTL]
         /\ entry \in Seq([url : Urls, age : 0..TTL]) /\ Len(entry) <= MaxEvents
         /\ DOMAIN entry = 1..Len(entry) /\ Len(entry) \in Nat
         /\ \A n \in DOMAIN entry : entry[n] \in [url : Urls, age : 0..TTL]
         /\ kept \in [Workers -> [feeds : SUBSET NewsRows, events : SUBSET NewsEvents, left : 0..TTL]]
         /\ reading \in [Requests -> Reads]
         /\ served \in [feeds : SUBSET NewsRows, events : SUBSET NewsEvents]
<1>1. NewsTyped
  BY DEF NewsInv
<1>2. /\ DOMAIN entry = 1..Len(entry) /\ Len(entry) \in Nat
      /\ \A n \in DOMAIN entry : entry[n] \in [url : Urls, age : 0..TTL]
  BY <1>1, SeqFacts DEF NewsTyped
<1> QED BY <1>1, <1>2 DEF NewsTyped

LEMMA NewsInit == News!Init => NewsInv
<1> SUFFICES ASSUME News!Init PROVE NewsInv
  OBVIOUS
<1>1. /\ feed = [u \in {} |-> 0] /\ followed = 0 /\ entry = <<>> /\ down = {}
      /\ outage = [u \in Urls |-> TTL] /\ kept = [w \in Workers |-> News!NoCache]
      /\ reading = [r \in Requests |-> News!Idle] /\ served = News!NotServed
  BY DEF News!Init
<1>2. DOMAIN feed = {} /\ entry \in Seq([url : Urls, age : 0..TTL]) /\ Len(entry) = 0 /\ DOMAIN entry = {}
  BY <1>1
<1>3. NewsTyped
  <2>1. outage \in [Urls -> 0..TTL] /\ followed \in 0..MaxFeeds /\ Len(entry) <= MaxEvents
    BY <1>1, <1>2, NewsIdle
  <2>2. kept \in [Workers -> [feeds : SUBSET NewsRows, events : SUBSET NewsEvents, left : 0..TTL]]
    BY <1>1, NewsIdle
  <2>3. reading \in [Requests -> Reads]
    BY <1>1, NewsIdle
  <2> QED BY <1>1, <1>2, <2>1, <2>2, <2>3, NewsIdle DEF NewsTyped
<1>4. \A events, feeds, t : Lately(events, feeds, t)
  BY <1>2 DEF Lately
<1>5. \A r \in Requests : Reader(reading[r])
  <2>1. \A r \in Requests : reading[r] = News!Idle
    BY <1>1
  <2> QED BY <2>1, NewsIdle DEF Reader, OfThem
<1>6. \A w \in Workers : kept[w].events = {}
  BY <1>1, NewsIdle
<1> QED BY <1>1, <1>3, <1>4, <1>5, <1>6, NewsIdle DEF NewsInv, OfThem

\* A step of a request, which serves nothing new and may empty caches.
LEMMA NewsStep ==
  ASSUME NewsInv, NEW r \in Requests, NEW q \in Reads, reading' = [reading EXCEPT ![r] = q],
         Reader(q), entry' = entry, outage' = outage, down' = down,
         served' = News!NotServed \/ served' = served,
         kept' = kept \/ \E w : kept' = [kept EXCEPT ![w] = News!NoCache],
         DOMAIN feed' \subseteq Urls, \A u \in DOMAIN feed' : feed'[u] \in 1..MaxFeeds,
         followed' \in 0..MaxFeeds
  PROVE  NewsInv'
<1>1. reading' \in [Requests -> Reads] /\ \A s \in Requests : reading'[s] = q \/ reading'[s] = reading[s]
  BY NewsTypes
<1>2. /\ kept' \in [Workers -> [feeds : SUBSET NewsRows, events : SUBSET NewsEvents, left : 0..TTL]]
      /\ \A w \in Workers : kept'[w] = kept[w] \/ kept'[w] = News!NoCache
  <2>1. kept \in [Workers -> [feeds : SUBSET NewsRows, events : SUBSET NewsEvents, left : 0..TTL]]
    BY NewsTypes
  <2>2. News!NoCache \in [feeds : SUBSET NewsRows, events : SUBSET NewsEvents, left : 0..TTL]
    BY NewsIdle
  <2>3. CASE kept' = kept
    BY <2>1, <2>3
  <2>4. ASSUME NEW w, kept' = [kept EXCEPT ![w] = News!NoCache]
        PROVE  /\ kept' \in [Workers -> [feeds : SUBSET NewsRows, events : SUBSET NewsEvents, left : 0..TTL]]
               /\ \A v \in Workers : kept'[v] = kept[v] \/ kept'[v] = News!NoCache
    BY <2>1, <2>2, <2>4
  <2> QED BY <2>3, <2>4
<1>3. NewsTyped'
  <2>1. served' \in [feeds : SUBSET NewsRows, events : SUBSET NewsEvents]
    BY NewsTypes, NewsIdle
  <2>2. down' \subseteq Urls /\ outage' \in [Urls -> 0..TTL]
        /\ entry' \in Seq([url : Urls, age : 0..TTL]) /\ Len(entry') <= MaxEvents
    BY NewsTypes
  <2> QED BY <1>1, <1>2, <2>1, <2>2 DEF NewsTyped
<1>4. \A w \in Workers :
        /\ OfThem(kept'[w].events, kept'[w].feeds)
        /\ kept'[w].left > 0 => Lately(kept'[w].events, kept'[w].feeds, TTL - kept'[w].left)
  <2> TAKE w \in Workers
  <2>1. CASE kept'[w] = kept[w]
    BY <2>1 DEF NewsInv
  <2>2. CASE kept'[w] = News!NoCache
    BY <2>2, NewsIdle DEF OfThem
  <2> QED BY <1>2, <2>1, <2>2
<1>5. \A s \in Requests : Reader(reading'[s])
  BY <1>1 DEF NewsInv
<1>6. OfThem(served'.events, served'.feeds) /\ Lately(served'.events, served'.feeds, TTL - 1)
  <2>1. CASE served' = served
    BY <2>1 DEF NewsInv
  <2>2. CASE served' = News!NotServed
    BY <2>2, NewsIdle DEF OfThem, Lately
  <2> QED BY <2>1, <2>2
<1>7. \A u \in down' : outage'[u] = 0
  BY DEF NewsInv
<1>8. \A w \in Workers :
        /\ OfThem(kept[w].events, kept[w].feeds)'
        /\ kept'[w].left > 0 => Lately(kept[w].events, kept[w].feeds, TTL - kept[w].left)'
  BY <1>4 DEF OfThem, Lately
<1>9. \A s \in Requests : Reader(reading[s])'
  BY <1>5 DEF Reader, OfThem, Lately, Pending
<1>10. OfThem(served.events, served.feeds)' /\ Lately(served.events, served.feeds, TTL - 1)'
  BY <1>6 DEF OfThem, Lately
<1> QED BY <1>3, <1>7, <1>8, <1>9, <1>10 DEF NewsInv

\* A request that fetches nothing.
LEMMA NewsReader ==
  ASSUME NEW q \in Reads, q.at # "fetch", q.at # "look", q.got = {},
         q.at # "idle" => q.worker \in Workers, q.at = "add" => q.url \in Urls
  PROVE  Reader(q)
BY DEF Reader, OfThem

LEMMA NewsSet ==
  ASSUME NEW q \in Reads, NEW at \in {"idle", "add", "drop", "show", "look", "fetch"}
  PROVE  /\ [q EXCEPT !.at = at] \in Reads /\ [q EXCEPT !.at = at].at = at
         /\ [q EXCEPT !.at = at].worker = q.worker /\ [q EXCEPT !.at = at].url = q.url
         /\ [q EXCEPT !.at = at].feeds = q.feeds /\ [q EXCEPT !.at = at].got = q.got
         /\ [q EXCEPT !.at = at].left = q.left
BY DEF Reads

LEMMA NewsBegins ==
  ASSUME NewsInv, NEW r \in Requests, NEW q \in Reads, reading' = [reading EXCEPT ![r] = q],
         q.at \in {"add", "drop", "show"}, q.worker \in Workers, q.at = "add" => q.url \in Urls,
         q.got = {},
         entry' = entry, outage' = outage, down' = down, served' = News!NotServed, kept' = kept,
         DOMAIN feed' \subseteq Urls, \A v \in DOMAIN feed' : feed'[v] \in 1..MaxFeeds,
         followed' \in 0..MaxFeeds
  PROVE  NewsInv'
<1>1. Reader(q)
  BY NewsReader
<1> HIDE DEF Reads
<1> QED BY <1>1, NewsStep

LEMMA NewsBeginAdd ==
  ASSUME NewsInv, NEW r \in Requests, NEW w \in Workers, NEW u \in Urls, News!BeginAdd(r, w, u)
  PROVE  NewsInv'
<1> DEFINE q == [News!Idle EXCEPT !.at = "add", !.worker = w, !.url = u]
<1>1. /\ reading' = [reading EXCEPT ![r] = q]
      /\ entry' = entry /\ outage' = outage /\ down' = down /\ served' = News!NotServed
      /\ kept' = kept /\ feed' = feed /\ followed' = followed
  BY DEF News!BeginAdd
<1>2. q \in Reads /\ q.at = "add" /\ q.worker = w /\ q.got = {} /\ q.url = u
  BY NewsIdle DEF Reads
<1>3. DOMAIN feed' \subseteq Urls /\ (\A v \in DOMAIN feed' : feed'[v] \in 1..MaxFeeds)
      /\ followed' \in 0..MaxFeeds
  BY <1>1, NewsTypes
<1> HIDE DEF q, Reads
<1> QED BY <1>1, <1>2, <1>3, NewsBegins

LEMMA NewsShow ==
  ASSUME NewsInv, NEW r \in Requests, NEW w \in Workers, News!Show(r, w)
  PROVE  NewsInv'
<1> DEFINE q == [News!Idle EXCEPT !.at = "show", !.worker = w]
<1>1. /\ reading' = [reading EXCEPT ![r] = q]
      /\ entry' = entry /\ outage' = outage /\ down' = down /\ served' = News!NotServed
      /\ kept' = kept /\ feed' = feed /\ followed' = followed
  BY DEF News!Show
<1>2. q \in Reads /\ q.at = "show" /\ q.worker = w /\ q.got = {}
  BY NewsIdle DEF Reads
<1>3. DOMAIN feed' \subseteq Urls /\ (\A v \in DOMAIN feed' : feed'[v] \in 1..MaxFeeds)
      /\ followed' \in 0..MaxFeeds
  BY <1>1, NewsTypes
<1> HIDE DEF q, Reads
<1> QED BY <1>1, <1>2, <1>3, NewsBegins

LEMMA NewsDelete ==
  ASSUME NewsInv, NEW r \in Requests, NEW w \in Workers, NEW u \in Urls, News!Delete(r, w, u)
  PROVE  NewsInv'
<1> DEFINE q == [News!Idle EXCEPT !.at = "drop", !.worker = w]
<1>1. /\ reading' = [reading EXCEPT ![r] = q]
      /\ entry' = entry /\ outage' = outage /\ down' = down /\ served' = News!NotServed
      /\ kept' = kept /\ feed' = [v \in DOMAIN feed \ {u} |-> feed[v]] /\ followed' = followed
  BY DEF News!Delete
<1>2. q \in Reads /\ q.at = "drop" /\ q.worker = w /\ q.got = {}
  BY NewsIdle DEF Reads
<1>3. DOMAIN feed' \subseteq Urls /\ (\A v \in DOMAIN feed' : feed'[v] \in 1..MaxFeeds)
      /\ followed' \in 0..MaxFeeds
  BY <1>1, NewsTypes
<1> HIDE DEF q, Reads
<1> QED BY <1>1, <1>2, <1>3, NewsBegins

LEMMA NewsAdd ==
  ASSUME NewsInv, NEW r \in Requests, News!Add(r)
  PROVE  NewsInv'
<1> DEFINE u == reading[r].url
<1>1. /\ reading[r] \in Reads /\ reading[r].at = "add" /\ u \in Urls /\ reading[r].worker \in Workers
      /\ reading[r].got = {}
  BY NewsTypes DEF News!Add, News!At, NewsInv, Reader
<1>2. /\ entry' = entry /\ outage' = outage /\ down' = down /\ served' = News!NotServed /\ kept' = kept
  BY DEF News!Add
<1>3. CASE u \in DOMAIN feed \/ followed = MaxFeeds
  <2>1. reading' = [reading EXCEPT ![r] = News!Idle] /\ feed' = feed /\ followed' = followed
    BY <1>3 DEF News!Add
  <2>2. Reader(News!Idle)
    BY NewsIdle, NewsReader
  <2>3. DOMAIN feed' \subseteq Urls /\ (\A v \in DOMAIN feed' : feed'[v] \in 1..MaxFeeds)
        /\ followed' \in 0..MaxFeeds
    BY <2>1, NewsTypes
  <2> QED BY <1>2, <2>1, <2>2, <2>3, NewsIdle, NewsStep
<1>4. CASE ~(u \in DOMAIN feed \/ followed = MaxFeeds)
  <2> DEFINE q == [reading[r] EXCEPT !.at = "drop"]
  <2>1. /\ reading' = [reading EXCEPT ![r] = q] /\ followed' = followed + 1
        /\ feed' = [v \in DOMAIN feed \cup {u} |-> IF v = u THEN followed + 1 ELSE feed[v]]
    BY <1>4 DEF News!Add, News!Goes
  <2>2. followed' \in 0..MaxFeeds /\ followed + 1 \in 1..MaxFeeds
    BY <1>4, <2>1, NewsTypes, NewsIdle
  <2>3. DOMAIN feed' \subseteq Urls /\ (\A v \in DOMAIN feed' : feed'[v] \in 1..MaxFeeds)
    BY <1>1, <2>1, <2>2, NewsTypes
  <2>4. q \in Reads /\ q.at = "drop" /\ q.worker \in Workers /\ q.got = {}
    BY <1>1, NewsSet
  <2> HIDE DEF q, Reads
  <2>5. Reader(q)
    BY <2>4, NewsReader
  <2> QED BY <1>2, <2>1, <2>2, <2>3, <2>4, <2>5, NewsStep
<1> QED BY <1>3, <1>4

LEMMA NewsDropCache ==
  ASSUME NewsInv, NEW r \in Requests, News!DropCache(r)
  PROVE  NewsInv'
<1> DEFINE q == [reading[r] EXCEPT !.at = "show"]
<1>1. /\ reading[r] \in Reads /\ reading[r].at = "drop" /\ reading[r].worker \in Workers
      /\ reading[r].got = {}
  BY NewsTypes DEF News!DropCache, News!At, NewsInv, Reader
<1>2. /\ entry' = entry /\ outage' = outage /\ down' = down /\ served' = News!NotServed
      /\ kept' = [kept EXCEPT ![reading[r].worker] = News!NoCache]
      /\ reading' = [reading EXCEPT ![r] = q] /\ feed' = feed /\ followed' = followed
  BY DEF News!DropCache, News!Goes
<1>3. q \in Reads /\ q.at = "show" /\ q.worker \in Workers /\ q.got = {}
  BY <1>1, NewsSet
<1>4. DOMAIN feed' \subseteq Urls /\ (\A v \in DOMAIN feed' : feed'[v] \in 1..MaxFeeds)
      /\ followed' \in 0..MaxFeeds
  BY <1>2, NewsTypes
<1> HIDE DEF q, Reads
<1>5. Reader(q)
  BY <1>3, NewsReader
<1> QED BY <1>2, <1>3, <1>4, <1>5, NewsStep

LEMMA NewsReadFeeds ==
  ASSUME NewsInv, NEW r \in Requests, News!ReadFeeds(r)
  PROVE  NewsInv'
<1> DEFINE subscribed == {[url |-> u, id |-> feed[u]] : u \in DOMAIN feed}
           q == [reading[r] EXCEPT !.at = "look", !.feeds = subscribed]
<1>1. /\ reading[r] \in Reads /\ reading[r].at = "show" /\ reading[r].worker \in Workers
      /\ reading[r].got = {}
  BY NewsTypes DEF News!ReadFeeds, News!At, NewsInv, Reader
<1>2. /\ entry' = entry /\ outage' = outage /\ down' = down /\ served' = News!NotServed /\ kept' = kept
      /\ feed' = feed /\ followed' = followed
      /\ reading' = [reading EXCEPT ![r].at = "look", ![r].feeds = subscribed]
  BY DEF News!ReadFeeds, News!Subscribed
<1>3. reading' = [reading EXCEPT ![r] = q]
  BY <1>2, NewsTypes DEF Reads
<1>4. subscribed \in SUBSET NewsRows
  BY NewsTypes DEF NewsRows
<1>6. q \in Reads /\ q.at = "look" /\ q.worker \in Workers /\ q.got = {} /\ q.feeds = subscribed
  <2> HIDE DEF subscribed
  <2> QED BY <1>1, <1>4 DEF Reads
<1>7. DOMAIN feed' \subseteq Urls /\ (\A v \in DOMAIN feed' : feed'[v] \in 1..MaxFeeds)
      /\ followed' \in 0..MaxFeeds
  BY <1>2, NewsTypes
<1> HIDE DEF q, Reads
<1>8. Reader(q)
  BY <1>6 DEF Reader, OfThem
<1> QED BY <1>2, <1>3, <1>6, <1>7, <1>8, NewsStep

LEMMA LatelyLonger ==
  ASSUME NewsInv, NEW events, NEW feeds \in SUBSET NewsRows, NEW t \in Int, NEW u \in Int, t <= u,
         Lately(events, feeds, t)
  PROVE  Lately(events, feeds, u)
<1> SUFFICES ASSUME NEW f \in feeds, NEW n \in DOMAIN entry, entry[n].url = f.url,
                    ~([url |-> f.url, id |-> f.id, entry |-> n] \in events)
             PROVE  entry[n].age <= u \/ outage[f.url] <= u
  BY DEF Lately
<1>1. entry[n].age <= t \/ outage[f.url] <= t
  BY DEF Lately
<1>2. entry[n] \in [url : Urls, age : 0..TTL] /\ outage \in [Urls -> 0..TTL] /\ f \in NewsRows
  BY NewsTypes
<1>3. entry[n].age \in Int /\ outage[f.url] \in Int
  BY <1>2, NewsIdle DEF NewsRows
<1> QED BY <1>1, <1>3

\* A request serves events, and may keep them for its worker.
LEMMA NewsServes ==
  ASSUME NewsInv, NEW r \in Requests, reading' = [reading EXCEPT ![r] = News!Idle],
         NEW F \in SUBSET NewsRows, NEW E \in SUBSET NewsEvents, OfThem(E, F), Lately(E, F, TTL - 1),
         served' = [feeds |-> F, events |-> E],
         \/ kept' = kept
         \/ Lately(E, F, 0) /\ \E w : kept' = [kept EXCEPT ![w] = [feeds |-> F, events |-> E, left |-> TTL]],
         feed' = feed, followed' = followed, entry' = entry, down' = down, outage' = outage
  PROVE  NewsInv'
<1> DEFINE c == [feeds |-> F, events |-> E, left |-> TTL]
           Caches == [feeds : SUBSET NewsRows, events : SUBSET NewsEvents, left : 0..TTL]
<1>1. c \in Caches /\ c.feeds = F /\ c.events = E /\ c.left = TTL
  BY NewsIdle
<1>2. /\ reading' \in [Requests -> Reads]
      /\ \A s \in Requests : reading'[s] = News!Idle \/ reading'[s] = reading[s]
  BY NewsTypes, NewsIdle
<1>3. /\ kept' \in [Workers -> Caches]
      /\ \A w \in Workers : kept'[w] = kept[w] \/ (kept'[w] = c /\ Lately(E, F, 0))
  <2>1. kept \in [Workers -> Caches]
    BY NewsTypes
  <2> HIDE DEF Caches
  <2>2. CASE kept' = kept
    BY <2>1, <2>2
  <2>3. CASE Lately(E, F, 0) /\ \E w : kept' = [kept EXCEPT ![w] = c]
    <3>1. PICK w : kept' = [kept EXCEPT ![w] = c]
      BY <2>3
    <3> HIDE DEF c
    <3> QED BY <1>1, <2>1, <2>3, <3>1
  <2> QED BY <2>2, <2>3
<1> HIDE DEF c
<1>4. NewsTyped'
  <2>1. served' \in [feeds : SUBSET NewsRows, events : SUBSET NewsEvents]
    OBVIOUS
  <2>2. /\ down' \subseteq Urls /\ outage' \in [Urls -> 0..TTL] /\ followed' \in 0..MaxFeeds
        /\ entry' \in Seq([url : Urls, age : 0..TTL]) /\ Len(entry') <= MaxEvents
        /\ DOMAIN feed' \subseteq Urls /\ \A u \in DOMAIN feed' : feed'[u] \in 1..MaxFeeds
    BY NewsTypes
  <2> QED BY <1>2, <1>3, <2>1, <2>2 DEF NewsTyped
<1>5. \A w \in Workers :
        /\ OfThem(kept'[w].events, kept'[w].feeds)
        /\ kept'[w].left > 0 => Lately(kept'[w].events, kept'[w].feeds, TTL - kept'[w].left)
  <2> TAKE w \in Workers
  <2>1. CASE kept'[w] = kept[w]
    BY <2>1 DEF NewsInv
  <2>2. CASE kept'[w] = c /\ Lately(E, F, 0)
    <3>1. TTL - TTL = 0
      BY NewsIdle
    <3> QED BY <1>1, <2>2, <3>1
  <2> QED BY <1>3, <2>1, <2>2
<1>6. \A s \in Requests : Reader(reading'[s])
  <2>1. Reader(News!Idle)
    BY NewsIdle, NewsReader
  <2> QED BY <1>2, <2>1 DEF NewsInv
<1>7. \A w \in Workers :
        /\ OfThem(kept[w].events, kept[w].feeds)'
        /\ kept'[w].left > 0 => Lately(kept[w].events, kept[w].feeds, TTL - kept[w].left)'
  BY <1>5 DEF OfThem, Lately
<1>8. \A s \in Requests : Reader(reading[s])'
  BY <1>6 DEF Reader, OfThem, Lately, Pending
<1>9. OfThem(served.events, served.feeds)' /\ Lately(served.events, served.feeds, TTL - 1)'
  <2>1. served'.feeds = F /\ served'.events = E
    OBVIOUS
  <2> QED BY <2>1 DEF OfThem, Lately
<1>10. \A u \in down' : outage'[u] = 0
  BY DEF NewsInv
<1> QED BY <1>4, <1>7, <1>8, <1>9, <1>10 DEF NewsInv

LEMMA NewsLook ==
  ASSUME NewsInv, NEW r \in Requests, News!Look(r)
  PROVE  NewsInv'
<1> DEFINE w == reading[r].worker
           F == reading[r].feeds
           E == kept[w].events
           q == [reading[r] EXCEPT !.at = "fetch", !.left = F]
<1>1. /\ reading[r] \in Reads /\ reading[r].at = "look" /\ w \in Workers
      /\ reading[r].got = {}
  BY NewsTypes DEF News!Look, News!At, NewsInv, Reader
<1>2. /\ entry' = entry /\ outage' = outage /\ down' = down /\ kept' = kept
      /\ feed' = feed /\ followed' = followed
  BY DEF News!Look
<1>3. CASE News!Kept(w, F)
  <2>1. served' = [feeds |-> F, events |-> E] /\ reading' = [reading EXCEPT ![r] = News!Idle]
    BY <1>3 DEF News!Look, News!Serve
  <2>2. /\ kept[w].left > 0 /\ kept[w].feeds = F /\ kept[w].left \in 0..TTL
        /\ E \in SUBSET NewsEvents /\ F \in SUBSET NewsRows
    BY <1>1, <1>3, NewsTypes DEF News!Kept
  <2>3. OfThem(E, F) /\ Lately(E, F, TTL - kept[w].left)
    BY <1>1, <2>2 DEF NewsInv
  <2>4. TTL - kept[w].left \in Int /\ TTL - 1 \in Int /\ TTL - kept[w].left <= TTL - 1
    BY <2>2, NewsIdle
  <2>5. Lately(E, F, TTL - 1)
    BY <2>2, <2>3, <2>4, LatelyLonger
  <2> HIDE DEF E, F, Reads
  <2> QED BY <1>2, <2>1, <2>2, <2>3, <2>5, NewsServes
<1>4. CASE ~News!Kept(w, F)
  <2>1. served' = served /\ reading' = [reading EXCEPT ![r].at = "fetch", ![r].left = F]
    BY <1>4 DEF News!Look
  <2>2. F \in SUBSET NewsRows
    BY <1>1 DEF Reads
  <2>5. reading' = [reading EXCEPT ![r] = q]
    BY <2>1, NewsTypes DEF Reads
  <2>6. /\ q \in Reads /\ q.at = "fetch" /\ q.worker = w /\ q.got = {} /\ q.feeds = F
        /\ q.left = F
    BY <1>1, <2>2 DEF Reads
  <2> HIDE DEF q, Reads
  <2>7. Pending(q) = F
    BY <2>6 DEF Pending
  <2>8. Reader(q)
    BY <1>1, <2>6, <2>7 DEF Reader, OfThem, Lately
  <2>9. DOMAIN feed' \subseteq Urls /\ (\A v \in DOMAIN feed' : feed'[v] \in 1..MaxFeeds)
        /\ followed' \in 0..MaxFeeds
    BY <1>2, NewsTypes
  <2> QED BY <1>2, <2>1, <2>5, <2>6, <2>8, <2>9, NewsStep
<1> QED BY <1>3, <1>4

LEMMA NewsKeep ==
  ASSUME NewsInv, NEW r \in Requests, News!Keep(r)
  PROVE  NewsInv'
<1> DEFINE w == reading[r].worker
           F == reading[r].feeds
           E == reading[r].got
<1>1. /\ reading[r] \in Reads /\ reading[r].at = "fetch" /\ reading[r].left = {}
      /\ OfThem(E, F) /\ Lately(E, F \ Pending(reading[r]), 0)
  BY NewsTypes DEF News!Keep, News!At, NewsInv, Reader
<1>2. /\ entry' = entry /\ outage' = outage /\ down' = down
      /\ feed' = feed /\ followed' = followed
      /\ kept' = [kept EXCEPT ![w] = [feeds |-> F, events |-> E, left |-> TTL]]
      /\ served' = [feeds |-> F, events |-> E] /\ reading' = [reading EXCEPT ![r] = News!Idle]
  BY DEF News!Keep, News!Serve
<1>3. F \in SUBSET NewsRows /\ E \in SUBSET NewsEvents
  BY <1>1 DEF Reads
<1>4. Pending(reading[r]) = {}
  BY <1>1 DEF Pending
<1>5. Lately(E, F, 0)
  <2>1. F \ Pending(reading[r]) = F
    BY <1>4
  <2> QED BY <1>1, <2>1
<1>6. Lately(E, F, TTL - 1)
  <2>1. 0 \in Int /\ TTL - 1 \in Int /\ 0 <= TTL - 1
    BY NewsIdle
  <2> QED BY <1>3, <1>5, <2>1, LatelyLonger
<1> HIDE DEF E, F, Reads
<1> QED BY <1>1, <1>2, <1>3, <1>5, <1>6, NewsServes

LEMMA NewsFetch ==
  ASSUME NewsInv, NEW r \in Requests, News!Fetch(r)
  PROVE  NewsInv'
<1> DEFINE c == reading[r]
<1>0. PICK f \in c.left :
        reading' = [reading EXCEPT ![r].left = @ \ {f},
                      ![r].got = @ \cup IF f.url \in down THEN {} ELSE News!Entries(f)]
  BY DEF News!Fetch
<1> DEFINE more == IF f.url \in down THEN {} ELSE News!Entries(f)
           q == [c EXCEPT !.left = c.left \ {f}, !.got = c.got \cup more]
<1>1. /\ c \in Reads /\ c.at = "fetch" /\ c.worker \in Workers
      /\ OfThem(c.got, c.feeds) /\ Pending(c) \subseteq c.feeds
      /\ Lately(c.got, c.feeds \ Pending(c), 0)
  BY NewsTypes DEF News!Fetch, News!At, NewsInv, Reader
<1>2. /\ entry' = entry /\ outage' = outage /\ down' = down /\ kept' = kept
      /\ feed' = feed /\ followed' = followed /\ served' = News!NotServed
      /\ reading' = [reading EXCEPT ![r].left = @ \ {f}, ![r].got = @ \cup more]
  BY <1>0 DEF News!Fetch
<1>3. c.left \in SUBSET NewsRows /\ c.got \in SUBSET NewsEvents /\ c.feeds \in SUBSET NewsRows
  BY <1>1 DEF Reads
<1>4. f \in Pending(c)
  BY <1>0 DEF Pending
<1>5. f \in c.feeds /\ f \in NewsRows
  BY <1>1, <1>3, <1>4
<1>6. more \in SUBSET NewsEvents /\ OfThem(more, {f})
  <2>1. CASE f.url \in down
    BY <2>1 DEF OfThem
  <2>2. CASE f.url \notin down
    <3>1. \A e \in News!Entries(f) : /\ e \in NewsEvents /\ e.url = f.url /\ e.id = f.id
      <4>1. \A n \in DOMAIN entry : n \in 1..MaxEvents
        BY NewsTypes, NewsIdle
      <4>2. f.url \in Urls /\ f.id \in 1..MaxFeeds
        BY <1>5 DEF NewsRows
      <4> QED BY <4>1, <4>2 DEF News!Entries, NewsEvents
    <3>2. [url |-> f.url, id |-> f.id] = f
      BY <1>5 DEF NewsRows
    <3> QED BY <2>2, <3>1, <3>2 DEF OfThem
  <2> QED BY <2>1, <2>2
<1>7. /\ q \in Reads /\ q.at = "fetch" /\ q.worker = c.worker /\ q.feeds = c.feeds
      /\ q.left = c.left \ {f} /\ q.got = c.got \cup more
  <2> HIDE DEF more
  <2>1. c.got \cup more \in SUBSET NewsEvents
    BY <1>3, <1>6
  <2> QED BY <1>1, <1>3, <2>1 DEF Reads
<1>8. reading' = [reading EXCEPT ![r] = q]
  <2> HIDE DEF more
  <2> QED BY <1>2, NewsTypes DEF Reads
<1>9. Pending(q) \subseteq Pending(c) /\ Pending(c) \subseteq Pending(q) \cup {f}
  <2> HIDE DEF q, c
  <2> QED BY <1>7 DEF Pending
<1>10. Lately(q.got, q.feeds \ Pending(q), 0)
  <2> SUFFICES ASSUME NEW g \in c.feeds \ Pending(q), NEW n \in DOMAIN entry, entry[n].url = g.url,
                      ~([url |-> g.url, id |-> g.id, entry |-> n] \in q.got)
               PROVE  entry[n].age <= 0 \/ outage[g.url] <= 0
    BY <1>7 DEF Lately
  <2>1. CASE g \in Pending(c)
    <3>1. g = f
      BY <1>9, <2>1
    <3>2. CASE f.url \in down
      BY <3>1, <3>2 DEF NewsInv
    <3>3. CASE f.url \notin down
      <4>1. [url |-> f.url, id |-> f.id, entry |-> n] \in News!Entries(f)
        BY <3>1 DEF News!Entries
      <4> QED BY <1>7, <3>1, <3>3, <4>1
    <3> QED BY <3>2, <3>3
  <2>2. CASE g \notin Pending(c)
    <3>1. ~([url |-> g.url, id |-> g.id, entry |-> n] \in c.got)
      BY <1>7
    <3> QED BY <1>1, <2>2, <3>1 DEF Lately
  <2> QED BY <2>1, <2>2
<1>11. OfThem(q.got, q.feeds)
  <2> HIDE DEF more
  <2> QED BY <1>1, <1>5, <1>6, <1>7 DEF OfThem
<1>12. DOMAIN feed' \subseteq Urls /\ (\A v \in DOMAIN feed' : feed'[v] \in 1..MaxFeeds)
       /\ followed' \in 0..MaxFeeds
  BY <1>2, NewsTypes
<1>13. Pending(q) \subseteq q.feeds
  BY <1>1, <1>7, <1>9
<1> HIDE DEF q, c, Reads
<1>14. Reader(q)
  BY <1>1, <1>7, <1>10, <1>11, <1>13 DEF Reader
<1> QED BY <1>2, <1>7, <1>8, <1>12, <1>14, NewsStep

LEMMA NewsMin == ASSUME NEW a \in Nat, NEW b \in Nat PROVE News!Min({a, b}) = IF a <= b THEN a ELSE b
<1>1. News!Min({a, b}) = CHOOSE x \in {a, b} : \A y \in {a, b} : x <= y
  BY DEF News!Min
<1>2. CASE a <= b
  BY <1>1, <1>2
<1>3. CASE ~(a <= b)
  BY <1>1, <1>3
<1> QED BY <1>2, <1>3

\* What the sites do leaves the caches and the requests: entries grow, and an
\* outage makes a feed miss less.
LEMMA NewsSites ==
  ASSUME NewsInv, feed' = feed, followed' = followed, kept' = kept, reading' = reading,
         served' = News!NotServed, down' \subseteq Urls, outage' \in [Urls -> 0..TTL],
         \A u \in down' : outage'[u] = 0,
         \A u \in Urls : outage'[u] = outage[u] \/ outage'[u] = 0,
         entry' \in Seq([url : Urls, age : 0..TTL]), Len(entry') <= MaxEvents,
         \A n \in DOMAIN entry' : entry'[n].age = 0 \/ (n \in DOMAIN entry /\ entry'[n] = entry[n])
  PROVE  NewsInv'
<1>1. NewsTyped'
  BY NewsTypes, NewsIdle DEF NewsTyped
<1>2. ASSUME NEW E, NEW F \in SUBSET NewsRows, NEW t \in Int, t >= 0, Lately(E, F, t)
      PROVE  \A f \in F : \A n \in DOMAIN entry' : entry'[n].url = f.url =>
               \/ [url |-> f.url, id |-> f.id, entry |-> n] \in E
               \/ entry'[n].age <= t \/ outage'[f.url] <= t
  <2> SUFFICES ASSUME NEW f \in F, NEW n \in DOMAIN entry', entry'[n].url = f.url,
                      ~([url |-> f.url, id |-> f.id, entry |-> n] \in E)
               PROVE  entry'[n].age <= t \/ outage'[f.url] <= t
    OBVIOUS
  <2>1. f.url \in Urls
    BY DEF NewsRows
  <2>2. CASE entry'[n].age = 0 \/ outage'[f.url] = 0
    BY <1>2, <2>2
  <2>3. CASE n \in DOMAIN entry /\ entry'[n] = entry[n] /\ outage'[f.url] = outage[f.url]
    BY <1>2, <2>3 DEF Lately
  <2> QED BY <2>1, <2>2, <2>3
<1>3. \A w \in Workers :
        /\ OfThem(kept[w].events, kept[w].feeds)'
        /\ kept'[w].left > 0 => Lately(kept[w].events, kept[w].feeds, TTL - kept[w].left)'
  <2> TAKE w \in Workers
  <2>1. OfThem(kept[w].events, kept[w].feeds)'
    BY DEF NewsInv, OfThem
  <2>2. kept[w].feeds \in SUBSET NewsRows /\ kept[w].left \in 0..TTL
    BY NewsTypes
  <2>3. TTL - kept[w].left \in Int /\ TTL - kept[w].left >= 0
    BY <2>2, NewsIdle
  <2>4. kept[w].left > 0 => Lately(kept[w].events, kept[w].feeds, TTL - kept[w].left)
    BY DEF NewsInv
  <2>5. kept'[w].left > 0 => Lately(kept[w].events, kept[w].feeds, TTL - kept[w].left)'
    <3> SUFFICES ASSUME kept[w].left > 0 PROVE Lately(kept[w].events, kept[w].feeds, TTL - kept[w].left)'
      OBVIOUS
    <3> QED BY <1>2, <2>2, <2>3, <2>4 DEF Lately
  <2> QED BY <2>1, <2>5
<1>4. \A r \in Requests : Reader(reading[r])'
  <2> TAKE r \in Requests
  <2> DEFINE F == reading[r].feeds \ Pending(reading[r])
             E == reading[r].got
  <2>1. Reader(reading[r]) /\ reading[r] \in Reads
    BY NewsTypes DEF NewsInv
  <2>2. F \in SUBSET NewsRows
    BY <2>1 DEF Reads
  <2>3. reading[r].at = "fetch" => Lately(E, F, 0)
    BY <2>1 DEF Reader
  <2>4. reading[r].at = "fetch" =>
          \A f \in F : \A n \in DOMAIN entry' : entry'[n].url = f.url =>
               \/ [url |-> f.url, id |-> f.id, entry |-> n] \in E
               \/ entry'[n].age <= 0 \/ outage'[f.url] <= 0
    <3> HIDE DEF E, F
    <3>1. 0 \in Int /\ 0 >= 0
      OBVIOUS
    <3> QED BY <1>2, <2>2, <2>3, <3>1
  <2>5. OfThem(reading[r].got, reading[r].feeds)'
    BY <2>1 DEF OfThem, Reader
  <2>6. reading'[r].at = "fetch" =>
          Pending(reading[r])' \subseteq reading'[r].feeds /\ Lately(reading[r].got, reading[r].feeds \ Pending(reading[r]), 0)'
    <3>1. Pending(reading[r])' = Pending(reading[r])
      BY DEF Pending
    <3>2. reading[r].at = "fetch" => Pending(reading[r]) \subseteq reading[r].feeds
      BY <2>1 DEF Reader
    <3> QED BY <2>4, <3>1, <3>2 DEF Lately
  <2> QED BY <2>1, <2>5, <2>6 DEF Reader
<1>5. OfThem(served.events, served.feeds)' /\ Lately(served.events, served.feeds, TTL - 1)'
  BY NewsIdle DEF OfThem, Lately
<1> QED BY <1>1, <1>3, <1>4, <1>5 DEF NewsInv

LEMMA NewsPublish ==
  ASSUME NewsInv, NEW u \in Urls, News!Publish(u)
  PROVE  NewsInv'
<1> DEFINE e == [url |-> u, age |-> 0]
           E == [url : Urls, age : 0..TTL]
<1>1. /\ entry' = Append(entry, e) /\ Len(entry) < MaxEvents
      /\ feed' = feed /\ followed' = followed /\ down' = down /\ outage' = outage /\ kept' = kept
      /\ reading' = reading /\ served' = News!NotServed
  BY DEF News!Publish
<1>2. e \in E /\ e.age = 0 /\ entry \in Seq(E) /\ Len(entry) \in Nat
  BY NewsTypes, NewsIdle
<1>3. /\ entry' \in Seq(E) /\ Len(entry') = Len(entry) + 1
      /\ \A n \in DOMAIN entry' : entry'[n] = e \/ (n \in DOMAIN entry /\ entry'[n] = entry[n])
  <2> HIDE DEF e, E
  <2> QED BY <1>1, <1>2
<1>4. Len(entry') <= MaxEvents
  BY <1>1, <1>2, <1>3, NewsIdle
<1>5. \A n \in DOMAIN entry' : entry'[n].age = 0 \/ (n \in DOMAIN entry /\ entry'[n] = entry[n])
  BY <1>2, <1>3
<1>6. down \subseteq Urls /\ outage \in [Urls -> 0..TTL] /\ \A v \in down : outage[v] = 0
  BY NewsTypes DEF NewsInv
<1> QED BY <1>1, <1>3, <1>4, <1>5, <1>6, NewsSites


LEMMA NewsFail ==
  ASSUME NewsInv, NEW u \in Urls, News!Fail(u)
  PROVE  NewsInv'
<1>1. /\ down' = down \cup {u} /\ outage' = [outage EXCEPT ![u] = 0]
      /\ feed' = feed /\ followed' = followed /\ entry' = entry /\ kept' = kept
      /\ reading' = reading /\ served' = News!NotServed
  BY DEF News!Fail
<1>2. /\ outage \in [Urls -> 0..TTL] /\ down \subseteq Urls /\ 0 \in 0..TTL /\ \A v \in down : outage[v] = 0
      /\ entry \in Seq([url : Urls, age : 0..TTL]) /\ Len(entry) <= MaxEvents
  BY NewsTypes, NewsIdle DEF NewsInv
<1>3. /\ outage' \in [Urls -> 0..TTL] /\ down' \subseteq Urls /\ \A v \in down' : outage'[v] = 0
      /\ \A v \in Urls : outage'[v] = outage[v] \/ outage'[v] = 0
  BY <1>1, <1>2
<1> QED BY <1>1, <1>2, <1>3, NewsSites

LEMMA NewsRecover ==
  ASSUME NewsInv, NEW u \in Urls, News!Recover(u)
  PROVE  NewsInv'
<1>1. /\ down' = down \ {u} /\ outage' = outage
      /\ feed' = feed /\ followed' = followed /\ entry' = entry /\ kept' = kept
      /\ reading' = reading /\ served' = News!NotServed
  BY DEF News!Recover
<1>2. /\ outage \in [Urls -> 0..TTL] /\ down \subseteq Urls /\ \A v \in down : outage[v] = 0
      /\ entry \in Seq([url : Urls, age : 0..TTL]) /\ Len(entry) <= MaxEvents
  BY NewsTypes DEF NewsInv
<1>3. down' \subseteq Urls /\ \A v \in down' : outage'[v] = 0
  BY <1>1, <1>2
<1> QED BY <1>1, <1>2, <1>3, NewsSites

LEMMA NewsTick ==
  ASSUME NewsInv, News!Tick
  PROVE  NewsInv'
<1> DEFINE E == [url : Urls, age : 0..TTL]
           Caches == [feeds : SUBSET NewsRows, events : SUBSET NewsEvents, left : 0..TTL]
<1>1. /\ \A r \in Requests : reading[r].at = "idle"
      /\ outage' = [u \in Urls |-> IF u \in down THEN 0 ELSE News!Min({outage[u] + 1, TTL})]
      /\ entry' = [n \in DOMAIN entry |-> [entry[n] EXCEPT !.age = News!Min({entry[n].age + 1, TTL})]]
      /\ kept' = [w \in Workers |-> News!Older(w)]
      /\ feed' = feed /\ followed' = followed /\ down' = down /\ reading' = reading
      /\ served' = News!NotServed
  BY DEF News!Tick, News!At
<1>2. /\ outage \in [Urls -> 0..TTL] /\ DOMAIN entry = 1..Len(entry) /\ Len(entry) \in Nat
      /\ \A n \in DOMAIN entry : entry[n] \in E
      /\ kept \in [Workers -> Caches] /\ TTL \in Nat /\ TTL > 0
  BY NewsTypes, NewsIdle
<1>3. \A k \in 0..TTL : /\ News!Min({k + 1, TTL}) \in 0..TTL /\ News!Min({k + 1, TTL}) <= k + 1
  <2> TAKE k \in 0..TTL
  <2>1. k + 1 \in Nat
    BY <1>2
  <2>2. News!Min({k + 1, TTL}) = IF k + 1 <= TTL THEN k + 1 ELSE TTL
    BY <1>2, <2>1, NewsMin
  <2> QED BY <1>2, <2>1, <2>2
<1>4. \A n \in DOMAIN entry : /\ entry'[n] \in E /\ entry'[n].url = entry[n].url
                              /\ entry'[n].age <= entry[n].age + 1
  <2> TAKE n \in DOMAIN entry
  <2>1. entry[n] \in E /\ entry[n].age \in 0..TTL
    BY <1>2
  <2>2. entry'[n] = [entry[n] EXCEPT !.age = News!Min({entry[n].age + 1, TTL})]
    BY <1>1
  <2>3. News!Min({entry[n].age + 1, TTL}) \in 0..TTL
        /\ News!Min({entry[n].age + 1, TTL}) <= entry[n].age + 1
    BY <1>3, <2>1
  <2> QED BY <2>1, <2>2, <2>3
<1>5. entry' \in Seq(E) /\ Len(entry') = Len(entry) /\ DOMAIN entry' = DOMAIN entry
  <2>1. entry' \in [1..Len(entry) -> E]
    BY <1>1, <1>2, <1>4
  <2> HIDE DEF E
  <2> QED BY <1>2, <2>1
<1>6. \A u \in Urls : outage'[u] \in 0..TTL /\ outage'[u] <= outage[u] + 1
  <2> TAKE u \in Urls
  <2>1. outage[u] \in 0..TTL
    BY <1>2
  <2>2. outage'[u] = IF u \in down THEN 0 ELSE News!Min({outage[u] + 1, TTL})
    BY <1>1
  <2>3. CASE u \in down
    BY <1>2, <2>1, <2>2, <2>3
  <2>4. CASE u \notin down
    BY <1>3, <2>1, <2>2, <2>4
  <2> QED BY <2>3, <2>4
<1>7. \A w \in Workers :
        /\ kept'[w] \in Caches
        /\ kept'[w] = News!NoCache \/ (/\ kept[w].left > 1 /\ kept'[w].left = kept[w].left - 1
                                       /\ kept'[w].feeds = kept[w].feeds /\ kept'[w].events = kept[w].events)
  <2> TAKE w \in Workers
  <2>1. kept'[w] = IF kept[w].left <= 1 THEN News!NoCache ELSE [kept[w] EXCEPT !.left = kept[w].left - 1]
    BY <1>1 DEF News!Older
  <2>2. kept[w] \in Caches /\ kept[w].left \in 0..TTL
    BY <1>2
  <2>3. CASE kept[w].left <= 1
    BY <2>1, <2>3, NewsIdle
  <2>4. CASE ~(kept[w].left <= 1)
    <3>1. kept[w].left - 1 \in 0..TTL /\ kept[w].left > 1
      BY <1>2, <2>2, <2>4
    <3> QED BY <2>1, <2>2, <2>4, <3>1
  <2> QED BY <2>3, <2>4
<1>8. NewsTyped'
  <2>1. outage' \in [Urls -> 0..TTL]
    BY <1>1, <1>6
  <2>2. kept' \in [Workers -> Caches]
    <3>1. DOMAIN kept' = Workers /\ kept' = [w \in Workers |-> kept'[w]]
      BY <1>1
    <3> HIDE DEF Caches
    <3> QED BY <1>7, <3>1
  <2>3. Len(entry') <= MaxEvents
    BY <1>5, NewsTypes
  <2> QED BY <1>1, <1>5, <2>1, <2>2, <2>3, NewsTypes, NewsIdle DEF NewsTyped
<1>9. \A u \in down' : outage'[u] = 0
  BY <1>1, NewsTypes
<1>10. \A w \in Workers :
         /\ OfThem(kept[w].events, kept[w].feeds)'
         /\ kept'[w].left > 0 => Lately(kept[w].events, kept[w].feeds, TTL - kept[w].left)'
  <2> TAKE w \in Workers
  <2>1. CASE kept'[w] = News!NoCache
    BY <2>1, NewsIdle DEF OfThem
  <2>2. CASE /\ kept[w].left > 1 /\ kept'[w].left = kept[w].left - 1
             /\ kept'[w].feeds = kept[w].feeds /\ kept'[w].events = kept[w].events
    <3>1. OfThem(kept[w].events, kept[w].feeds)'
      BY <2>2 DEF NewsInv, OfThem
    <3>2. kept[w].left \in 0..TTL /\ kept[w].feeds \in SUBSET NewsRows
      BY <1>2
    <3>3. Lately(kept[w].events, kept[w].feeds, TTL - kept[w].left)
      BY <1>2, <2>2, <3>2 DEF NewsInv
    <3>4. Lately(kept[w].events, kept[w].feeds, TTL - kept[w].left)'
      <4> SUFFICES ASSUME NEW f \in kept[w].feeds, NEW n \in DOMAIN entry, entry[n].url = f.url,
                          ~([url |-> f.url, id |-> f.id, entry |-> n] \in kept[w].events)
                   PROVE  entry'[n].age <= TTL - kept'[w].left \/ outage'[f.url] <= TTL - kept'[w].left
        BY <1>4, <1>5, <2>2 DEF Lately
      <4>1. entry[n].age <= TTL - kept[w].left \/ outage[f.url] <= TTL - kept[w].left
        BY <3>3 DEF Lately
      <4>2. f.url \in Urls /\ entry[n].age \in Int /\ entry'[n].age \in Int
        BY <1>2, <1>4, <3>2 DEF NewsRows
      <4>3. outage[f.url] \in Int /\ outage'[f.url] \in Int /\ outage'[f.url] <= outage[f.url] + 1
        BY <1>2, <1>6, <4>2
      <4>4. entry'[n].age <= entry[n].age + 1
        BY <1>4
      <4>5. kept'[w].left = kept[w].left - 1 /\ kept[w].left \in Int
        BY <2>2, <3>2
      <4> QED BY <1>2, <4>1, <4>2, <4>3, <4>4, <4>5
    <3> QED BY <3>1, <3>4
  <2> QED BY <1>7, <2>1, <2>2
<1>11. \A r \in Requests : Reader(reading[r])'
  <2> TAKE r \in Requests
  <2>1. reading[r].at = "idle" /\ Reader(reading[r])
    BY <1>1 DEF NewsInv
  <2> QED BY <1>1, <2>1 DEF Reader, OfThem
<1>12. OfThem(served.events, served.feeds)' /\ Lately(served.events, served.feeds, TTL - 1)'
  BY <1>1, NewsIdle DEF OfThem, Lately
<1> QED BY <1>8, <1>9, <1>10, <1>11, <1>12 DEF NewsInv

LEMMA NewsNext == NewsInv /\ [News!Next]_news => NewsInv'
<1> SUFFICES ASSUME NewsInv, [News!Next]_news PROVE NewsInv'
  OBVIOUS
<1>1. CASE UNCHANGED news
  <2>1. /\ feed' = feed /\ followed' = followed /\ entry' = entry /\ down' = down /\ outage' = outage
        /\ kept' = kept /\ reading' = reading /\ served' = served
    BY <1>1 DEF news
  <2> QED BY <2>1 DEF NewsInv, NewsTyped, Reader, OfThem, Lately, Pending
<1>2. CASE News!Next
  <2>1. \/ \E r \in Requests :
             \/ News!Add(r) \/ News!DropCache(r) \/ News!ReadFeeds(r) \/ News!Look(r)
             \/ News!Fetch(r) \/ News!Keep(r)
             \/ \E w \in Workers :
                  News!Show(r, w) \/ \E u \in Urls : News!BeginAdd(r, w, u) \/ News!Delete(r, w, u)
        \/ \E u \in Urls : News!Publish(u) \/ News!Fail(u) \/ News!Recover(u)
        \/ News!Tick
    BY <1>2 DEF News!Next
  <2> QED BY <2>1, NewsAdd, NewsDropCache, NewsReadFeeds, NewsLook, NewsFetch, NewsKeep, NewsShow,
          NewsBeginAdd, NewsDelete, NewsPublish, NewsFail, NewsRecover, NewsTick
<1> QED BY <1>1, <1>2

\* What the run checks of the feeds.
LEMMA NewsKeeps ==
  ASSUME NewsInv
  PROVE  News!TypeOK /\ News!EventsAreSubscribed /\ News!EventsAreRecent
<1>1. News!TypeOK
  <2>1. News!Rows = NewsRows /\ News!Events = NewsEvents
    BY DEF News!Rows, News!Events, NewsRows, NewsEvents
  <2>2. News!Range(entry) \subseteq [url : Urls, age : 0..TTL]
    BY NewsTypes DEF News!Range
  <2>3. \A w \in Workers : /\ kept[w].events \subseteq NewsEvents /\ kept[w].feeds \subseteq NewsRows
                           /\ kept[w].left \in 0..TTL
    BY NewsTypes
  <2>4. \A r \in Requests : reading[r].feeds \subseteq NewsRows /\ reading[r].got \subseteq NewsEvents
    BY NewsTypes DEF Reads
  <2>5. served.events \subseteq NewsEvents
    BY NewsTypes
  <2> QED BY <2>1, <2>2, <2>3, <2>4, <2>5, NewsTypes DEF News!TypeOK
<1>2. News!EventsAreSubscribed
  BY DEF NewsInv, OfThem, News!EventsAreSubscribed
<1>3. News!EventsAreRecent
  <2> SUFFICES ASSUME NEW f \in served.feeds, NEW n \in DOMAIN entry, entry[n].url = f.url,
                      entry[n].age = TTL, outage[f.url] = TTL
               PROVE  [url |-> f.url, id |-> f.id, entry |-> n] \in served.events
    BY DEF News!EventsAreRecent
  <2>1. ~(TTL <= TTL - 1)
    BY NewsIdle
  <2> QED BY <2>1 DEF NewsInv, Lately
<1> QED BY <1>1, <1>2, <1>3

-----------------------------------------------------------------------------
(* Writing a post (Drafts).                                                 *)

Entries == Writing!Entries
Assets == Writing!Assets
Saves == [kind : Writing!Kinds, page : Pages \cup {Nil}, post : Posts \cup {Nil},
          asset : Assets \cup {Nil}, seen : Seq(Entries), session : Seq(Entries),
          created : Posts \cup {Nil}, done : BOOLEAN]
PageRows == [open : BOOLEAN, edit : BOOLEAN, post : Posts \cup {Nil}, shown : SUBSET Assets]
Attached == UNION {[s -> Writing!Media] : s \in SUBSET Assets}
PostRows == UNION {[s -> Attached] : s \in SUBSET Posts}

\* Clicks that are still to come to the rows.
Calls == {r \in Requests : saving[r].kind \in Writing!Clicks /\ ~saving[r].done}

DraftTyped ==
  /\ session \in Seq(Entries)
  /\ page \in [Pages -> PageRows]
  /\ post \in PostRows
  /\ drawer \subseteq Assets /\ lost \subseteq Assets
  /\ saving \in [Requests -> Saves]
  /\ clock \in Nat /\ clock + Cardinality(Calls) <= MaxClicks /\ overlaps \in 0..MaxOverlaps
  /\ made \in [Pages -> SUBSET Posts] /\ hasty \subseteq Pages

Kind(r) == saving[r].kind
Busy(r) == Kind(r) # "idle"
Adds(r) == Kind(r) \in {"upload", "import", "pend", "attach"}
Drops(r) == Kind(r) \in {"remove", "unpend"}

\* What a page or a request knows of is there.
Tied ==
  /\ \A g \in Pages :
       /\ page[g].post \in DOMAIN post \cup {Nil}
       /\ page[g].edit => page[g].post # Nil
  /\ \A r \in Requests :
       /\ saving[r].post \in DOMAIN post \cup {Nil}
       /\ saving[r].created \in DOMAIN post \cup {Nil}
       /\ Kind(r) \in {"attach", "remove"} => saving[r].post # Nil
       /\ Kind(r) \in {"upload", "import", "pend"} /\ saving[r].post = Nil =>
            ~page[saving[r].page].edit
       /\ Kind(r) = "pend" => saving[r].post = Nil
       /\ Busy(r) => saving[r].page \in Pages
       /\ ~Busy(r) => saving[r] = Writing!Idle
       /\ Kind(r) \in Writing!Clicks => saving[r].asset \in Assets

Uploads(r) == Kind(r) \in {"upload", "import"} /\ ~saving[r].done

\* A file is an asset once it is uploaded, and no one knows of it before.
Attachments == UNION {DOMAIN post[p] : p \in DOMAIN post}
Known == drawer \cup lost
Seen(r) == Writing!Of(saving[r].seen)
Has(r) == Writing!Of(saving[r].session)
Fresh ==
  /\ Writing!Of(session) \subseteq Known /\ Attachments \subseteq Known
  /\ \A g \in Pages : page[g].shown \subseteq Known
  /\ \A r \in Requests :
       /\ Seen(r) \subseteq Known /\ Has(r) \subseteq Known
       /\ Drops(r) => saving[r].asset \in Known
       /\ Adds(r) /\ saving[r].done => saving[r].asset \in Known
       /\ Uploads(r) =>
            /\ saving[r].asset \notin Known
            /\ \A q \in Requests \ {r} : saving[q].asset # saving[r].asset

\* A page that knows of its post, or never saved twice, creates one.
Creating(r, g) == Kind(r) \in Writing!Creates /\ saving[r].page = g /\ saving[r].post = Nil
Once ==
  \A g \in Pages \ hasty :
    /\ made[g] = {} \/ \E p \in Posts : made[g] = {p}
    /\ \A r, q \in Requests : Creating(r, g) /\ Creating(q, g) => r = q
    /\ \A r \in Requests : Creating(r, g) /\ ~saving[r].done => made[g] = {}

\* What is picked waits, is attached, or was lost.
Safe == lost \cup Attachments
Guarded ==
  /\ \A g \in Pages : page[g].shown \subseteq Safe \cup Writing!Of(session)
  /\ \A r \in Requests :
       /\ Seen(r) \subseteq Safe \cup Has(r)
       /\ Adds(r) /\ saving[r].done => saving[r].asset \in Safe \cup Has(r)

\* What waits is in the order of the clicks.
Rising(pending, time) ==
  /\ \A i \in DOMAIN pending : pending[i].at <= time
  /\ \A i, j \in DOMAIN pending : i < j => pending[i].at < pending[j].at

Straight(media, gone) ==
  \A a, b \in DOMAIN media \ gone :
    media[a].by = media[b].by /\ media[a].at < media[b].at => media[a].pos < media[b].pos
Dated(media, time) == \A a \in DOMAIN media : media[a].at <= time

\* What waits and was picked before an attached asset is attached with it.
After(pending, media, gone) ==
  \A a \in DOMAIN media, i \in DOMAIN pending :
    pending[i].by = media[a].by /\ pending[i].at < media[a].at =>
      pending[i].asset \in DOMAIN media \cup gone

NoneBy(g, pending) == \A i \in DOMAIN pending : pending[i].by # g
Attaching(g) == page[g].edit \/ \E r \in Requests : Kind(r) = "attach" /\ saving[r].page = g

InTurn ==
  overlaps = 0 =>
    /\ \A r, q \in Requests : Busy(r) /\ Busy(q) => r = q
    /\ \A r \in Requests : Busy(r) /\ ~saving[r].done => saving[r].session = session
    /\ Rising(session, clock) /\ \A r \in Requests : Rising(saving[r].session, clock)
    /\ \A p \in DOMAIN post :
         /\ Straight(post[p], lost) /\ Dated(post[p], clock) /\ After(session, post[p], lost)
         /\ \A r \in Requests : After(saving[r].session, post[p], lost)
    /\ \A g \in Pages : Attaching(g) =>
         NoneBy(g, session) /\ \A r \in Requests : NoneBy(g, saving[r].session)

DraftInv == DraftTyped /\ Tied /\ Fresh /\ Once /\ Guarded /\ InTurn

LEMMA LeastNatural ==
  ASSUME NEW S \in SUBSET Nat, S # {} PROVE \E m \in S : \A k \in S : m <= k
<1>1. PICK m \in S : \A k \in S : <<k, m>> \notin OpToRel(<, Nat)
  BY NatLessThanWellFounded, WFMin
<1>2. \A k \in S : ~(k < m)
  BY <1>1 DEF OpToRel
<1> QED BY <1>2

\* Of finitely many numbers one is the greatest.
LEMMA GreatestNatural ==
  ASSUME NEW S \in SUBSET Nat, S # {}, IsFiniteSet(S) PROVE \E m \in S : \A k \in S : k <= m
<1> DEFINE Tops(T) == \E m \in T : \A k \in T : k <= m
           Bad == {n \in Nat : \E T \in SUBSET Nat : T # {} /\ IsFiniteSet(T) /\ Cardinality(T) = n /\ ~Tops(T)}
<1>1. CASE Bad = {}
  <2>1. Cardinality(S) \in Nat
    BY FS_CardinalityType
  <2>2. Tops(S)
    BY <1>1, <2>1
  <2> QED BY <2>2
<1>2. CASE Bad # {}
  <2>1. PICK n \in Bad : \A k \in Bad : n <= k
    BY <1>2, LeastNatural
  <2>2. PICK T \in SUBSET Nat : T # {} /\ IsFiniteSet(T) /\ Cardinality(T) = n /\ ~Tops(T)
    BY <2>1
  <2>3. PICK x \in T : TRUE
    BY <2>2
  <2>4. IsFiniteSet(T \ {x}) /\ Cardinality(T \ {x}) = n - 1 /\ n - 1 \in Nat
    <3>1. IsFiniteSet(T \ {x}) /\ Cardinality(T \ {x}) = Cardinality(T) - 1
      BY <2>2, <2>3, FS_RemoveElement
    <3>2. Cardinality(T \ {x}) \in Nat
      BY <3>1, FS_CardinalityType
    <3> QED BY <2>2, <3>1, <3>2
  <2>5. n - 1 \notin Bad
    BY <2>1, <2>4
  <2>6. CASE T \ {x} = {}
    <3>1. \A k \in T : k <= x
      BY <2>3, <2>6
    <3> QED BY <2>2, <2>3, <3>1
  <2>7. CASE T \ {x} # {}
    <3>1. Tops(T \ {x})
      BY <2>4, <2>5, <2>7
    <3>2. PICK m \in T \ {x} : \A k \in T \ {x} : k <= m
      BY <3>1
    <3>3. x \in Nat /\ m \in Nat /\ T \subseteq Nat
      OBVIOUS
    <3>4. CASE x <= m
      <4>1. \A k \in T : k <= m
        BY <3>2, <3>4
      <4> QED BY <2>2, <4>1
    <3>5. CASE ~(x <= m)
      <4>1. \A k \in T : k <= x
        BY <3>2, <3>3, <3>5
      <4> QED BY <2>2, <4>1
    <3> QED BY <3>4, <3>5
  <2> QED BY <2>6, <2>7
<1> QED BY <1>1, <1>2

LEMMA DraftMin ==
  ASSUME NEW S \in SUBSET Nat, S # {}
  PROVE  Writing!Min(S) \in S /\ \A k \in S : Writing!Min(S) <= k
BY LeastNatural DEF Writing!Min

LEMMA DraftMax ==
  ASSUME NEW S \in SUBSET Nat, S # {}, IsFiniteSet(S)
  PROVE  Writing!Max(S) \in S /\ \A k \in S : k <= Writing!Max(S)
<1>1. \E m \in S : \A k \in S : m >= k
  BY GreatestNatural
<1>2. Writing!Max(S) \in S /\ \A k \in S : Writing!Max(S) >= k
  BY <1>1 DEF Writing!Max
<1> QED BY <1>2

LEMMA MediaFacts ==
  ASSUME NEW media \in Attached
  PROVE  /\ DOMAIN media \subseteq Assets /\ media \in [DOMAIN media -> Writing!Media]
         /\ IsFiniteSet(DOMAIN media)
         /\ \A a \in DOMAIN media :
              media[a].pos \in Nat /\ media[a].at \in 1..MaxClicks /\ media[a].by \in Pages
<1>1. DOMAIN media \subseteq Assets /\ media \in [DOMAIN media -> Writing!Media]
  BY DEF Attached
<1>2. IsFiniteSet(DOMAIN media)
  BY <1>1, SetAssumption, FS_Subset DEF Assets, Writing!Assets
<1> QED BY <1>1, <1>2 DEF Writing!Media

LEMMA MaxPositionFacts ==
  ASSUME NEW media \in Attached
  PROVE  /\ Writing!MaxPosition(media) \in Nat
         /\ \A a \in DOMAIN media : media[a].pos <= Writing!MaxPosition(media)
<1> DEFINE S == {media[a].pos : a \in DOMAIN media}
           f == [a \in DOMAIN media |-> media[a].pos]
<1>1. S \subseteq Nat /\ IsFiniteSet(DOMAIN media)
  BY MediaFacts
<1>2. f \in Surjection(DOMAIN media, S)
  BY DEF Surjection
<1>3. IsFiniteSet(S)
  <2> HIDE DEF f, S
  <2> QED BY <1>1, <1>2, FS_Surjection
<1>4. IsFiniteSet(S \cup {0}) /\ S \cup {0} \in SUBSET Nat /\ S \cup {0} # {}
  <2> HIDE DEF S
  <2> QED BY <1>1, <1>3, FS_AddElement
<1>5. Writing!MaxPosition(media) \in S \cup {0} /\ \A k \in S \cup {0} : k <= Writing!MaxPosition(media)
  <2>1. Writing!MaxPosition(media) = Writing!Max(S \cup {0})
    BY DEF Writing!MaxPosition
  <2> HIDE DEF S
  <2> QED BY <1>4, <2>1, DraftMax
<1> QED BY <1>1, <1>5

LEMMA EntryFacts ==
  ASSUME NEW pending \in Seq(Entries)
  PROVE  /\ DOMAIN pending = 1..Len(pending) /\ Len(pending) \in Nat
         /\ \A i \in DOMAIN pending :
              /\ pending[i] \in Entries /\ pending[i].asset \in Assets
              /\ pending[i].at \in 1..MaxClicks /\ pending[i].by \in Pages
         /\ Writing!Of(pending) = {pending[i].asset : i \in DOMAIN pending}
         /\ Writing!Of(pending) \subseteq Assets
<1>1. DOMAIN pending = 1..Len(pending) /\ Len(pending) \in Nat /\ \A i \in DOMAIN pending : pending[i] \in Entries
  BY SeqFacts
<1>2. \A e \in Entries : e.asset \in Assets /\ e.at \in 1..MaxClicks /\ e.by \in Pages
  BY DEF Entries, Writing!Entries, Assets
<1>3. Writing!Of(pending) = {pending[i].asset : i \in DOMAIN pending}
  BY DEF Writing!Of, Writing!Range
<1> QED BY <1>1, <1>2, <1>3

\* What waits goes behind what is attached, in its order.
Moved(media, pending, base, all) ==
  /\ all \in Attached
  /\ DOMAIN media \subseteq DOMAIN all /\ \A a \in DOMAIN media : all[a] = media[a]
  /\ DOMAIN all = DOMAIN media \cup (Writing!Of(pending) \cap (drawer \ Shared))
  /\ \A a \in DOMAIN all \ DOMAIN media : \E i \in DOMAIN pending :
       /\ pending[i].asset = a /\ all[a].at = pending[i].at /\ all[a].by = pending[i].by
       /\ all[a].pos = base + i - 1

LEMMA MigrateFacts ==
  ASSUME NEW media \in Attached, NEW pending \in Seq(Entries), NEW base \in Nat,
         NEW all, all = Writing!Migrate(media, pending, base)
  PROVE  Moved(media, pending, base, all)
<1> DEFINE new == {i \in DOMAIN pending : pending[i].asset \in drawer \ (Shared \cup DOMAIN media)}
           at(a) == {i \in new : pending[i].asset = a}
           first(a) == Writing!Min(at(a))
           dom == DOMAIN media \cup {pending[i].asset : i \in new}
<1>1. all = [a \in dom |-> IF a \in DOMAIN media THEN media[a]
               ELSE [pos |-> base + first(a) - 1, at |-> pending[first(a)].at,
                     by |-> pending[first(a)].by]]
  BY DEF Writing!Migrate
<1>2. new \subseteq DOMAIN pending /\ DOMAIN pending \subseteq Nat \ {0}
  BY EntryFacts
<1>3. ASSUME NEW a \in dom \ DOMAIN media
      PROVE  first(a) \in new /\ pending[first(a)].asset = a
  <2>1. at(a) \in SUBSET Nat /\ at(a) # {}
    BY <1>2, <1>3
  <2>2. first(a) \in at(a)
    <3> HIDE DEF at
    <3> QED BY <2>1, DraftMin
  <2> QED BY <2>2
<1> HIDE DEF first
<1>4. \A a \in DOMAIN media : a \in dom /\ all[a] = media[a]
  BY <1>1
<1>5. ASSUME NEW a \in dom \ DOMAIN media
      PROVE  /\ first(a) \in DOMAIN pending /\ pending[first(a)].asset = a
             /\ all[a].at = pending[first(a)].at /\ all[a].by = pending[first(a)].by
             /\ all[a].pos = base + first(a) - 1 /\ all[a] \in Writing!Media
  <2>1. first(a) \in new /\ pending[first(a)].asset = a
    BY <1>3
  <2>2. first(a) \in Nat \ {0} /\ first(a) \in DOMAIN pending
    BY <1>2, <2>1
  <2>3. pending[first(a)].at \in 1..MaxClicks /\ pending[first(a)].by \in Pages
    BY <2>2, EntryFacts
  <2>4. all[a] = [pos |-> base + first(a) - 1, at |-> pending[first(a)].at,
                  by |-> pending[first(a)].by]
    BY <1>1
  <2>5. base + first(a) - 1 \in Nat
    BY <2>2
  <2> QED BY <2>1, <2>2, <2>3, <2>4, <2>5 DEF Writing!Media
<1>6. dom = DOMAIN media \cup (Writing!Of(pending) \cap (drawer \ Shared))
  BY EntryFacts
<1>7. dom \in SUBSET Assets
  <2>1. DOMAIN media \subseteq Assets /\ Writing!Of(pending) \subseteq Assets
    BY MediaFacts, EntryFacts
  <2> QED BY <1>6, <2>1
<1>8. all \in Attached
  <2>1. \A a \in dom : all[a] \in Writing!Media
    <3>1. \A a \in DOMAIN media : media[a] \in Writing!Media
      BY MediaFacts
    <3> HIDE DEF dom
    <3> QED BY <1>4, <1>5, <3>1
  <2>2. all \in [dom -> Writing!Media]
    <3> DEFINE v(a) == IF a \in DOMAIN media THEN media[a]
               ELSE [pos |-> base + first(a) - 1, at |-> pending[first(a)].at,
                     by |-> pending[first(a)].by]
    <3>1. all = [a \in dom |-> v(a)]
      BY <1>1
    <3> HIDE DEF v, dom
    <3> QED BY <2>1, <3>1
  <2> HIDE DEF dom
  <2> QED BY <1>7, <2>2 DEF Attached
<1>9. DOMAIN all = dom
  BY <1>1
<1>10. \A a \in dom \ DOMAIN media : \E i \in DOMAIN pending :
         /\ pending[i].asset = a /\ all[a].at = pending[i].at /\ all[a].by = pending[i].by
         /\ all[a].pos = base + i - 1
  <2> HIDE DEF dom
  <2> QED BY <1>5
<1> HIDE DEF dom
<1> QED BY <1>4, <1>6, <1>8, <1>9, <1>10 DEF Moved

\* The order of the clicks is kept on the way.
LEMMA MigrateKeeps ==
  ASSUME NEW media \in Attached, NEW pending \in Seq(Entries), NEW base \in Nat, NEW time \in Nat,
         NEW gone, Rising(pending, time), Straight(media, gone), Dated(media, time),
         After(pending, media, gone), \A a \in DOMAIN media : media[a].pos < base,
         NEW all, all = Writing!Migrate(media, pending, base)
  PROVE  Straight(all, gone) /\ Dated(all, time)
<1>1. /\ all \in Attached
      /\ DOMAIN media \subseteq DOMAIN all /\ \A a \in DOMAIN media : all[a] = media[a]
      /\ \A a \in DOMAIN all \ DOMAIN media : \E i \in DOMAIN pending :
           /\ pending[i].asset = a /\ all[a].at = pending[i].at /\ all[a].by = pending[i].by
           /\ all[a].pos = base + i - 1
  <2>1. Moved(media, pending, base, all)
    BY MigrateFacts
  <2> QED BY <2>1 DEF Moved
<1>2. DOMAIN pending \subseteq Nat \ {0} /\ \A i \in DOMAIN pending : pending[i].at \in Nat
  BY EntryFacts
<1>3. \A a \in DOMAIN media : media[a].at \in Nat /\ media[a].pos \in Nat
  BY MediaFacts
<1>4. Dated(all, time)
  BY <1>1 DEF Dated, Rising
<1>5. ASSUME NEW a \in DOMAIN all \ gone, NEW b \in DOMAIN all \ gone,
             all[a].by = all[b].by, all[a].at < all[b].at
      PROVE  all[a].pos < all[b].pos
  <2>1. CASE a \in DOMAIN media /\ b \in DOMAIN media
    BY <1>1, <1>5, <2>1 DEF Straight
  <2>2. CASE a \in DOMAIN media /\ b \notin DOMAIN media
    <3>1. PICK j \in DOMAIN pending : all[b].pos = base + j - 1
      BY <1>1, <2>2
    <3>2. all[a].pos < base /\ j \in Nat \ {0} /\ all[a].pos \in Nat
      BY <1>1, <1>2, <1>3, <2>2
    <3> QED BY <3>1, <3>2
  <2>3. CASE a \notin DOMAIN media /\ b \in DOMAIN media
    <3>1. PICK i \in DOMAIN pending :
            pending[i].asset = a /\ all[a].at = pending[i].at /\ all[a].by = pending[i].by
      BY <1>1, <2>3
    <3>2. pending[i].by = media[b].by /\ pending[i].at < media[b].at
      BY <1>1, <1>5, <2>3, <3>1
    <3>3. a \in DOMAIN media \cup gone
      BY <2>3, <3>1, <3>2 DEF After
    <3> QED BY <2>3, <3>3
  <2>4. CASE a \notin DOMAIN media /\ b \notin DOMAIN media
    <3>1. PICK i \in DOMAIN pending : all[a].at = pending[i].at /\ all[a].pos = base + i - 1
      BY <1>1, <2>4
    <3>2. PICK j \in DOMAIN pending : all[b].at = pending[j].at /\ all[b].pos = base + j - 1
      BY <1>1, <2>4
    <3>3. i \in Nat /\ j \in Nat /\ pending[i].at \in Nat /\ pending[j].at \in Nat
          /\ pending[i].at < pending[j].at
      BY <1>2, <1>5, <3>1, <3>2
    <3>4. i < j
      <4>1. ~(j < i)
        BY <3>3 DEF Rising
      <4>2. i # j
        BY <3>3
      <4> QED BY <3>3, <4>1, <4>2
    <3> QED BY <3>1, <3>2, <3>3, <3>4
  <2> QED BY <2>1, <2>2, <2>3, <2>4
<1> QED BY <1>4, <1>5 DEF Straight

\* An asset is attached behind the others.
Behind(media, e, all) ==
  /\ all \in Attached /\ DOMAIN all = DOMAIN media \cup {e.asset}
  /\ \A a \in DOMAIN media \ {e.asset} : all[a] = media[a]
  /\ all[e.asset].at = e.at /\ all[e.asset].by = e.by
  /\ \A a \in DOMAIN media : media[a].pos < all[e.asset].pos

LEMMA AppendFacts ==
  ASSUME NEW media \in Attached, NEW e \in Entries, NEW all, all = Writing!Append1(media, e)
  PROVE  Behind(media, e, all)
<1> DEFINE top == Writing!MaxPosition(media)
           last == [pos |-> top + 1, at |-> e.at, by |-> e.by]
<1>1. all = [b \in DOMAIN media \cup {e.asset} |-> IF b = e.asset THEN last ELSE media[b]]
  BY DEF Writing!Append1
<1>2. top \in Nat /\ \A a \in DOMAIN media : media[a].pos <= top /\ media[a].pos \in Nat
  BY MaxPositionFacts, MediaFacts
<1> HIDE DEF top
<1>3. e.asset \in Assets /\ e.at \in 1..MaxClicks /\ e.by \in Pages
  BY DEF Entries, Writing!Entries, Assets
<1>4. last \in Writing!Media /\ last.at = e.at /\ last.by = e.by /\ last.pos = top + 1
  BY <1>2, <1>3 DEF Writing!Media
<1> HIDE DEF last
<1>5. all \in Attached
  <2>1. media \in [DOMAIN media -> Writing!Media] /\ DOMAIN media \subseteq Assets
    BY MediaFacts
  <2>2. all \in [DOMAIN media \cup {e.asset} -> Writing!Media]
    BY <1>1, <1>4, <2>1
  <2>3. DOMAIN media \cup {e.asset} \in SUBSET Assets
    BY <1>3, <2>1
  <2> QED BY <2>2, <2>3 DEF Attached
<1>6. /\ DOMAIN all = DOMAIN media \cup {e.asset}
      /\ \A a \in DOMAIN media \ {e.asset} : all[a] = media[a]
      /\ all[e.asset] = last
  BY <1>1
<1>7. \A a \in DOMAIN media : media[a].pos < all[e.asset].pos
  BY <1>2, <1>4, <1>6
<1> QED BY <1>4, <1>5, <1>6, <1>7 DEF Behind

LEMMA AppendKeeps ==
  ASSUME NEW media \in Attached, NEW e \in Entries, NEW gone, NEW time \in Nat,
         e.at = time + 1, e.asset \notin DOMAIN media,
         Straight(media, gone), Dated(media, time), NEW all, all = Writing!Append1(media, e)
  PROVE  Straight(all, gone) /\ Dated(all, time + 1)
<1>1. /\ DOMAIN all = DOMAIN media \cup {e.asset}
      /\ \A a \in DOMAIN media : all[a] = media[a]
      /\ all[e.asset].at = e.at
      /\ \A a \in DOMAIN media : media[a].pos < all[e.asset].pos
  <2>1. Behind(media, e, all)
    BY AppendFacts
  <2> QED BY <2>1 DEF Behind
<1>2. \A a \in DOMAIN media : media[a].at \in Nat /\ media[a].at <= time
  BY MediaFacts DEF Dated
<1>3. Dated(all, time + 1)
  BY <1>1, <1>2 DEF Dated
<1>4. ASSUME NEW a \in DOMAIN all \ gone, NEW b \in DOMAIN all \ gone,
             all[a].by = all[b].by, all[a].at < all[b].at
      PROVE  all[a].pos < all[b].pos
  <2>1. a # e.asset
    <3>1. \A c \in DOMAIN all : all[c].at <= time + 1 /\ all[c].at \in Nat
      BY <1>1, <1>2
    <3> QED BY <1>1, <1>4, <3>1
  <2>2. CASE b = e.asset
    BY <1>1, <2>1, <2>2
  <2>3. CASE b # e.asset
    BY <1>1, <1>4, <2>1, <2>3 DEF Straight
  <2> QED BY <2>2, <2>3
<1> QED BY <1>3, <1>4 DEF Straight

LEMMA DraftIdle ==
  /\ Writing!Idle \in Saves /\ Writing!Idle.kind = "idle" /\ Writing!Idle.session = <<>>
  /\ Writing!Idle.seen = <<>> /\ Writing!Idle.post = Nil /\ Writing!Idle.page = Nil
  /\ Writing!Idle.created = Nil /\ Writing!Idle.asset = Nil /\ Writing!Idle.done = FALSE
  /\ Nil \notin Pages /\ Nil \notin Posts /\ Nil \notin Assets
  /\ "idle" \notin Writing!Clicks /\ "idle" \notin Writing!Creates
  /\ MaxClicks \in Nat /\ MaxOverlaps \in Nat
<1>1. <<>> \in Seq(Entries) /\ "idle" \in Writing!Kinds
  BY DEF Writing!Kinds
<1>2. Writing!Idle \in Saves
  BY <1>1 DEF Writing!Idle, Saves
<1>3. Nil \notin Pages /\ Nil \notin Posts /\ Nil \notin Assets
  BY NoneAssumption DEF Assets, Writing!Assets
<1>4. "idle" \notin Writing!Clicks /\ "idle" \notin Writing!Creates
  BY DEF Writing!Clicks, Writing!Creates
<1> QED BY <1>2, <1>3, <1>4, BoundAssumption DEF Writing!Idle

LEMMA PostFacts ==
  ASSUME NEW rows \in PostRows
  PROVE  /\ DOMAIN rows \subseteq Posts /\ rows \in [DOMAIN rows -> Attached]
         /\ \A p \in DOMAIN rows : rows[p] \in Attached /\ DOMAIN rows[p] \subseteq Assets
<1>1. DOMAIN rows \subseteq Posts /\ rows \in [DOMAIN rows -> Attached]
  BY DEF PostRows
<1>2. \A p \in DOMAIN rows : rows[p] \in Attached
  BY <1>1
<1> QED BY <1>1, <1>2, MediaFacts

LEMMA OfNothing == Writing!Of(<<>>) = {}
BY DEF Writing!Of, Writing!Range

\* What is lost more leaves less to keep in order.
LEMMA MoreLost ==
  ASSUME NEW media, NEW gone, NEW more, gone \subseteq more
  PROVE  /\ Straight(media, gone) => Straight(media, more)
         /\ \A pending : After(pending, media, gone) => After(pending, media, more)
BY DEF Straight, After

LEMMA NothingWaits ==
  ASSUME NEW media, NEW gone, NEW time, NEW g
  PROVE  Rising(<<>>, time) /\ After(<<>>, media, gone) /\ NoneBy(g, <<>>)
<1>1. DOMAIN <<>> = {}
  OBVIOUS
<1> QED BY <1>1 DEF Rising, After, NoneBy

LEMMA Later ==
  ASSUME NEW time \in Nat, NEW later \in Nat, time <= later
  PROVE  /\ \A pending \in Seq(Entries) : Rising(pending, time) => Rising(pending, later)
         /\ \A media \in Attached : Dated(media, time) => Dated(media, later)
<1>1. ASSUME NEW pending \in Seq(Entries), Rising(pending, time) PROVE Rising(pending, later)
  <2>1. \A i \in DOMAIN pending : pending[i].at \in Nat
    BY EntryFacts
  <2> QED BY <1>1, <2>1 DEF Rising
<1>2. ASSUME NEW media \in Attached, Dated(media, time) PROVE Dated(media, later)
  BY <1>2, MediaFacts DEF Dated
<1> QED BY <1>1, <1>2

-----------------------------------------------------------------------------
\* A request does its work on the rows.
Work(r, copy, created) ==
  /\ Busy(r) /\ ~saving[r].done
  /\ saving' = [saving EXCEPT ![r].session = copy, ![r].created = created, ![r].done = TRUE]
  /\ session' = session /\ page' = page /\ overlaps' = overlaps /\ hasty' = hasty

LEMMA WorkRequests ==
  ASSUME saving \in [Requests -> Saves], NEW r \in Requests, NEW copy \in Seq(Entries),
         NEW created \in Posts \cup {Nil}, Work(r, copy, created)
  PROVE  /\ saving' \in [Requests -> Saves]
         /\ \A q \in Requests \ {r} : saving'[q] = saving[q]
         /\ \A q \in Requests :
              /\ saving'[q].kind = saving[q].kind /\ saving'[q].page = saving[q].page
              /\ saving'[q].post = saving[q].post /\ saving'[q].asset = saving[q].asset
              /\ saving'[q].seen = saving[q].seen
         /\ saving'[r].session = copy /\ saving'[r].created = created /\ saving'[r].done = TRUE
<1> DEFINE n == [saving[r] EXCEPT !.session = copy, !.created = created, !.done = TRUE]
<1>1. saving[r] \in Saves
  OBVIOUS
<1>2. /\ n \in Saves /\ n.kind = saving[r].kind /\ n.page = saving[r].page
      /\ n.post = saving[r].post /\ n.asset = saving[r].asset /\ n.seen = saving[r].seen
      /\ n.session = copy /\ n.created = created /\ n.done = TRUE
  BY <1>1 DEF Saves
<1>3. saving' = [saving EXCEPT ![r] = n]
  BY <1>1 DEF Work, Saves
<1> HIDE DEF n, Saves
<1> QED BY <1>2, <1>3

LEMMA WorkTyped ==
  ASSUME DraftTyped, NEW r \in Requests, NEW copy \in Seq(Entries),
         NEW created \in Posts \cup {Nil}, Work(r, copy, created),
         post' \in PostRows, drawer' \subseteq Assets, lost' \subseteq Assets,
         made' \in [Pages -> SUBSET Posts],
         clock' = IF Kind(r) \in Writing!Clicks THEN clock + 1 ELSE clock
  PROVE  DraftTyped'
<1>1. /\ saving' \in [Requests -> Saves]
      /\ \A q \in Requests \ {r} : saving'[q] = saving[q]
      /\ saving'[r].kind = Kind(r) /\ saving'[r].done = TRUE
  BY WorkRequests DEF DraftTyped, Kind
<1>2. Calls' = Calls \ {r} /\ (r \in Calls <=> Kind(r) \in Writing!Clicks)
  BY <1>1 DEF Calls, Work, Kind
<1>3. IsFiniteSet(Calls) /\ Cardinality(Calls) \in Nat
  BY SetAssumption, FS_Subset, FS_CardinalityType DEF Calls
<1>4. Cardinality(Calls') = IF r \in Calls THEN Cardinality(Calls) - 1 ELSE Cardinality(Calls)
  BY <1>2, <1>3, FS_RemoveElement
<1>5. clock' \in Nat /\ clock' + Cardinality(Calls') <= MaxClicks
  BY <1>2, <1>3, <1>4, DraftIdle DEF DraftTyped
<1>6. /\ session' \in Seq(Entries) /\ page' \in [Pages -> PageRows]
      /\ overlaps' \in 0..MaxOverlaps /\ hasty' \subseteq Pages
  BY DEF DraftTyped, Work
<1>7. Cardinality(Calls)' = Cardinality(Calls')
  OBVIOUS
<1> QED BY <1>1, <1>5, <1>6, <1>7 DEF DraftTyped

LEMMA WorkTied ==
  ASSUME DraftTyped, Tied, NEW r \in Requests, NEW copy \in Seq(Entries),
         NEW created \in Posts \cup {Nil}, Work(r, copy, created),
         DOMAIN post \subseteq DOMAIN post', created \in DOMAIN post' \cup {Nil}
  PROVE  Tied'
<1>1. /\ \A q \in Requests \ {r} : saving'[q] = saving[q]
      /\ \A q \in Requests :
           /\ saving'[q].kind = saving[q].kind /\ saving'[q].page = saving[q].page
           /\ saving'[q].post = saving[q].post /\ saving'[q].asset = saving[q].asset
      /\ saving'[r].created = created
  BY WorkRequests DEF DraftTyped
<1>2. page' = page /\ Busy(r)
  BY DEF Work
<1>3. \A g \in Pages :
       /\ page'[g].post \in DOMAIN post' \cup {Nil}
       /\ page'[g].edit => page'[g].post # Nil
  BY <1>2 DEF Tied
<1>4. \A q \in Requests :
       /\ saving'[q].post \in DOMAIN post' \cup {Nil}
       /\ saving'[q].created \in DOMAIN post' \cup {Nil}
       /\ saving'[q].kind \in {"attach", "remove"} => saving'[q].post # Nil
       /\ saving'[q].kind \in {"upload", "import", "pend"} /\ saving'[q].post = Nil =>
            ~page'[saving'[q].page].edit
       /\ saving'[q].kind = "pend" => saving'[q].post = Nil
       /\ saving'[q].kind # "idle" => saving'[q].page \in Pages
       /\ ~(saving'[q].kind # "idle") => saving'[q] = Writing!Idle
       /\ saving'[q].kind \in Writing!Clicks => saving'[q].asset \in Assets
  <2> TAKE q \in Requests
  <2>1. /\ saving[q].post \in DOMAIN post \cup {Nil}
        /\ saving[q].created \in DOMAIN post \cup {Nil}
        /\ saving[q].kind \in {"attach", "remove"} => saving[q].post # Nil
        /\ saving[q].kind \in {"upload", "import", "pend"} /\ saving[q].post = Nil =>
             ~page[saving[q].page].edit
        /\ saving[q].kind = "pend" => saving[q].post = Nil
        /\ saving[q].kind # "idle" => saving[q].page \in Pages
        /\ ~(saving[q].kind # "idle") => saving[q] = Writing!Idle
        /\ saving[q].kind \in Writing!Clicks => saving[q].asset \in Assets
    BY DEF Tied, Kind, Busy
  <2>2. q = r => saving[q].kind # "idle"
    BY <1>2 DEF Busy, Kind
  <2> QED BY <1>1, <1>2, <2>1, <2>2
<1> QED BY <1>3, <1>4 DEF Tied, Kind, Busy

LEMMA WorkFresh ==
  ASSUME DraftTyped, Fresh, NEW r \in Requests, NEW copy \in Seq(Entries),
         NEW created \in Posts \cup {Nil}, Work(r, copy, created),
         Known \subseteq Known', Known' \subseteq Known \cup (IF Uploads(r) THEN {saving[r].asset} ELSE {}),
         Writing!Of(copy) \subseteq Known', Attachments' \subseteq Known',
         Adds(r) => saving[r].asset \in Known'
  PROVE  Fresh'
<1>1. /\ \A q \in Requests \ {r} : saving'[q] = saving[q]
      /\ \A q \in Requests :
           /\ saving'[q].kind = saving[q].kind /\ saving'[q].asset = saving[q].asset
           /\ saving'[q].seen = saving[q].seen
      /\ saving'[r].session = copy /\ saving'[r].done = TRUE
  BY WorkRequests DEF DraftTyped
<1>2. page' = page /\ session' = session
  BY DEF Work
<1>3. \A q \in Requests :
       /\ Seen(q)' \subseteq Known' /\ Has(q)' \subseteq Known'
       /\ Drops(q)' => saving'[q].asset \in Known'
       /\ Adds(q)' /\ saving'[q].done => saving'[q].asset \in Known'
  <2> TAKE q \in Requests
  <2>1. /\ Seen(q) \subseteq Known /\ Has(q) \subseteq Known
        /\ Drops(q) => saving[q].asset \in Known
        /\ Adds(q) /\ saving[q].done => saving[q].asset \in Known
    BY DEF Fresh
  <2>2. Seen(q)' = Seen(q) /\ (Drops(q)' <=> Drops(q)) /\ (Adds(q)' <=> Adds(q))
    BY <1>1 DEF Seen, Drops, Adds, Kind
  <2>3. CASE q = r
    BY <1>1, <2>1, <2>2, <2>3 DEF Has
  <2>4. CASE q # r
    BY <1>1, <2>1, <2>2, <2>4 DEF Has
  <2> QED BY <2>3, <2>4
<1>4. \A q \in Requests : Uploads(q)' =>
            /\ saving'[q].asset \notin Known'
            /\ \A s \in Requests \ {q} : saving'[s].asset # saving'[q].asset
  <2> SUFFICES ASSUME NEW q \in Requests, Uploads(q)'
               PROVE  /\ saving'[q].asset \notin Known'
                      /\ \A s \in Requests \ {q} : saving'[s].asset # saving'[q].asset
    OBVIOUS
  <2>1. q # r /\ Uploads(q)
    BY <1>1 DEF Uploads, Kind
  <2>2. /\ saving[q].asset \notin Known
        /\ \A s \in Requests \ {q} : saving[s].asset # saving[q].asset
    BY <2>1 DEF Fresh
  <2> QED BY <1>1, <2>1, <2>2
<1>5. Writing!Of(session') \subseteq Known' /\ \A g \in Pages : page'[g].shown \subseteq Known'
  BY <1>2 DEF Fresh
<1> QED BY <1>3, <1>4, <1>5 DEF Fresh

LEMMA WorkOnce ==
  ASSUME DraftTyped, Tied, Once, NEW r \in Requests, NEW copy \in Seq(Entries),
         NEW created \in Posts \cup {Nil}, Work(r, copy, created),
         \/ made' = made
         \/ /\ Creating(r, saving[r].page)
            /\ \E p \in Posts : made' = [made EXCEPT ![saving[r].page] = @ \cup {p}]
  PROVE  Once'
<1>1. /\ \A q \in Requests \ {r} : saving'[q] = saving[q]
      /\ \A q \in Requests :
           /\ saving'[q].kind = saving[q].kind /\ saving'[q].page = saving[q].page
           /\ saving'[q].post = saving[q].post
      /\ saving'[r].done = TRUE
  BY WorkRequests DEF DraftTyped
<1>2. hasty' = hasty /\ ~saving[r].done
  BY DEF Work
<1>3. \A q \in Requests, g \in Pages : Creating(q, g)' <=> Creating(q, g)
  BY <1>1 DEF Creating, Kind
<1> SUFFICES ASSUME NEW g \in Pages \ hasty
             PROVE  /\ made'[g] = {} \/ \E p \in Posts : made'[g] = {p}
                    /\ \A q, s \in Requests : Creating(q, g) /\ Creating(s, g) => q = s
                    /\ \A q \in Requests : Creating(q, g) /\ ~saving'[q].done => made'[g] = {}
  BY <1>2, <1>3 DEF Once
<1>4. /\ made[g] = {} \/ \E p \in Posts : made[g] = {p}
      /\ \A q, s \in Requests : Creating(q, g) /\ Creating(s, g) => q = s
      /\ \A q \in Requests : Creating(q, g) /\ ~saving[q].done => made[g] = {}
  BY DEF Once
<1>5. CASE made'[g] = made[g]
  BY <1>1, <1>4, <1>5
<1>6. CASE made'[g] # made[g]
  <2>1. PICK p \in Posts : Creating(r, g) /\ made'[g] = made[g] \cup {p}
    BY <1>6 DEF DraftTyped
  <2>2. made[g] = {}
    BY <1>2, <1>4, <2>1
  <2>3. \A q \in Requests : Creating(q, g) => q = r
    BY <1>4, <2>1
  <2> QED BY <1>1, <1>4, <2>1, <2>2, <2>3
<1> QED BY <1>5, <1>6

LEMMA WorkGuarded ==
  ASSUME DraftTyped, Guarded, NEW r \in Requests, NEW copy \in Seq(Entries),
         NEW created \in Posts \cup {Nil}, Work(r, copy, created),
         Safe \subseteq Safe', Has(r) \subseteq Safe' \cup Writing!Of(copy),
         Adds(r) => saving[r].asset \in Safe' \cup Writing!Of(copy)
  PROVE  Guarded'
<1>1. /\ \A q \in Requests \ {r} : saving'[q] = saving[q]
      /\ \A q \in Requests :
           /\ saving'[q].kind = saving[q].kind /\ saving'[q].asset = saving[q].asset
           /\ saving'[q].seen = saving[q].seen
      /\ saving'[r].session = copy
  BY WorkRequests DEF DraftTyped
<1>2. page' = page /\ session' = session
  BY DEF Work
<1>3. \A q \in Requests :
       /\ Seen(q)' \subseteq Safe' \cup Has(q)'
       /\ Adds(q)' /\ saving'[q].done => saving'[q].asset \in Safe' \cup Has(q)'
  <2> TAKE q \in Requests
  <2>1. /\ Seen(q) \subseteq Safe \cup Has(q)
        /\ Adds(q) /\ saving[q].done => saving[q].asset \in Safe \cup Has(q)
    BY DEF Guarded
  <2>2. Seen(q)' = Seen(q) /\ (Adds(q)' <=> Adds(q))
    BY <1>1 DEF Seen, Adds, Kind
  <2>3. CASE q = r
    <3>1. Has(q)' = Writing!Of(copy)
      BY <1>1, <2>3 DEF Has
    <3> QED BY <1>1, <2>1, <2>2, <2>3, <3>1
  <2>4. CASE q # r
    BY <1>1, <2>1, <2>2, <2>4 DEF Has
  <2> QED BY <2>3, <2>4
<1>4. \A g \in Pages : page'[g].shown \subseteq Safe' \cup Writing!Of(session')
  BY <1>2 DEF Guarded
<1> QED BY <1>3, <1>4 DEF Guarded

LEMMA WorkInTurn ==
  ASSUME DraftTyped, Tied, InTurn, NEW r \in Requests, NEW copy \in Seq(Entries),
         NEW created \in Posts \cup {Nil}, Work(r, copy, created), post' \in PostRows,
         clock' = clock \/ clock' = clock + 1,
         overlaps = 0 =>
           /\ Rising(copy, clock')
           /\ \A i \in DOMAIN copy :
                \/ \E j \in DOMAIN session : copy[i] = session[j]
                \/ /\ copy[i].at = clock + 1 /\ clock' = clock + 1 /\ copy[i].by = saving[r].page
                   /\ saving[r].post = Nil /\ Kind(r) \in {"upload", "import", "pend"}
           /\ \A p \in DOMAIN post' :
                Straight(post'[p], lost') /\ Dated(post'[p], clock') /\ After(session, post'[p], lost')
  PROVE  InTurn'
<1>1. /\ saving' \in [Requests -> Saves]
      /\ \A q \in Requests \ {r} : saving'[q] = saving[q]
      /\ \A q \in Requests : saving'[q].kind = saving[q].kind /\ saving'[q].page = saving[q].page
      /\ saving'[r].session = copy /\ saving'[r].done = TRUE
  BY WorkRequests DEF DraftTyped
<1>2. page' = page /\ session' = session /\ overlaps' = overlaps /\ Busy(r)
  BY DEF Work
<1> SUFFICES ASSUME overlaps = 0
             PROVE  /\ \A s, q \in Requests : Busy(s)' /\ Busy(q)' => s = q
                    /\ \A q \in Requests : Busy(q)' /\ ~saving'[q].done => saving'[q].session = session'
                    /\ Rising(session', clock') /\ \A q \in Requests : Rising(saving'[q].session, clock')
                    /\ \A p \in DOMAIN post' :
                         /\ Straight(post'[p], lost') /\ Dated(post'[p], clock')
                         /\ After(session', post'[p], lost')
                         /\ \A q \in Requests : After(saving'[q].session, post'[p], lost')
                    /\ \A g \in Pages : Attaching(g)' =>
                         NoneBy(g, session') /\ \A q \in Requests : NoneBy(g, saving'[q].session)
  BY <1>2 DEF InTurn, Rising, Straight, Dated, After, NoneBy
<1>3. /\ \A s, q \in Requests : Busy(s) /\ Busy(q) => s = q
      /\ Rising(session, clock)
      /\ \A g \in Pages : Attaching(g) => NoneBy(g, session)
  BY DEF InTurn
<1>4. \A q \in Requests \ {r} : ~Busy(q) /\ saving'[q].session = <<>> /\ saving'[q].kind = "idle"
  BY <1>1, <1>2, <1>3, DraftIdle DEF Tied, Busy, Kind
<1>5. \A s, q \in Requests : Busy(s)' /\ Busy(q)' => s = q
  BY <1>1, <1>3 DEF Busy, Kind
<1>6. Rising(session', clock')
  <2>1. clock \in Nat /\ clock' \in Nat /\ clock <= clock' /\ session \in Seq(Entries)
    BY DEF DraftTyped
  <2> QED BY <1>2, <1>3, <2>1, Later
<1>7. \A q \in Requests : Rising(saving'[q].session, clock')
  BY <1>1, <1>4, NothingWaits
<1>8. ASSUME NEW p \in DOMAIN post', NEW q \in Requests PROVE After(saving'[q].session, post'[p], lost')
  <2>1. CASE q = r
    <3> SUFFICES ASSUME NEW a \in DOMAIN post'[p], NEW i \in DOMAIN copy,
                        copy[i].by = post'[p][a].by /\ copy[i].at < post'[p][a].at
                 PROVE  copy[i].asset \in DOMAIN post'[p] \cup lost'
      BY <1>1, <2>1 DEF After
    <3>1. CASE \E j \in DOMAIN session : copy[i] = session[j]
      BY <3>1, <1>8 DEF After
    <3>2. CASE copy[i].at = clock + 1 /\ clock' = clock + 1
      <4>1. post'[p][a].at <= clock'
        BY <1>8 DEF Dated
      <4>2. post'[p] \in Attached
        BY PostFacts
      <4>3. post'[p][a].at \in Nat /\ clock \in Nat
        BY <4>2, MediaFacts DEF DraftTyped
      <4> QED BY <3>2, <4>1, <4>3
    <3> QED BY <3>1, <3>2
  <2>2. CASE q # r
    BY <1>4, <2>2, NothingWaits
  <2> QED BY <2>1, <2>2
<1>9. ASSUME NEW g \in Pages, Attaching(g)', NEW q \in Requests
      PROVE  NoneBy(g, session') /\ NoneBy(g, saving'[q].session)
  <2>1. Attaching(g)
    BY <1>1, <1>2, <1>9 DEF Attaching, Kind
  <2>2. NoneBy(g, session)
    BY <1>3, <2>1
  <2>3. CASE q = r
    <3> SUFFICES ASSUME NEW i \in DOMAIN copy, copy[i].by = g PROVE FALSE
      BY <1>1, <1>2, <2>2, <2>3 DEF NoneBy
    <3>1. saving[r].page = g /\ saving[r].post = Nil /\ Kind(r) \in {"upload", "import", "pend"}
      BY <2>2 DEF NoneBy
    <3>2. ~page[g].edit
      BY <3>1 DEF Tied
    <3>3. PICK s \in Requests : Kind(s) = "attach" /\ saving[s].page = g
      BY <2>1, <3>2 DEF Attaching
    <3>4. s = r
      BY <1>2, <1>3, <3>3 DEF Busy
    <3> QED BY <3>1, <3>3, <3>4
  <2>4. CASE q # r
    BY <1>2, <1>4, <2>2, <2>4, NothingWaits
  <2> QED BY <2>3, <2>4
<1>10. \A q \in Requests : Busy(q)' /\ ~saving'[q].done => saving'[q].session = session'
  BY <1>1, <1>4 DEF Busy, Kind
<1>11. \A p \in DOMAIN post' : After(session', post'[p], lost')
  BY <1>2
<1> QED BY <1>5, <1>6, <1>7, <1>8, <1>9, <1>10, <1>11

LEMMA CallFacts ==
  ASSUME DraftTyped, NEW r \in Requests
  PROVE  /\ saving[r] \in Saves /\ saving[r].session \in Seq(Entries) /\ saving[r].seen \in Seq(Entries)
         /\ Kind(r) \in Writing!Kinds /\ saving[r].page \in Pages \cup {Nil}
         /\ saving[r].asset \in Assets \cup {Nil} /\ clock \in Nat
         /\ post \in PostRows /\ drawer \subseteq Assets /\ lost \subseteq Assets
         /\ made \in [Pages -> SUBSET Posts] /\ page \in [Pages -> PageRows]
BY DEF DraftTyped, Saves, Kind

LEMMA ClickFacts ==
  ASSUME DraftTyped, Tied, NEW r \in Requests, Kind(r) \in Writing!Clicks, ~saving[r].done
  PROVE  /\ Busy(r) /\ clock \in Nat /\ clock + 1 <= MaxClicks
         /\ saving[r].asset \in Assets /\ saving[r].page \in Pages
         /\ Writing!Picked(r) \in Entries /\ Writing!Picked(r).asset = saving[r].asset
         /\ Writing!Picked(r).at = clock + 1 /\ Writing!Picked(r).by = saving[r].page
<1>1. Busy(r)
  BY DraftIdle DEF Busy
<1>2. r \in Calls /\ IsFiniteSet(Calls)
  BY SetAssumption, FS_Subset DEF Calls, Kind
<1>3. Cardinality(Calls) # 0 /\ Cardinality(Calls) \in Nat
  BY <1>2, FS_EmptySet, FS_CardinalityType
<1>4. clock \in Nat /\ clock + 1 <= MaxClicks
  BY <1>3, DraftIdle DEF DraftTyped
<1>5. saving[r].asset \in Assets /\ saving[r].page \in Pages
  BY <1>1 DEF Tied
<1>6. Writing!Picked(r) = [asset |-> saving[r].asset, at |-> clock + 1, by |-> saving[r].page]
  BY DEF Writing!Picked, Writing!Wanted
<1>7. clock + 1 \in 1..MaxClicks
  BY <1>4, DraftIdle
<1> QED BY <1>1, <1>4, <1>5, <1>6, <1>7 DEF Entries, Writing!Entries, Assets

LEMMA AppendEntry ==
  ASSUME NEW s \in Seq(Entries), NEW e \in Entries
  PROVE  /\ Append(s, e) \in Seq(Entries)
         /\ Writing!Of(Append(s, e)) = Writing!Of(s) \cup {e.asset}
         /\ \A i \in DOMAIN Append(s, e) : Append(s, e)[i] = e \/ \E j \in DOMAIN s : Append(s, e)[i] = s[j]
         /\ \A time \in Nat : Rising(s, time) /\ e.at = time + 1 => Rising(Append(s, e), time + 1)
<1> DEFINE t == Append(s, e)
<1>1. /\ t \in Seq(Entries) /\ Len(s) \in Nat /\ Len(t) = Len(s) + 1 /\ DOMAIN s = 1..Len(s)
      /\ DOMAIN t = 1..Len(t) /\ t[Len(t)] = e /\ \A i \in DOMAIN s : t[i] = s[i]
  <2> HIDE DEF Entries
  <2> QED OBVIOUS
<1> HIDE DEF t
<1>2. \A i \in DOMAIN t : i = Len(t) \/ i \in DOMAIN s
  BY <1>1
<1>3. \A i \in DOMAIN s : i \in DOMAIN t
  BY <1>1
<1>4. Writing!Of(t) = Writing!Of(s) \cup {e.asset}
  <2>1. Writing!Of(t) = {t[i].asset : i \in DOMAIN t} /\ Writing!Of(s) = {s[i].asset : i \in DOMAIN s}
    BY <1>1, EntryFacts
  <2>2. Len(t) \in DOMAIN t
    BY <1>1
  <2> QED BY <1>1, <1>2, <1>3, <2>1, <2>2
<1>5. ASSUME NEW time \in Nat, Rising(s, time), e.at = time + 1
      PROVE  Rising(t, time + 1)
  <2>1. \A i \in DOMAIN s : s[i].at \in Nat /\ s[i].at <= time /\ i < Len(t) /\ i \in Nat
    BY <1>1, <1>5, EntryFacts DEF Rising
  <2>2. \A i, j \in DOMAIN t : i < j => i \in DOMAIN s
    BY <1>1
  <2>3. \A i \in DOMAIN t : t[i].at <= time + 1
    BY <1>1, <1>2, <1>5, <2>1
  <2>4. ASSUME NEW i \in DOMAIN t, NEW j \in DOMAIN t, i < j PROVE t[i].at < t[j].at
    <3>1. i \in DOMAIN s /\ t[i] = s[i]
      BY <1>1, <2>2, <2>4
    <3>2. CASE j = Len(t)
      BY <1>1, <1>5, <2>1, <3>1, <3>2
    <3>3. CASE j # Len(t)
      BY <1>1, <1>2, <1>5, <2>4, <3>1, <3>3 DEF Rising
    <3> QED BY <3>2, <3>3
  <2> QED BY <2>3, <2>4 DEF Rising
<1> QED BY <1>1, <1>2, <1>4, <1>5 DEF t

LEMMA TurnFacts ==
  ASSUME InTurn, overlaps = 0, NEW r \in Requests, Busy(r), ~saving[r].done
  PROVE  /\ saving[r].session = session /\ Rising(session, clock)
         /\ \A p \in DOMAIN post :
              Straight(post[p], lost) /\ Dated(post[p], clock) /\ After(session, post[p], lost)
BY DEF InTurn

\* One more post, or another row of one: the rest stays.
LEMMA PostPut ==
  ASSUME NEW rows \in PostRows, NEW p \in Posts, NEW media \in Attached, NEW new,
         DOMAIN new = DOMAIN rows \cup {p}, new = [q \in DOMAIN new |-> new[q]], new[p] = media,
         \A q \in DOMAIN rows \ {p} : new[q] = rows[q]
  PROVE  new \in PostRows
<1>1. DOMAIN new \in SUBSET Posts
  BY PostFacts
<1>2. \A q \in DOMAIN new : new[q] \in Attached
  BY PostFacts
<1>3. new \in [DOMAIN new -> Attached]
  BY <1>2
<1> QED BY <1>1, <1>3 DEF PostRows

\* What waits, and then the asset, goes to the post.
Joined(media, pending, e, all) ==
  /\ all \in Attached
  /\ DOMAIN all = DOMAIN media \cup (Writing!Of(pending) \cap (drawer \ Shared)) \cup {e.asset}
  /\ \A gone : /\ Rising(pending, clock) /\ e.at = clock + 1
               /\ Straight(media, gone) /\ Dated(media, clock) /\ After(pending, media, gone)
               => Straight(all, gone) /\ Dated(all, clock + 1)

LEMMA AppendMediaFacts ==
  ASSUME DraftTyped, NEW media \in Attached, NEW pending \in Seq(Entries), NEW e \in Entries,
         e.asset \notin DOMAIN media, e.asset \notin drawer,
         NEW all, all = Writing!AppendMedia(media, pending, e)
  PROVE  Joined(media, pending, e, all)
<1> DEFINE mid == Writing!Migrate(media, pending, Writing!MaxPosition(media) + 1)
<1>1. all = Writing!Append1(mid, e)
  BY DEF Writing!AppendMedia
<1>2. /\ Writing!MaxPosition(media) + 1 \in Nat
      /\ \A a \in DOMAIN media : media[a].pos < Writing!MaxPosition(media) + 1
  <2>1. \A a \in DOMAIN media : media[a].pos \in Nat
    BY MediaFacts
  <2> QED BY <2>1, MaxPositionFacts
<1>3. Moved(media, pending, Writing!MaxPosition(media) + 1, mid)
  BY <1>2, MigrateFacts
<1>4. \A gone : /\ Rising(pending, clock)
                /\ Straight(media, gone) /\ Dated(media, clock) /\ After(pending, media, gone)
                => Straight(mid, gone) /\ Dated(mid, clock)
  <2>1. clock \in Nat
    BY DEF DraftTyped
  <2> SUFFICES ASSUME NEW gone, Rising(pending, clock), Straight(media, gone), Dated(media, clock),
                      After(pending, media, gone)
               PROVE  Straight(mid, gone) /\ Dated(mid, clock)
    OBVIOUS
  <2> QED BY <1>2, <2>1, MigrateKeeps
<1> HIDE DEF mid
<1>5. mid \in Attached /\ DOMAIN mid = DOMAIN media \cup (Writing!Of(pending) \cap (drawer \ Shared))
  BY <1>3 DEF Moved
<1>6. Behind(mid, e, all)
  BY <1>1, <1>5, AppendFacts
<1>7. all \in Attached /\ DOMAIN all = DOMAIN mid \cup {e.asset}
  BY <1>6 DEF Behind
<1>8. e.asset \notin DOMAIN mid
  BY <1>5
<1>9. ASSUME NEW gone, Rising(pending, clock), e.at = clock + 1, Straight(media, gone),
             Dated(media, clock), After(pending, media, gone)
      PROVE  Straight(all, gone) /\ Dated(all, clock + 1)
  <2>1. Straight(mid, gone) /\ Dated(mid, clock) /\ clock \in Nat
    BY <1>4, <1>9 DEF DraftTyped
  <2> QED BY <1>1, <1>5, <1>8, <1>9, <2>1, AppendKeeps
<1> QED BY <1>5, <1>7, <1>9 DEF Joined

\* What the six parts ask of a request's work.
LEMMA WorkKeeps ==
  ASSUME DraftInv, NEW r \in Requests, NEW copy \in Seq(Entries), NEW created \in Posts \cup {Nil},
         Work(r, copy, created),
         post' \in PostRows, drawer' \subseteq Assets, lost' \subseteq Assets,
         clock' = IF Kind(r) \in Writing!Clicks THEN clock + 1 ELSE clock,
         DOMAIN post \subseteq DOMAIN post', created \in DOMAIN post' \cup {Nil},
         \/ made' = made
         \/ /\ Creating(r, saving[r].page)
            /\ \E p \in Posts : made' = [made EXCEPT ![saving[r].page] = @ \cup {p}],
         Known \subseteq Known', Known' \subseteq Known \cup (IF Uploads(r) THEN {saving[r].asset} ELSE {}),
         Writing!Of(copy) \subseteq Known', Attachments' \subseteq Known',
         Adds(r) => saving[r].asset \in Known',
         Safe \subseteq Safe', Has(r) \subseteq Safe' \cup Writing!Of(copy),
         Adds(r) => saving[r].asset \in Safe' \cup Writing!Of(copy),
         overlaps = 0 =>
           /\ Rising(copy, clock')
           /\ \A i \in DOMAIN copy :
                \/ \E j \in DOMAIN session : copy[i] = session[j]
                \/ /\ copy[i].at = clock + 1 /\ clock' = clock + 1 /\ copy[i].by = saving[r].page
                   /\ saving[r].post = Nil /\ Kind(r) \in {"upload", "import", "pend"}
           /\ \A p \in DOMAIN post' :
                Straight(post'[p], lost') /\ Dated(post'[p], clock') /\ After(session, post'[p], lost')
  PROVE  DraftInv'
<1>1. DraftTyped /\ Tied /\ Fresh /\ Once /\ Guarded /\ InTurn
  BY DEF DraftInv
<1>2. made' \in [Pages -> SUBSET Posts]
  <2>1. made \in [Pages -> SUBSET Posts]
    BY <1>1, CallFacts
  <2> QED BY <2>1
<1>3. DraftTyped'
  BY <1>1, <1>2, WorkTyped
<1>4. Tied'
  BY <1>1, WorkTied
<1>5. Fresh'
  BY <1>1, WorkFresh
<1>6. Once'
  BY <1>1, WorkOnce
<1>7. Guarded'
  BY <1>1, WorkGuarded
<1>8. InTurn'
  BY <1>1, WorkInTurn
<1> QED BY <1>3, <1>4, <1>5, <1>6, <1>7, <1>8 DEF DraftInv

LEMMA Worked ==
  ASSUME NEW r, NEW copy, NEW created, Writing!Worked(r, copy, created), Busy(r), ~saving[r].done,
         session' = session, page' = page, overlaps' = overlaps, hasty' = hasty
  PROVE  Work(r, copy, created)
BY DEF Writing!Worked, Work

LEMMA KindFacts ==
  /\ {"upload", "import", "pend", "attach", "remove", "unpend"} = Writing!Clicks
  /\ {"autosave", "save", "submit"} = Writing!Creates
BY DEF Writing!Clicks, Writing!Creates

\* An upload, or a photo: to the post there is, or to what waits.
LEMMA DraftAdd ==
  ASSUME DraftInv, NEW r \in Requests, Kind(r) \in {"upload", "import"}, ~saving[r].done,
         Writing!Add(r)
  PROVE  DraftInv'
<1> DEFINE f == saving[r].asset
           e == Writing!Picked(r)
           mine == saving[r].session
           p == saving[r].post
<1>1. DraftTyped /\ Tied /\ Fresh /\ Guarded /\ InTurn
  BY DEF DraftInv
<1>2. /\ Busy(r) /\ clock \in Nat /\ f \in Assets /\ e \in Entries /\ e.asset = f
      /\ e.at = clock + 1 /\ e.by = saving[r].page /\ Kind(r) \in Writing!Clicks
  BY <1>1, KindFacts, ClickFacts
<1>3. Uploads(r) /\ f \notin Known /\ mine \in Seq(Entries) /\ Writing!Of(mine) \subseteq Known
  BY <1>1, CallFacts DEF Uploads, Fresh, Has
<1>4. /\ drawer' = drawer \cup {f} /\ clock' = clock + 1 /\ session' = session /\ page' = page
      /\ overlaps' = overlaps /\ made' = made /\ hasty' = hasty
  BY DEF Writing!Add, Writing!Wanted
<1>5. post \in PostRows /\ drawer \subseteq Assets /\ lost \subseteq Assets /\ p \in DOMAIN post \cup {Nil}
  BY <1>1, CallFacts DEF Tied
<1>6. Attachments \subseteq Known
  BY <1>1 DEF Fresh
<1>7. CASE p = Nil
  <2> DEFINE copy == Append(mine, e)
  <2>1. post' = post /\ lost' = lost /\ Writing!Worked(r, copy, Nil)
    BY <1>7 DEF Writing!Add, Writing!Target, Writing!Mine
  <2>2. Work(r, copy, Nil)
    BY <1>2, <1>4, <2>1, Worked
  <2>3. /\ copy \in Seq(Entries) /\ Writing!Of(copy) = Writing!Of(mine) \cup {f}
        /\ \A i \in DOMAIN copy : copy[i] = e \/ \E j \in DOMAIN mine : copy[i] = mine[j]
        /\ \A time \in Nat : Rising(mine, time) /\ e.at = time + 1 => Rising(copy, time + 1)
    BY <1>2, <1>3, AppendEntry
  <2> HIDE DEF copy, e, mine
  <2>4. Known' = Known \cup {f} /\ Attachments' = Attachments /\ Safe' = Safe
    BY <1>4, <2>1 DEF Known, Attachments, Safe
  <2>5. ASSUME overlaps = 0
        PROVE  /\ Rising(copy, clock')
               /\ \A i \in DOMAIN copy :
                    \/ \E j \in DOMAIN session : copy[i] = session[j]
                    \/ /\ copy[i].at = clock + 1 /\ clock' = clock + 1 /\ copy[i].by = saving[r].page
                       /\ saving[r].post = Nil /\ Kind(r) \in {"upload", "import", "pend"}
               /\ \A q \in DOMAIN post' :
                    Straight(post'[q], lost') /\ Dated(post'[q], clock') /\ After(session, post'[q], lost')
    <3>1. /\ mine = session /\ Rising(session, clock)
          /\ \A q \in DOMAIN post :
               Straight(post[q], lost) /\ Dated(post[q], clock) /\ After(session, post[q], lost)
      BY <1>1, <1>2, <2>5, TurnFacts DEF mine
    <3>2. \A q \in DOMAIN post : post[q] \in Attached
      BY <1>5, PostFacts
    <3>3. \A q \in DOMAIN post : Dated(post[q], clock')
      BY <1>2, <1>4, <3>1, <3>2, Later
    <3>4. Rising(copy, clock')
      BY <1>2, <1>4, <2>3, <3>1
    <3> QED BY <1>2, <1>4, <1>7, <2>1, <2>3, <3>1, <3>3, <3>4
  <2>6. Has(r) \subseteq Writing!Of(copy)
    BY <2>3 DEF Has, mine
  <2> QED
    BY <1>2, <1>3, <1>4, <1>5, <1>6, <2>1, <2>2, <2>3, <2>4, <2>5, <2>6, WorkKeeps
<1>8. CASE p # Nil
  <2> DEFINE media == post[p]
             all == Writing!AppendMedia(media, mine, e)
  <2>1. /\ post' = [post EXCEPT ![p] = all] /\ Writing!Worked(r, <<>>, Nil)
        /\ lost' = lost \cup (Writing!Of(mine) \cap Shared)
    BY <1>8 DEF Writing!Add, Writing!Target, Writing!Mine
  <2>2. Work(r, <<>>, Nil)
    BY <1>2, <1>4, <2>1, Worked
  <2>3. p \in DOMAIN post /\ media \in Attached /\ DOMAIN media \subseteq Attachments
    BY <1>5, <1>8, PostFacts DEF Attachments
  <2>4. f \notin DOMAIN media /\ f \notin drawer
    BY <1>3, <1>6, <2>3 DEF Known
  <2>5. /\ all \in Attached
        /\ DOMAIN all = DOMAIN media \cup (Writing!Of(mine) \cap (drawer \ Shared)) \cup {f}
        /\ \A gone : /\ Rising(mine, clock) /\ e.at = clock + 1
                     /\ Straight(media, gone) /\ Dated(media, clock) /\ After(mine, media, gone)
                     => Straight(all, gone) /\ Dated(all, clock + 1)
    <3>1. Joined(media, mine, e, all)
      <4> HIDE DEF media, mine, e
      <4> QED BY <1>1, <1>2, <1>3, <2>3, <2>4, AppendMediaFacts
    <3>2. e.asset = f
      BY <1>2
    <3> HIDE DEF all, media, mine, e, f
    <3> QED BY <3>1, <3>2 DEF Joined
  <2> HIDE DEF all, e, mine
  <2>6. /\ DOMAIN post' = DOMAIN post /\ post'[p] = all /\ post' = [q \in DOMAIN post' |-> post'[q]]
        /\ \A q \in DOMAIN post \ {p} : post'[q] = post[q]
    BY <2>1, <2>3
  <2>7. post' \in PostRows
    <3>1. p \in Posts /\ DOMAIN post' = DOMAIN post \cup {p}
      BY <1>5, <2>3, <2>6, PostFacts
    <3> QED BY <1>5, <2>5, <2>6, <3>1, PostPut
  <2>8. lost' \subseteq Assets /\ lost \subseteq lost'
    BY <1>3, <1>5, <2>1, EntryFacts
  <2>9. Attachments' \subseteq Attachments \cup Writing!Of(mine) \cup {f}
        /\ Attachments \subseteq Attachments' /\ DOMAIN all \subseteq Attachments'
    BY <2>3, <2>5, <2>6 DEF Attachments
  <2>10. Known' = Known \cup {f}
    <3>1. Writing!Of(mine) \cap Shared \subseteq Known
      BY <1>3
    <3> QED BY <1>4, <2>1, <3>1 DEF Known
  <2>11. Has(r) \subseteq Safe' /\ f \in Safe' /\ Safe \subseteq Safe'
    <3>1. \A x \in Writing!Of(mine) : x \in lost' \/ x \in DOMAIN all
      BY <1>3, <2>1, <2>5 DEF Known
    <3>2. Has(r) = Writing!Of(mine)
      BY DEF Has, mine
    <3> QED BY <2>5, <2>8, <2>9, <3>1, <3>2 DEF Safe
  <2>12. ASSUME overlaps = 0
         PROVE  \A q \in DOMAIN post' :
                    Straight(post'[q], lost') /\ Dated(post'[q], clock') /\ After(session, post'[q], lost')
    <3>1. /\ mine = session /\ Rising(session, clock)
          /\ \A q \in DOMAIN post :
               Straight(post[q], lost) /\ Dated(post[q], clock) /\ After(session, post[q], lost)
      BY <1>1, <1>2, <2>12, TurnFacts DEF mine
    <3>2. \A q \in DOMAIN post : /\ post[q] \in Attached
                                 /\ Straight(post[q], lost') /\ After(session, post[q], lost')
      BY <1>5, <2>8, <3>1, PostFacts, MoreLost
    <3>3. \A q \in DOMAIN post : Dated(post[q], clock')
      BY <1>2, <1>4, <3>1, <3>2, Later
    <3>4. Straight(all, lost') /\ Dated(all, clock')
      <4>1. Straight(media, lost') /\ Dated(media, clock) /\ After(mine, media, lost')
        BY <2>3, <3>1, <3>2
      <4> QED BY <1>2, <1>4, <2>5, <3>1, <4>1
    <3>5. After(session, all, lost')
      <4>1. \A i \in DOMAIN mine : mine[i].asset \in Writing!Of(mine)
        BY <1>3, EntryFacts
      <4>2. \A x \in Writing!Of(mine) : x \in lost' \/ x \in DOMAIN all
        BY <1>3, <2>1, <2>5 DEF Known
      <4> QED BY <3>1, <4>1, <4>2 DEF After
    <3> QED BY <2>6, <3>2, <3>3, <3>4, <3>5
  <2>13. /\ <<>> \in Seq(Entries) /\ Nil \in Posts \cup {Nil} /\ Writing!Of(<<>>) = {}
         /\ Rising(<<>>, clock') /\ DOMAIN <<>> = {}
    BY OfNothing, NothingWaits
  <2>14. Attachments' \subseteq Known'
    BY <1>3, <1>6, <2>9, <2>10
  <2>15. /\ DOMAIN post \subseteq DOMAIN post' /\ Nil \in DOMAIN post' \cup {Nil}
         /\ drawer' \subseteq Assets
    BY <1>2, <1>4, <1>5, <2>6
  <2>16. ASSUME overlaps = 0
         PROVE /\ Rising(<<>>, clock')
               /\ \A i \in DOMAIN <<>> :
                    \/ \E j \in DOMAIN session : <<>>[i] = session[j]
                    \/ /\ <<>>[i].at = clock + 1 /\ clock' = clock + 1 /\ <<>>[i].by = saving[r].page
                       /\ saving[r].post = Nil /\ Kind(r) \in {"upload", "import", "pend"}
               /\ \A q \in DOMAIN post' :
                    Straight(post'[q], lost') /\ Dated(post'[q], clock') /\ After(session, post'[q], lost')
    BY <2>12, <2>13, <2>16
  <2> QED
    BY <1>2, <1>3, <1>4, <2>2, <2>7, <2>8, <2>10, <2>11, <2>13, <2>14, <2>15, <2>16, WorkKeeps
<1> QED BY <1>7, <1>8

\* What leaves the posts, or the library, is lost.
Cut(media, all, gone) ==
  /\ all \in Attached /\ DOMAIN all \subseteq DOMAIN media /\ DOMAIN media \ DOMAIN all \subseteq gone
  /\ \A a \in DOMAIN all : all[a] = media[a]

LEMMA RestrictFacts ==
  ASSUME NEW media \in Attached, NEW gone, NEW all, all = Writing!Without(media, gone)
  PROVE  Cut(media, all, gone)
<1>1. all = [a \in DOMAIN media \ gone |-> media[a]]
  BY DEF Writing!Without, Writing!Restrict
<1>2. DOMAIN media \ gone \in SUBSET Assets /\ media \in [DOMAIN media -> Writing!Media]
  BY MediaFacts
<1>3. all \in [DOMAIN media \ gone -> Writing!Media]
  BY <1>1, <1>2
<1> QED BY <1>1, <1>2, <1>3 DEF Attached, Cut

LEMMA CutKeeps ==
  ASSUME NEW media \in Attached, NEW gone, NEW all, Cut(media, all, gone),
         NEW time \in Nat, NEW later \in Nat, time <= later
  PROVE  /\ Straight(media, gone) => Straight(all, gone)
         /\ Dated(media, time) => Dated(all, later)
         /\ \A pending : After(pending, media, gone) => After(pending, all, gone)
<1>1. /\ DOMAIN all \subseteq DOMAIN media /\ DOMAIN media \ DOMAIN all \subseteq gone
      /\ \A a \in DOMAIN all : all[a] = media[a]
  BY DEF Cut
<1>2. Straight(media, gone) => Straight(all, gone)
  BY <1>1 DEF Straight
<1>3. Dated(media, time) => Dated(all, later)
  BY <1>1, MediaFacts DEF Dated
<1>4. ASSUME NEW pending, After(pending, media, gone) PROVE After(pending, all, gone)
  BY <1>1, <1>4 DEF After
<1> QED BY <1>2, <1>3, <1>4

\* A click that takes something out: the posts lose what is lost.
Loses(r, copy) ==
  /\ Kind(r) \in {"remove", "unpend"} /\ ~saving[r].done /\ Work(r, copy, Nil)
  /\ Writing!Of(copy) \subseteq Has(r) /\ Has(r) \subseteq Writing!Of(copy) \cup {saving[r].asset}
  /\ Rising(saving[r].session, clock) => Rising(copy, clock)
  /\ \A i \in DOMAIN copy : \E j \in DOMAIN saving[r].session : copy[i] = saving[r].session[j]
  /\ drawer' \subseteq drawer /\ drawer \subseteq drawer' \cup {saving[r].asset}
  /\ lost' = lost \cup {saving[r].asset} /\ clock' = clock + 1 /\ made' = made
  /\ DOMAIN post' = DOMAIN post /\ post' = [p \in DOMAIN post |-> post'[p]]
  /\ \A p \in DOMAIN post : Cut(post[p], post'[p], {saving[r].asset})

LEMMA WorkLoses ==
  ASSUME DraftInv, NEW r \in Requests, NEW copy \in Seq(Entries), Loses(r, copy)
  PROVE  DraftInv'
<1> DEFINE a == saving[r].asset
           mine == saving[r].session
<1>0. /\ Kind(r) \in {"remove", "unpend"} /\ ~saving[r].done /\ Work(r, copy, Nil)
      /\ Writing!Of(copy) \subseteq Has(r) /\ Has(r) \subseteq Writing!Of(copy) \cup {a}
      /\ Rising(mine, clock) => Rising(copy, clock)
      /\ \A i \in DOMAIN copy : \E j \in DOMAIN mine : copy[i] = mine[j]
      /\ drawer' \subseteq drawer /\ drawer \subseteq drawer' \cup {a}
      /\ lost' = lost \cup {a} /\ clock' = clock + 1 /\ made' = made
      /\ DOMAIN post' = DOMAIN post /\ post' = [p \in DOMAIN post |-> post'[p]]
      /\ \A p \in DOMAIN post : Cut(post[p], post'[p], {a})
  BY DEF Loses
<1>1. DraftTyped /\ Tied /\ Fresh /\ Guarded /\ InTurn
  BY DEF DraftInv
<1>2. /\ Busy(r) /\ clock \in Nat /\ a \in Assets /\ Kind(r) \in Writing!Clicks /\ a \in Known
      /\ ~Adds(r) /\ ~Uploads(r)
  <2>1. Kind(r) \in Writing!Clicks
    BY <1>0, KindFacts
  <2>2. a \in Known
    BY <1>0, <1>1 DEF Fresh, Drops
  <2> QED BY <1>0, <1>1, <2>1, <2>2, ClickFacts DEF Adds, Uploads
<1>3. post \in PostRows /\ drawer \subseteq Assets /\ lost \subseteq Assets
      /\ Attachments \subseteq Known /\ Has(r) \subseteq Known /\ mine \in Seq(Entries)
  BY <1>0, <1>1, CallFacts DEF Fresh
<1>4. \A p \in DOMAIN post : post[p] \in Attached /\ Cut(post[p], post'[p], {a})
  BY <1>0, <1>3, PostFacts
<1>5. post' \in PostRows
  <2>1. post' \in [DOMAIN post -> Attached]
    <3>1. \A p \in DOMAIN post : post'[p] \in Attached
      BY <1>0, <1>4 DEF Cut
    <3> QED BY <1>0, <3>1
  <2>2. DOMAIN post \in SUBSET Posts
    BY <1>0, <1>3, PostFacts
  <2> QED BY <1>0, <2>1, <2>2 DEF PostRows
<1>6. lost \subseteq lost' /\ a \in lost' /\ lost' \subseteq Assets /\ drawer' \subseteq Assets
  BY <1>0, <1>2, <1>3
<1>7. Attachments' \subseteq Attachments /\ Attachments \subseteq Attachments' \cup {a}
  <2>1. \A p \in DOMAIN post : /\ DOMAIN post'[p] \subseteq DOMAIN post[p]
                               /\ DOMAIN post[p] \ DOMAIN post'[p] \subseteq {a}
    BY <1>0, <1>4 DEF Cut
  <2> QED BY <1>0, <2>1 DEF Attachments
<1>8. Known' = Known
  BY <1>0, <1>2 DEF Known
<1>9. Safe \subseteq Safe'
  BY <1>0, <1>6, <1>7 DEF Safe
<1>10. ASSUME overlaps = 0
       PROVE  /\ Rising(copy, clock')
              /\ \A i \in DOMAIN copy :
                   \/ \E j \in DOMAIN session : copy[i] = session[j]
                   \/ /\ copy[i].at = clock + 1 /\ clock' = clock + 1 /\ copy[i].by = saving[r].page
                      /\ saving[r].post = Nil /\ Kind(r) \in {"upload", "import", "pend"}
              /\ \A p \in DOMAIN post' :
                   Straight(post'[p], lost') /\ Dated(post'[p], clock') /\ After(session, post'[p], lost')
  <2>1. /\ mine = session /\ Rising(session, clock)
        /\ \A p \in DOMAIN post :
             Straight(post[p], lost) /\ Dated(post[p], clock) /\ After(session, post[p], lost)
    BY <1>0, <1>1, <1>2, <1>10, TurnFacts
  <2>2. Rising(copy, clock')
    <3>1. Rising(copy, clock)
      BY <1>0, <2>1
    <3>2. clock' \in Nat /\ clock <= clock'
      BY <1>0, <1>2
    <3> QED BY <1>0, <1>2, <3>1, <3>2, Later
  <2>3. ASSUME NEW p \in DOMAIN post
        PROVE  Straight(post'[p], lost') /\ Dated(post'[p], clock') /\ After(session, post'[p], lost')
    <3>1. clock' \in Nat /\ clock <= clock' /\ post[p] \in Attached /\ Cut(post[p], post'[p], lost')
      BY <1>0, <1>2, <1>4, <1>6 DEF Cut
    <3>2. Straight(post[p], lost') /\ Dated(post[p], clock) /\ After(session, post[p], lost')
      <4>1. Straight(post[p], lost) /\ Dated(post[p], clock) /\ After(session, post[p], lost)
        BY <2>1
      <4>2. lost \subseteq lost'
        BY <1>6
      <4> QED BY <4>1, <4>2, MoreLost
    <3> QED BY <1>0, <1>2, <3>1, <3>2, CutKeeps
  <2> QED BY <1>0, <2>1, <2>2, <2>3
<1>11. /\ Writing!Of(copy) \subseteq Known' /\ Attachments' \subseteq Known'
       /\ Has(r) \subseteq Safe' \cup Writing!Of(copy)
  BY <1>0, <1>3, <1>6, <1>7, <1>8 DEF Safe
<1> QED BY <1>0, <1>2, <1>5, <1>6, <1>8, <1>9, <1>10, <1>11, WorkKeeps

LEMMA DraftRemove ==
  ASSUME DraftInv, NEW r \in Requests, Writing!RemoveMedia(r)
  PROVE  DraftInv'
<1> DEFINE a == saving[r].asset
           mine == saving[r].session
           p == saving[r].post
<1>1. DraftTyped /\ Tied
  BY DEF DraftInv
<1>2. /\ Kind(r) = "remove" /\ ~saving[r].done /\ Busy(r)
      /\ clock' = clock + 1 /\ lost' = lost \cup {a} /\ drawer' = drawer /\ made' = made
      /\ post' = [post EXCEPT ![p] = Writing!Without(@, {a})] /\ Writing!Worked(r, mine, Nil)
      /\ session' = session /\ page' = page /\ overlaps' = overlaps /\ hasty' = hasty
  BY DEF Writing!RemoveMedia, Writing!At, Kind, Busy, Writing!Target, Writing!Wanted, Writing!Mine
<1>3. Work(r, mine, Nil)
  BY <1>2, Worked
<1>4. p \in DOMAIN post /\ mine \in Seq(Entries) /\ post \in PostRows
  BY <1>1, <1>2, CallFacts DEF Tied
<1>5. /\ DOMAIN post' = DOMAIN post /\ post' = [q \in DOMAIN post |-> post'[q]]
      /\ \A q \in DOMAIN post : post'[q] = post[q] \/ post'[q] = Writing!Without(post[q], {a})
  BY <1>2, <1>4
<1>6. Writing!Of(mine) = Has(r)
  BY DEF Has
<1>7. \A q \in DOMAIN post : Cut(post[q], post'[q], {a})
  <2> TAKE q \in DOMAIN post
  <2>1. post[q] \in Attached
    BY <1>4, PostFacts
  <2>2. CASE post'[q] = post[q]
    BY <2>1, <2>2 DEF Cut
  <2>3. CASE post'[q] = Writing!Without(post[q], {a})
    BY <2>1, <2>3, RestrictFacts
  <2> QED BY <1>5, <2>2, <2>3
<1>8. /\ \A i \in DOMAIN mine : \E j \in DOMAIN mine : mine[i] = mine[j]
      /\ drawer' \subseteq drawer /\ drawer \subseteq drawer' \cup {a} /\ Kind(r) \in {"remove", "unpend"}
  BY <1>2
<1>9. Loses(r, mine)
  BY <1>2, <1>3, <1>4, <1>5, <1>6, <1>7, <1>8 DEF Loses
<1> QED BY <1>4, <1>9, WorkLoses

\* What waits of one asset is taken out of it.
TakenOut(s, x, t) ==
  /\ t \in Seq(Entries)
  /\ \A i \in DOMAIN t : \E j \in DOMAIN s : t[i] = s[j]
  /\ Writing!Of(t) \subseteq Writing!Of(s) /\ Writing!Of(s) \subseteq Writing!Of(t) \cup {x}
  /\ \A time \in Nat : Rising(s, time) => Rising(t, time)

LEMMA TakenFacts ==
  ASSUME NEW s \in Seq(Entries), NEW x, NEW t, t = Writing!Taken(s, x)
  PROVE  TakenOut(s, x, t)
<1>0. Writing!Of(s) = {s[i].asset : i \in DOMAIN s} /\ Writing!Of(t) = {t[i].asset : i \in DOMAIN t}
  BY DEF Writing!Of, Writing!Range
<1>1. CASE x \notin Writing!Of(s)
  <2>1. t = s
    BY <1>1 DEF Writing!Taken
  <2> HIDE DEF Entries
  <2> QED BY <2>1 DEF TakenOut
<1>2. CASE x \in Writing!Of(s)
  <2>1. PICK k \in DOMAIN s : s[k].asset = x /\ t = SubSeq(s, 1, k - 1) \o SubSeq(s, k + 1, Len(s))
    <3>1. \E j \in DOMAIN s : s[j].asset = x
      BY <1>0, <1>2
    <3> QED BY <1>2, <3>1 DEF Writing!Taken
  <2> HIDE DEF Entries
  <2>2. Len(s) \in Nat /\ DOMAIN s = 1..Len(s) /\ k \in 1..Len(s) /\ \A i \in DOMAIN s : s[i] \in Entries
    BY <2>1
  <2> DEFINE u == SubSeq(s, 1, k - 1)
             v == SubSeq(s, k + 1, Len(s))
  <2>3. u \in Seq(Entries) /\ Len(u) = k - 1 /\ \A i \in 1..(k - 1) : u[i] = s[i]
    BY <2>2
  <2>4. v \in Seq(Entries) /\ Len(v) = Len(s) - k /\ \A i \in 1..(Len(s) - k) : v[i] = s[k + i]
    <3>1. v \in Seq(Entries)
      BY <2>2
    <3>2. Len(v) = Len(s) - k
      BY <2>2
    <3>3. ASSUME NEW i \in 1..(Len(s) - k) PROVE v[i] = s[k + i]
      BY <2>2, <3>3
    <3> QED BY <3>1, <3>2, <3>3
  <2>5. t \in Seq(Entries) /\ Len(t) = Len(s) - 1 /\ DOMAIN t = 1..(Len(s) - 1)
    <3>1. t = u \o v
      BY <2>1
    <3> HIDE DEF u, v
    <3>2. t \in Seq(Entries)
      BY <2>3, <2>4, <3>1
    <3>3. Len(t) = Len(u) + Len(v)
      BY <2>3, <2>4, <3>1
    <3>4. Len(t) = Len(s) - 1
      BY <2>2, <2>3, <2>4, <3>3
    <3> QED BY <3>2, <3>4
  <2>6. \A i \in 1..(Len(s) - 1) : t[i] = s[IF i < k THEN i ELSE i + 1]
    <3> TAKE i \in 1..(Len(s) - 1)
    <3>1. t = u \o v
      BY <2>1
    <3> HIDE DEF u, v
    <3>2. CASE i < k
      BY <2>2, <2>3, <2>4, <3>1, <3>2
    <3>3. CASE ~(i < k)
      <4>1. /\ Len(u) \in Nat /\ Len(v) \in Nat /\ i \in 1..(Len(u) + Len(v)) /\ ~(i <= Len(u))
            /\ i - Len(u) \in 1..(Len(s) - k) /\ k + (i - Len(u)) = i + 1
        BY <2>2, <2>3, <2>4, <3>3
      <4>2. (u \o v)[i] = v[i - Len(u)]
        <5>1. u \in Seq(Entries) /\ v \in Seq(Entries)
          BY <2>3, <2>4
        <5> QED BY <4>1, <5>1
      <4> QED BY <2>4, <3>1, <3>3, <4>1, <4>2
    <3> QED BY <3>2, <3>3
  <2> HIDE DEF u, v
  <2>7. \A i \in DOMAIN t : \E j \in DOMAIN s : t[i] = s[j] /\ j = IF i < k THEN i ELSE i + 1
    BY <2>2, <2>5, <2>6
  <2>8. Writing!Of(t) \subseteq Writing!Of(s)
    BY <1>0, <2>7
  <2>9. \A j \in DOMAIN s : j # k => \E i \in DOMAIN t : t[i] = s[j]
    <3> TAKE j \in DOMAIN s
    <3>1. CASE j < k
      <4>1. j \in DOMAIN t /\ t[j] = s[j]
        BY <2>2, <2>5, <2>6, <3>1
      <4> QED BY <4>1
    <3>2. CASE j > k
      <4>1. j - 1 \in DOMAIN t /\ t[j - 1] = s[j]
        BY <2>2, <2>5, <2>6, <3>2
      <4> QED BY <4>1
    <3> QED BY <2>2, <3>1, <3>2
  <2>10. Writing!Of(s) \subseteq Writing!Of(t) \cup {x}
    BY <1>0, <2>1, <2>9
  <2>11. ASSUME NEW time \in Nat, Rising(s, time) PROVE Rising(t, time)
    <3>1. \A i \in DOMAIN t : t[i].at <= time
      BY <2>7, <2>11 DEF Rising
    <3>2. ASSUME NEW i \in DOMAIN t, NEW j \in DOMAIN t, i < j PROVE t[i].at < t[j].at
      <4>1. PICK m \in DOMAIN s, n \in DOMAIN s : t[i] = s[m] /\ t[j] = s[n] /\ m < n
        BY <2>2, <2>5, <2>7, <3>2
      <4> QED BY <2>11, <4>1 DEF Rising
    <3> QED BY <3>1, <3>2 DEF Rising
  <2> QED BY <2>5, <2>7, <2>8, <2>10, <2>11 DEF TakenOut
<1> QED BY <1>1, <1>2

LEMMA DraftUnpend ==
  ASSUME DraftInv, NEW r \in Requests, Writing!RemovePending(r)
  PROVE  DraftInv'
<1> DEFINE a == saving[r].asset
           mine == saving[r].session
           copy == Writing!Taken(mine, a)
<1>1. DraftTyped /\ Tied
  BY DEF DraftInv
<1>2. PICK gone \in {{}, {a} \ Shared} :
        drawer' = drawer \ gone /\ post' = [p \in DOMAIN post |-> Writing!Without(post[p], gone)]
  BY DEF Writing!RemovePending, Writing!Wanted
<1>3. /\ Kind(r) = "unpend" /\ ~saving[r].done /\ Busy(r)
      /\ clock' = clock + 1 /\ lost' = lost \cup {a} /\ made' = made
      /\ Writing!Worked(r, copy, Nil)
      /\ session' = session /\ page' = page /\ overlaps' = overlaps /\ hasty' = hasty
  BY DEF Writing!RemovePending, Writing!At, Kind, Busy, Writing!Wanted, Writing!Mine
<1>4. mine \in Seq(Entries) /\ post \in PostRows /\ clock \in Nat
  BY <1>1, CallFacts
<1> HIDE DEF copy
<1>5. Work(r, copy, Nil)
  BY <1>3, Worked
<1>6. TakenOut(mine, a, copy)
  BY <1>4, TakenFacts DEF copy
<1>7. \A p \in DOMAIN post : Cut(post[p], post'[p], {a})
  <2> TAKE p \in DOMAIN post
  <2>1. post[p] \in Attached /\ post'[p] = Writing!Without(post[p], gone) /\ gone \subseteq {a}
    BY <1>2, <1>4, PostFacts
  <2>2. Cut(post[p], post'[p], gone)
    BY <2>1, RestrictFacts
  <2> QED BY <2>1, <2>2 DEF Cut
<1>8. /\ DOMAIN post' = DOMAIN post /\ post' = [p \in DOMAIN post |-> post'[p]]
      /\ drawer' \subseteq drawer /\ drawer \subseteq drawer' \cup {a}
  BY <1>2
<1>9. /\ copy \in Seq(Entries) /\ Writing!Of(copy) \subseteq Has(r) /\ Has(r) \subseteq Writing!Of(copy) \cup {a}
      /\ Rising(mine, clock) => Rising(copy, clock)
      /\ \A i \in DOMAIN copy : \E j \in DOMAIN mine : copy[i] = mine[j]
  BY <1>4, <1>6 DEF TakenOut, Has
<1>10. Loses(r, copy)
  BY <1>3, <1>5, <1>7, <1>8, <1>9 DEF Loses
<1> QED BY <1>9, <1>10, WorkLoses

\* The asset waits from now on, unless it does already.
LEMMA DraftPend ==
  ASSUME DraftInv, NEW r \in Requests, Writing!AttachPending(r)
  PROVE  DraftInv'
<1> DEFINE a == saving[r].asset
           mine == saving[r].session
           e == Writing!Picked(r)
           copy == IF a \in Writing!Of(mine) THEN mine ELSE Append(mine, e)
<1>1. DraftTyped /\ Tied /\ Fresh /\ Guarded /\ InTurn
  BY DEF DraftInv
<1>2. /\ Kind(r) = "pend" /\ ~saving[r].done /\ a \in drawer
      /\ clock' = clock + 1 /\ lost' = lost /\ made' = made /\ drawer' = drawer /\ post' = post
      /\ Writing!Worked(r, copy, Nil)
      /\ session' = session /\ page' = page /\ overlaps' = overlaps /\ hasty' = hasty
  BY DEF Writing!AttachPending, Writing!At, Kind, Writing!Wanted, Writing!Mine
<1>3. Kind(r) \in Writing!Clicks /\ Adds(r) /\ ~Uploads(r)
  BY <1>2, KindFacts DEF Adds, Uploads
<1>4. /\ Busy(r) /\ clock \in Nat /\ e \in Entries /\ e.asset = a /\ e.at = clock + 1
      /\ e.by = saving[r].page
  BY <1>1, <1>2, <1>3, ClickFacts
<1>5. /\ mine \in Seq(Entries) /\ post \in PostRows /\ drawer \subseteq Assets /\ lost \subseteq Assets
      /\ Has(r) \subseteq Known /\ Attachments \subseteq Known /\ Has(r) = Writing!Of(mine)
  BY <1>1, CallFacts DEF Fresh, Has
<1>6. /\ copy \in Seq(Entries) /\ Writing!Of(copy) = Writing!Of(mine) \cup {a}
      /\ \A i \in DOMAIN copy : (copy[i] = e /\ copy # mine) \/ \E j \in DOMAIN mine : copy[i] = mine[j]
      /\ Rising(mine, clock) => Rising(copy, clock + 1)
  <2>1. CASE a \in Writing!Of(mine)
    <3>1. copy = mine
      BY <2>1
    <3>2. Rising(mine, clock) => Rising(mine, clock + 1)
      BY <1>4, <1>5, Later
    <3> HIDE DEF copy, e, mine
    <3> QED BY <1>5, <2>1, <3>1, <3>2
  <2>2. CASE a \notin Writing!Of(mine)
    <3>1. copy = Append(mine, e)
      BY <2>2
    <3> HIDE DEF copy, e, mine
    <3>2. /\ copy \in Seq(Entries) /\ Writing!Of(copy) = Writing!Of(mine) \cup {e.asset}
          /\ \A i \in DOMAIN copy : copy[i] = e \/ \E j \in DOMAIN mine : copy[i] = mine[j]
          /\ \A time \in Nat : Rising(mine, time) /\ e.at = time + 1 => Rising(copy, time + 1)
      BY <1>4, <1>5, <3>1, AppendEntry
    <3>3. copy # mine
      BY <1>4, <2>2, <3>2
    <3> QED BY <1>4, <3>2, <3>3
  <2> QED BY <2>1, <2>2
<1> HIDE DEF copy, e, mine
<1>7. Work(r, copy, Nil)
  BY <1>2, <1>4, Worked
<1>8. /\ Known' = Known /\ Attachments' = Attachments /\ Safe' = Safe /\ a \in Known
  BY <1>2 DEF Known, Attachments, Safe
<1>9. ASSUME overlaps = 0
      PROVE  /\ Rising(copy, clock')
             /\ \A i \in DOMAIN copy :
                  \/ \E j \in DOMAIN session : copy[i] = session[j]
                  \/ /\ copy[i].at = clock + 1 /\ clock' = clock + 1 /\ copy[i].by = saving[r].page
                     /\ saving[r].post = Nil /\ Kind(r) \in {"upload", "import", "pend"}
             /\ \A q \in DOMAIN post' :
                  Straight(post'[q], lost') /\ Dated(post'[q], clock') /\ After(session, post'[q], lost')
  <2>1. /\ mine = session /\ Rising(session, clock)
        /\ \A q \in DOMAIN post :
             Straight(post[q], lost) /\ Dated(post[q], clock) /\ After(session, post[q], lost)
    BY <1>1, <1>2, <1>4, <1>9, TurnFacts DEF mine
  <2>2. \A q \in DOMAIN post : post[q] \in Attached
    BY <1>5, PostFacts
  <2>3. \A q \in DOMAIN post : Dated(post[q], clock')
    <3>1. clock' \in Nat /\ clock <= clock'
      BY <1>2, <1>4
    <3> QED BY <1>4, <2>1, <2>2, <3>1, Later
  <2>4. saving[r].post = Nil
    BY <1>1, <1>2 DEF Tied
  <2>5. Rising(copy, clock')
    BY <1>2, <1>6, <2>1
  <2>6. \A i \in DOMAIN copy : copy[i] = e \/ \E j \in DOMAIN session : copy[i] = session[j]
    BY <1>6, <2>1
  <2> QED BY <1>2, <1>4, <2>1, <2>3, <2>4, <2>5, <2>6
<1> QED BY <1>2, <1>3, <1>4, <1>5, <1>6, <1>7, <1>8, <1>9, WorkKeeps

\* A page of a post attaches to it: what waits is not of that page.
LEMMA DraftAttach ==
  ASSUME DraftInv, NEW r \in Requests, Writing!AttachMedia(r)
  PROVE  DraftInv'
<1> DEFINE a == saving[r].asset
           mine == saving[r].session
           e == Writing!Picked(r)
           p == saving[r].post
           all == Writing!Append1(post[p], e)
<1>1. DraftTyped /\ Tied /\ Fresh /\ Guarded /\ InTurn
  BY DEF DraftInv
<1>2. /\ Kind(r) = "attach" /\ ~saving[r].done /\ a \in drawer
      /\ clock' = clock + 1 /\ lost' = lost /\ made' = made /\ drawer' = drawer
      /\ post' = IF a \in DOMAIN post[p] THEN post ELSE [post EXCEPT ![p] = all]
      /\ Writing!Worked(r, mine, Nil)
      /\ session' = session /\ page' = page /\ overlaps' = overlaps /\ hasty' = hasty
  BY DEF Writing!AttachMedia, Writing!At, Kind, Writing!Wanted, Writing!Mine, Writing!Target
<1>3. Kind(r) \in Writing!Clicks /\ Adds(r) /\ ~Uploads(r)
  BY <1>2, KindFacts DEF Adds, Uploads
<1>4. /\ Busy(r) /\ clock \in Nat /\ e \in Entries /\ e.asset = a /\ e.at = clock + 1
      /\ e.by = saving[r].page
  BY <1>1, <1>2, <1>3, ClickFacts
<1>5. /\ mine \in Seq(Entries) /\ post \in PostRows /\ drawer \subseteq Assets /\ lost \subseteq Assets
      /\ Has(r) \subseteq Known /\ Attachments \subseteq Known /\ Has(r) = Writing!Of(mine)
  BY <1>1, CallFacts DEF Fresh, Has
<1>6. p \in DOMAIN post /\ p \in Posts /\ post[p] \in Attached
  <2>1. p \in DOMAIN post
    BY <1>1, <1>2 DEF Tied
  <2> QED BY <1>5, <2>1, PostFacts
<1>7. Behind(post[p], e, all)
  BY <1>4, <1>6, AppendFacts
<1> HIDE DEF all, e, mine
<1>8. /\ DOMAIN post' = DOMAIN post /\ post' = [q \in DOMAIN post' |-> post'[q]]
      /\ \A q \in DOMAIN post \ {p} : post'[q] = post[q]
      /\ post'[p] \in Attached /\ DOMAIN post'[p] = DOMAIN post[p] \cup {a}
      /\ post'[p] = post[p] \/ (a \notin DOMAIN post[p] /\ post'[p] = all)
  <2>1. CASE a \in DOMAIN post[p]
    <3>1. post' = post
      BY <1>2, <2>1
    <3> QED BY <1>5, <1>6, <2>1, <3>1, PostFacts
  <2>2. CASE a \notin DOMAIN post[p]
    <3>1. post' = [post EXCEPT ![p] = all]
      BY <1>2, <2>2
    <3>2. all \in Attached /\ DOMAIN all = DOMAIN post[p] \cup {a}
      BY <1>4, <1>7 DEF Behind
    <3> QED BY <1>5, <1>6, <2>2, <3>1, <3>2, PostFacts
  <2> QED BY <2>1, <2>2
<1>9. post' \in PostRows
  <2>1. DOMAIN post' = DOMAIN post \cup {p}
    BY <1>6, <1>8
  <2> QED BY <1>5, <1>6, <1>8, <2>1, PostPut
<1>10. /\ Attachments \subseteq Attachments' /\ Attachments' \subseteq Attachments \cup {a}
       /\ a \in Attachments'
  <2>1. \A q \in DOMAIN post : /\ DOMAIN post[q] \subseteq DOMAIN post'[q]
                               /\ DOMAIN post'[q] \subseteq DOMAIN post[q] \cup {a}
    BY <1>8
  <2> QED BY <1>6, <1>8, <2>1 DEF Attachments
<1>11. /\ Known' = Known /\ a \in Known /\ Safe \subseteq Safe' /\ a \in Safe'
       /\ Attachments' \subseteq Known' /\ Has(r) \subseteq Known' /\ Has(r) = Writing!Of(mine)
  BY <1>2, <1>5, <1>10 DEF Known, Safe
<1>12. ASSUME overlaps = 0
       PROVE  /\ Rising(mine, clock')
              /\ \A i \in DOMAIN mine :
                   \/ \E j \in DOMAIN session : mine[i] = session[j]
                   \/ /\ mine[i].at = clock + 1 /\ clock' = clock + 1 /\ mine[i].by = saving[r].page
                      /\ saving[r].post = Nil /\ Kind(r) \in {"upload", "import", "pend"}
              /\ \A q \in DOMAIN post' :
                   Straight(post'[q], lost') /\ Dated(post'[q], clock') /\ After(session, post'[q], lost')
  <2>1. /\ mine = session /\ Rising(session, clock)
        /\ \A q \in DOMAIN post :
             Straight(post[q], lost) /\ Dated(post[q], clock) /\ After(session, post[q], lost)
    BY <1>1, <1>2, <1>4, <1>12, TurnFacts DEF mine
  <2>2. clock' \in Nat /\ clock <= clock'
    BY <1>2, <1>4
  <2>3. Rising(mine, clock')
    BY <1>4, <1>5, <2>1, <2>2, Later
  <2>4. NoneBy(saving[r].page, session)
    <3>1. saving[r].page \in Pages /\ Attaching(saving[r].page)
      BY <1>1, <1>2, <1>4 DEF Tied, Attaching
    <3> QED BY <1>1, <1>12, <3>1 DEF InTurn
  <2>5. ASSUME NEW q \in DOMAIN post, post'[q] = post[q]
        PROVE  Straight(post'[q], lost') /\ Dated(post'[q], clock') /\ After(session, post'[q], lost')
    <3>1. post[q] \in Attached
      BY <1>5, PostFacts
    <3>2. Dated(post[q], clock')
      BY <1>4, <2>1, <2>2, <3>1, Later
    <3> QED BY <1>2, <2>1, <2>5, <3>2
  <2>6. ASSUME a \notin DOMAIN post[p], post'[p] = all
        PROVE  Straight(all, lost) /\ Dated(all, clock + 1) /\ After(session, all, lost)
    <3>1. Straight(post[p], lost) /\ Dated(post[p], clock) /\ After(session, post[p], lost)
      BY <1>6, <2>1
    <3>2. Straight(all, lost) /\ Dated(all, clock + 1)
      BY <1>4, <1>6, <2>6, <3>1, AppendKeeps DEF all
    <3>3. After(session, all, lost)
      <4> SUFFICES ASSUME NEW x \in DOMAIN all, NEW i \in DOMAIN session,
                          session[i].by = all[x].by, session[i].at < all[x].at
                   PROVE  session[i].asset \in DOMAIN all \cup lost
        BY DEF After
      <4>1. x # a
        <5>1. all[a].by = saving[r].page
          BY <1>4, <1>7 DEF Behind
        <5> QED BY <2>4, <5>1 DEF NoneBy
      <4>2. x \in DOMAIN post[p] /\ all[x] = post[p][x] /\ DOMAIN post[p] \subseteq DOMAIN all
        BY <1>4, <1>7, <4>1 DEF Behind
      <4> QED BY <3>1, <4>2 DEF After
    <3> QED BY <3>2, <3>3
  <2>7. \A q \in DOMAIN post' :
          Straight(post'[q], lost') /\ Dated(post'[q], clock') /\ After(session, post'[q], lost')
    <3> TAKE q \in DOMAIN post'
    <3>1. CASE post'[q] = post[q]
      BY <1>8, <2>5, <3>1
    <3>2. CASE post'[q] # post[q]
      <4>1. q = p /\ a \notin DOMAIN post[p] /\ post'[p] = all
        BY <1>8, <3>2
      <4> QED BY <1>2, <2>6, <4>1
    <3> QED BY <3>1, <3>2
  <2> QED BY <2>1, <2>3, <2>7
<1>13. Work(r, mine, Nil)
  BY <1>2, <1>4, Worked DEF mine
<1>14. made' = made /\ Nil \in DOMAIN post' \cup {Nil} /\ drawer' \subseteq Assets /\ lost' \subseteq Assets
       /\ DOMAIN post \subseteq DOMAIN post'
  BY <1>2, <1>5, <1>8
<1>15. /\ clock' = (IF Kind(r) \in Writing!Clicks THEN clock + 1 ELSE clock)
       /\ Known \subseteq Known' /\ Known' \subseteq Known \cup (IF Uploads(r) THEN {a} ELSE {})
       /\ Writing!Of(mine) \subseteq Known' /\ (Adds(r) => a \in Known')
       /\ Has(r) \subseteq Safe' \cup Writing!Of(mine)
       /\ (Adds(r) => a \in Safe' \cup Writing!Of(mine))
  BY <1>2, <1>3, <1>11
<1> HIDE DEF p
<1> QED BY <1>2, <1>5, <1>9, <1>11, <1>12, <1>13, <1>14, <1>15, WorkKeeps

\* A save of a post there is leaves what waits, and the rows.
LEMMA DraftKeep ==
  ASSUME DraftInv, NEW r \in Requests, Kind(r) \in Writing!Creates, ~saving[r].done,
         Writing!KeepPost(r, Writing!Mine(r)), drawer' = drawer, clock' = clock,
         session' = session, page' = page, overlaps' = overlaps, hasty' = hasty
  PROVE  DraftInv'
<1> DEFINE mine == saving[r].session
<1>1. DraftTyped /\ Tied /\ Fresh /\ Guarded /\ InTurn
  BY DEF DraftInv
<1>2. Writing!Worked(r, mine, Nil) /\ post' = post /\ made' = made /\ lost' = lost
  BY DEF Writing!KeepPost, Writing!Mine
<1>3. Kind(r) \notin Writing!Clicks /\ ~Adds(r) /\ ~Uploads(r) /\ Busy(r)
  BY KindFacts DEF Adds, Uploads, Busy
<1>4. Work(r, mine, Nil)
  BY <1>2, <1>3, Worked
<1>5. /\ mine \in Seq(Entries) /\ post \in PostRows /\ drawer \subseteq Assets /\ lost \subseteq Assets
      /\ Has(r) \subseteq Known /\ Attachments \subseteq Known /\ Has(r) = Writing!Of(mine)
  BY <1>1, CallFacts DEF Fresh, Has
<1>6. /\ Known' = Known /\ Safe' = Safe /\ Attachments' = Attachments
  BY <1>2 DEF Known, Safe, Attachments
<1>7. ASSUME overlaps = 0
      PROVE  /\ Rising(mine, clock')
             /\ \A i \in DOMAIN mine :
                  \/ \E j \in DOMAIN session : mine[i] = session[j]
                  \/ /\ mine[i].at = clock + 1 /\ clock' = clock + 1 /\ mine[i].by = saving[r].page
                     /\ saving[r].post = Nil /\ Kind(r) \in {"upload", "import", "pend"}
             /\ \A q \in DOMAIN post' :
                  Straight(post'[q], lost') /\ Dated(post'[q], clock') /\ After(session, post'[q], lost')
  <2>1. /\ mine = session /\ Rising(session, clock)
        /\ \A q \in DOMAIN post :
             Straight(post[q], lost) /\ Dated(post[q], clock) /\ After(session, post[q], lost)
    BY <1>1, <1>3, <1>7, TurnFacts
  <2> QED BY <1>2, <2>1
<1> HIDE DEF mine
<1> QED BY <1>2, <1>3, <1>4, <1>5, <1>6, <1>7, WorkKeeps

LEMMA EmptyMedia ==
  /\ Writing!NoMedia \in Attached /\ DOMAIN Writing!NoMedia = {}
  /\ \A gone, time, pending :
       /\ Straight(Writing!NoMedia, gone) /\ Dated(Writing!NoMedia, time)
       /\ After(pending, Writing!NoMedia, gone)
<1>1. DOMAIN Writing!NoMedia = {}
  BY DEF Writing!NoMedia
<1>2. Writing!NoMedia \in [{} -> Writing!Media] /\ {} \in SUBSET Assets
  BY DEF Writing!NoMedia
<1> QED BY <1>1, <1>2 DEF Attached, Straight, Dated, After

\* A new post: what waits goes to it, in its order, or goes on waiting.
LEMMA DraftNew ==
  ASSUME DraftInv, NEW r \in Requests, Kind(r) \in Writing!Creates, ~saving[r].done,
         saving[r].post = Nil, NEW attaches \in BOOLEAN, Writing!NewPost(r, attaches),
         drawer' = drawer, clock' = clock,
         session' = session, page' = page, overlaps' = overlaps, hasty' = hasty
  PROVE  DraftInv'
<1> DEFINE mine == saving[r].session
           g == saving[r].page
           p == CHOOSE q \in Posts \ DOMAIN post : TRUE
           new == IF attaches THEN Writing!Migrate(Writing!NoMedia, mine, 0) ELSE Writing!NoMedia
           copy == IF attaches THEN <<>> ELSE mine
<1>1. DraftTyped /\ Tied /\ Fresh /\ Guarded /\ InTurn
  BY DEF DraftInv
<1>2. /\ DOMAIN post # Posts
      /\ post' = [q \in DOMAIN post \cup {p} |-> IF q # p THEN post[q] ELSE new]
      /\ made' = [made EXCEPT ![g] = @ \cup {p}]
      /\ Writing!Worked(r, copy, p)
      /\ lost' = IF attaches THEN lost \cup (Writing!Of(mine) \cap Shared) ELSE lost
  BY DEF Writing!NewPost, Writing!Mine
<1>3. Kind(r) \notin Writing!Clicks /\ ~Adds(r) /\ ~Uploads(r) /\ Busy(r)
  BY KindFacts DEF Adds, Uploads, Busy
<1>4. Creating(r, g)
  BY DEF Creating
<1>5. /\ mine \in Seq(Entries) /\ post \in PostRows /\ drawer \subseteq Assets /\ lost \subseteq Assets
      /\ Writing!Of(mine) \subseteq Known /\ Attachments \subseteq Known /\ Has(r) = Writing!Of(mine)
      /\ clock \in Nat /\ Writing!Of(mine) \subseteq Assets
  BY <1>1, CallFacts, EntryFacts DEF Fresh, Has
<1>6. p \in Posts /\ p \notin DOMAIN post
  BY <1>2, <1>5, PostFacts
<1>7. /\ new \in Attached
      /\ DOMAIN new \subseteq drawer
      /\ attaches => Writing!Of(mine) \cap (drawer \ Shared) \subseteq DOMAIN new
      /\ \A gone : Rising(mine, clock) => Straight(new, gone) /\ Dated(new, clock)
  <2>1. CASE attaches
    <3> DEFINE all == Writing!Migrate(Writing!NoMedia, mine, 0)
    <3>1. new = all
      BY <2>1
    <3>2. Moved(Writing!NoMedia, mine, 0, all)
      BY <1>5, EmptyMedia, MigrateFacts
    <3>3. ASSUME NEW gone, Rising(mine, clock) PROVE Straight(all, gone) /\ Dated(all, clock)
      <4> DEFINE none == Writing!NoMedia
      <4>1. /\ Straight(none, gone) /\ Dated(none, clock) /\ After(mine, none, gone) /\ none \in Attached
            /\ \A a \in DOMAIN none : none[a].pos < 0
        BY EmptyMedia
      <4> HIDE DEF none
      <4>2. all = Writing!Migrate(none, mine, 0) /\ 0 \in Nat
        BY DEF none
      <4> HIDE DEF all
      <4> QED BY <1>5, <3>3, <4>1, <4>2, MigrateKeeps
    <3> HIDE DEF all, new
    <3> QED BY <3>1, <3>2, <3>3, EmptyMedia DEF Moved
  <2>2. CASE ~attaches
    <3>1. new = Writing!NoMedia
      BY <2>2
    <3> HIDE DEF new
    <3> QED BY <2>2, <3>1, EmptyMedia
  <2> QED BY <2>1, <2>2
<1>8. /\ copy \in Seq(Entries) /\ Writing!Of(copy) \subseteq Writing!Of(mine)
      /\ Rising(mine, clock) => Rising(copy, clock)
      /\ \A i \in DOMAIN copy : \E j \in DOMAIN mine : copy[i] = mine[j]
  <2>1. /\ <<>> \in Seq(Entries) /\ Writing!Of(<<>>) = {} /\ Rising(<<>>, clock) /\ DOMAIN <<>> = {}
    BY OfNothing, NothingWaits
  <2> HIDE DEF mine
  <2> QED BY <1>5, <2>1
<1>9. Work(r, copy, p)
  <2> HIDE DEF p, copy
  <2> QED BY <1>2, <1>3, Worked
<1>10. /\ lost \subseteq lost' /\ lost' \subseteq Assets /\ lost' \subseteq Known
       /\ Writing!Of(mine) \subseteq lost' \cup DOMAIN new \cup Writing!Of(copy)
       /\ attaches => Writing!Of(mine) \subseteq lost' \cup DOMAIN new
       /\ DOMAIN new = {} \/ attaches
  <2> HIDE DEF new, mine, p
  <2>1. CASE attaches
    <3> HIDE DEF copy
    <3> QED BY <1>2, <1>5, <1>7, <2>1 DEF Known
  <2>2. CASE ~attaches
    <3>1. copy = mine /\ DOMAIN new = {}
      BY <2>2, EmptyMedia DEF new
    <3> HIDE DEF copy
    <3> QED BY <1>2, <1>5, <2>2, <3>1 DEF Known
  <2> QED BY <2>1, <2>2
<1> HIDE DEF new, copy, p, mine, g
<1>11. /\ DOMAIN post' = DOMAIN post \cup {p} /\ post'[p] = new
       /\ post' = [q \in DOMAIN post' |-> post'[q]]
       /\ \A q \in DOMAIN post : post'[q] = post[q]
  BY <1>2, <1>6
<1>12. post' \in PostRows
  BY <1>5, <1>6, <1>7, <1>11, PostPut
<1>13. Attachments' = Attachments \cup DOMAIN new
  BY <1>6, <1>11 DEF Attachments
<1>14. /\ Known' = Known /\ Attachments' \subseteq Known' /\ Safe \subseteq Safe'
       /\ Writing!Of(copy) \subseteq Known' /\ Has(r) \subseteq Safe' \cup Writing!Of(copy)
  <2>1. Known' = Known
    BY <1>10 DEF Known
  <2>2. DOMAIN new \subseteq Known
    BY <1>7 DEF Known
  <2> QED BY <1>5, <1>8, <1>10, <1>13, <2>1, <2>2 DEF Safe
<1>15. ASSUME overlaps = 0
       PROVE  /\ Rising(copy, clock')
              /\ \A i \in DOMAIN copy :
                   \/ \E j \in DOMAIN session : copy[i] = session[j]
                   \/ /\ copy[i].at = clock + 1 /\ clock' = clock + 1 /\ copy[i].by = saving[r].page
                      /\ saving[r].post = Nil /\ Kind(r) \in {"upload", "import", "pend"}
              /\ \A q \in DOMAIN post' :
                   Straight(post'[q], lost') /\ Dated(post'[q], clock') /\ After(session, post'[q], lost')
  <2>1. /\ mine = session /\ Rising(session, clock)
        /\ \A q \in DOMAIN post :
             Straight(post[q], lost) /\ Dated(post[q], clock) /\ After(session, post[q], lost)
    BY <1>1, <1>3, <1>15, TurnFacts DEF mine
  <2>2. Straight(new, lost') /\ Dated(new, clock)
    BY <1>7, <2>1
  <2>3. After(session, new, lost')
    <3>1. CASE attaches
      <4>1. \A i \in DOMAIN mine : mine[i].asset \in Writing!Of(mine)
        BY <1>5, EntryFacts
      <4> QED BY <1>10, <2>1, <3>1, <4>1 DEF After
    <3>2. CASE ~attaches
      BY <1>10, <3>2 DEF After
    <3> QED BY <3>1, <3>2
  <2>4. ASSUME NEW q \in DOMAIN post
        PROVE  Straight(post'[q], lost') /\ Dated(post'[q], clock') /\ After(session, post'[q], lost')
    <3>1. Straight(post[q], lost) /\ Dated(post[q], clock) /\ After(session, post[q], lost)
      BY <2>1
    <3>2. Straight(post[q], lost') /\ After(session, post[q], lost')
      BY <1>10, <3>1, MoreLost
    <3> QED BY <1>11, <3>1, <3>2
  <2>5. \A q \in DOMAIN post' :
          Straight(post'[q], lost') /\ Dated(post'[q], clock') /\ After(session, post'[q], lost')
    BY <1>11, <2>2, <2>3, <2>4
  <2> QED BY <1>8, <2>1, <2>5
<1>16. \E x \in Posts : made' = [made EXCEPT ![g] = @ \cup {x}]
  BY <1>2, <1>6
<1>17. /\ clock' = (IF Kind(r) \in Writing!Clicks THEN clock + 1 ELSE clock)
       /\ Known \subseteq Known' /\ Known' \subseteq Known \cup (IF Uploads(r) THEN {saving[r].asset} ELSE {})
       /\ DOMAIN post \subseteq DOMAIN post' /\ p \in DOMAIN post' \cup {Nil} /\ p \in Posts \cup {Nil}
       /\ drawer' \subseteq Assets /\ g = saving[r].page
  BY <1>3, <1>5, <1>6, <1>11, <1>14 DEF g
<1> QED BY <1>3, <1>4, <1>8, <1>9, <1>10, <1>12, <1>14, <1>15, <1>16, <1>17, WorkKeeps

\* The three kinds of saves.
LEMMA DraftSave ==
  ASSUME DraftInv, NEW r \in Requests, Writing!Autosave(r) \/ Writing!Save(r) \/ Writing!Submit(r)
  PROVE  DraftInv'
<1>1. /\ Kind(r) \in Writing!Creates /\ ~saving[r].done
      /\ drawer' = drawer /\ clock' = clock
      /\ session' = session /\ page' = page /\ overlaps' = overlaps /\ hasty' = hasty
      /\ IF saving[r].post = Nil THEN \E attaches \in BOOLEAN : Writing!NewPost(r, attaches)
         ELSE Writing!KeepPost(r, Writing!Mine(r))
  BY KindFacts DEF Writing!Autosave, Writing!Save, Writing!Submit, Writing!At, Kind, Writing!Target
<1>2. CASE saving[r].post = Nil
  BY <1>1, <1>2, DraftNew
<1>3. CASE saving[r].post # Nil
  BY <1>1, <1>3, DraftKeep
<1> QED BY <1>2, <1>3

\* A request that is refused goes on as a view; one that fails leaves no trace.
LEMMA DraftLeaves ==
  ASSUME DraftInv, NEW r \in Requests, Writing!Refuse(r) \/ Writing!Fail(r)
  PROVE  DraftInv'
<1> DEFINE n == saving'[r]
<1>1. DraftTyped /\ Tied /\ Fresh /\ Once /\ Guarded /\ InTurn
  BY DEF DraftInv
<1>2. /\ saving' \in [Requests -> Saves] /\ \A q \in Requests \ {r} : saving'[q] = saving[q]
      /\ n \in Saves /\ n.kind \in {"view", "idle"} /\ n.asset \in {saving[r].asset, Nil}
      /\ Kind(r) \in Writing!Clicks \cup {"view"} \/ saving[r].done
      /\ \/ n = Writing!Idle
         \/ /\ n.kind = "view" /\ n.page = saving[r].page /\ n.post = saving[r].post
            /\ n.created = saving[r].created /\ n.session = saving[r].session /\ n.seen = saving[r].seen
            /\ n.done = saving[r].done /\ Busy(r)
  <2>0. saving \in [Requests -> Saves] /\ saving[r] \in Saves
    BY <1>1, CallFacts DEF DraftTyped
  <2>1. CASE Writing!Refuse(r)
    <3> DEFINE m == [saving[r] EXCEPT !.kind = "view"]
    <3>1. saving' = [saving EXCEPT ![r] = m] /\ Kind(r) \in {"import", "pend", "attach"}
      BY <2>1 DEF Writing!Refuse, Writing!At, Kind
    <3>2. /\ m \in Saves /\ m.kind = "view" /\ m.page = saving[r].page /\ m.post = saving[r].post
          /\ m.created = saving[r].created /\ m.session = saving[r].session /\ m.seen = saving[r].seen
          /\ m.done = saving[r].done /\ m.asset = saving[r].asset
      BY <2>0 DEF Saves, Writing!Kinds
    <3> HIDE DEF m, Saves
    <3>3. n = m /\ saving' \in [Requests -> Saves] /\ \A q \in Requests \ {r} : saving'[q] = saving[q]
      BY <2>0, <3>1, <3>2
    <3> HIDE DEF n
    <3> QED BY <3>1, <3>2, <3>3, KindFacts DEF Busy
  <2>2. CASE Writing!Fail(r)
    <3>1. saving' = [saving EXCEPT ![r] = Writing!Idle] /\ (saving[r].done \/ Kind(r) = "import")
      BY <2>2 DEF Writing!Fail, Writing!At, Kind
    <3> HIDE DEF Saves
    <3> QED BY <2>0, <3>1, DraftIdle, KindFacts
  <2> QED BY <2>1, <2>2
<1>3. /\ session' = session /\ page' = page /\ post' = post /\ drawer' = drawer /\ clock' = clock
      /\ overlaps' = overlaps /\ made' = made /\ hasty' = hasty /\ lost' = lost
  BY DEF Writing!Refuse, Writing!Fail
<1> HIDE DEF n
<1>4. Calls' = Calls \ {r}
  BY <1>2, DraftIdle, KindFacts DEF Calls, n
<1>5. /\ Busy(r)' => Busy(r) /\ n.session = saving[r].session /\ n.page = saving[r].page
                     /\ n.done = saving[r].done
      /\ n.session \in {saving[r].session, <<>>} /\ n.seen \in {saving[r].seen, <<>>}
      /\ n.kind \notin Writing!Clicks /\ n.kind \notin Writing!Creates /\ n.kind # "attach"
      /\ n = Writing!Idle \/ (n.session = saving[r].session /\ n.seen = saving[r].seen)
  BY <1>2, DraftIdle, KindFacts DEF Busy, Kind, n
<1>6. ~Adds(r)' /\ ~Drops(r)' /\ ~Uploads(r)' /\ \A g \in Pages : ~Creating(r, g)'
  BY <1>2 DEF Adds, Drops, Uploads, Creating, Kind, n, Writing!Creates
<1>7. DraftTyped'
  <2>1. IsFiniteSet(Calls)
    BY SetAssumption, FS_Subset DEF Calls
  <2>2. Cardinality(Calls') <= Cardinality(Calls) /\ Cardinality(Calls') \in Nat /\ Cardinality(Calls) \in Nat
    BY <1>4, <2>1, FS_CardinalityType, FS_Subset
  <2>3. Cardinality(Calls)' = Cardinality(Calls')
    OBVIOUS
  <2>4. clock \in Nat /\ clock + Cardinality(Calls) <= MaxClicks /\ MaxClicks \in Nat
    BY <1>1, DraftIdle DEF DraftTyped
  <2>5. clock + Cardinality(Calls') <= MaxClicks
    BY <2>2, <2>4
  <2> QED BY <1>1, <1>2, <1>3, <2>3, <2>5 DEF DraftTyped
<1>8. Tied'
  <2>1. \A q \in Requests :
       /\ saving'[q].post \in DOMAIN post' \cup {Nil}
       /\ saving'[q].created \in DOMAIN post' \cup {Nil}
       /\ saving'[q].kind \in {"attach", "remove"} => saving'[q].post # Nil
       /\ saving'[q].kind \in {"upload", "import", "pend"} /\ saving'[q].post = Nil =>
            ~page'[saving'[q].page].edit
       /\ saving'[q].kind = "pend" => saving'[q].post = Nil
       /\ saving'[q].kind # "idle" => saving'[q].page \in Pages
       /\ ~(saving'[q].kind # "idle") => saving'[q] = Writing!Idle
       /\ saving'[q].kind \in Writing!Clicks => saving'[q].asset \in Assets
    <3> TAKE q \in Requests
    <3>1. CASE q # r
      BY <1>1, <1>2, <1>3, <3>1 DEF Tied, Kind, Busy
    <3>2. CASE q = r
      <4>1. /\ saving[r].post \in DOMAIN post \cup {Nil} /\ saving[r].created \in DOMAIN post \cup {Nil}
            /\ Busy(r) => saving[r].page \in Pages
        BY <1>1 DEF Tied
      <4> QED BY <1>2, <1>3, <1>5, <3>2, <4>1, DraftIdle DEF n
    <3> QED BY <3>1, <3>2
  <2>2. \A g \in Pages :
       /\ page'[g].post \in DOMAIN post' \cup {Nil} /\ page'[g].edit => page'[g].post # Nil
    BY <1>1, <1>3 DEF Tied
  <2> QED BY <2>1, <2>2, <1>1, <1>3 DEF Tied, Kind, Busy
<1>9. /\ Known' = Known /\ Attachments' = Attachments /\ Safe' = Safe
      /\ Writing!Of(session') = Writing!Of(session)
  BY <1>3 DEF Known, Attachments, Safe
<1>10. /\ \A q \in Requests \ {r} : /\ Seen(q)' = Seen(q) /\ Has(q)' = Has(q) /\ saving'[q] = saving[q]
                                    /\ (Adds(q)' <=> Adds(q)) /\ (Drops(q)' <=> Drops(q))
                                    /\ (Uploads(q)' <=> Uploads(q)) /\ (Busy(q)' <=> Busy(q))
                                    /\ \A g \in Pages : Creating(q, g)' <=> Creating(q, g)
       /\ Has(r)' \in {Has(r), {}} /\ Seen(r)' \in {Seen(r), {}}
       /\ (Has(r)' = Has(r) /\ Seen(r)' = Seen(r)) \/ Seen(r)' = {}
  <2>1. Has(r)' = Writing!Of(n.session) /\ Seen(r)' = Writing!Of(n.seen)
    BY DEF Has, Seen, n
  <2>2. CASE n = Writing!Idle
    BY <1>2, <2>1, <2>2, DraftIdle, OfNothing DEF Seen, Has, Adds, Drops, Uploads, Busy, Creating, Kind
  <2>3. CASE n # Writing!Idle
    BY <1>2, <2>1, <2>3 DEF Seen, Has, Adds, Drops, Uploads, Busy, Creating, Kind
  <2> QED BY <2>2, <2>3
<1>11. Fresh'
  <2>1. \A q \in Requests : Uploads(q)' =>
            /\ saving'[q].asset \notin Known'
            /\ \A s \in Requests \ {q} : saving'[s].asset # saving'[q].asset
    <3> SUFFICES ASSUME NEW q \in Requests, Uploads(q)'
                 PROVE  /\ saving'[q].asset \notin Known'
                        /\ \A s \in Requests \ {q} : saving'[s].asset # saving'[q].asset
      OBVIOUS
    <3>1. q # r /\ Uploads(q) /\ saving'[q] = saving[q]
      BY <1>6, <1>10
    <3>2. /\ saving[q].asset \notin Known
          /\ \A s \in Requests \ {q} : saving[s].asset # saving[q].asset
      BY <1>1, <3>1 DEF Fresh
    <3>3. saving[q].asset # Nil
      BY <1>1, <3>1, KindFacts, DraftIdle DEF Uploads, Tied
    <3> QED BY <1>2, <1>9, <3>1, <3>2, <3>3 DEF n
  <2>2. \A q \in Requests :
       /\ Seen(q)' \subseteq Known' /\ Has(q)' \subseteq Known'
       /\ Drops(q)' => saving'[q].asset \in Known'
       /\ Adds(q)' /\ saving'[q].done => saving'[q].asset \in Known'
    BY <1>1, <1>6, <1>9, <1>10 DEF Fresh
  <2> QED BY <1>1, <1>3, <1>9, <2>1, <2>2 DEF Fresh
<1>12. Once'
  BY <1>1, <1>3, <1>6, <1>10 DEF Once
<1>13. Guarded'
  BY <1>1, <1>3, <1>6, <1>9, <1>10 DEF Guarded
<1>14. InTurn'
  <2> SUFFICES ASSUME overlaps = 0
             PROVE  /\ \A s, q \in Requests : Busy(s)' /\ Busy(q)' => s = q
                    /\ \A q \in Requests : Busy(q)' /\ ~saving'[q].done => saving'[q].session = session'
                    /\ Rising(session', clock') /\ \A q \in Requests : Rising(saving'[q].session, clock')
                    /\ \A p \in DOMAIN post' :
                         /\ Straight(post'[p], lost') /\ Dated(post'[p], clock')
                         /\ After(session', post'[p], lost')
                         /\ \A q \in Requests : After(saving'[q].session, post'[p], lost')
                    /\ \A g \in Pages : Attaching(g)' =>
                         NoneBy(g, session') /\ \A q \in Requests : NoneBy(g, saving'[q].session)
    BY <1>3 DEF InTurn
  <2>1. \A q \in Requests : Busy(q)' => Busy(q)
    BY <1>5, <1>10
  <2>2. \A q \in Requests : saving'[q].session \in {saving[q].session, <<>>}
    BY <1>2, <1>5 DEF n
  <2>3. \A q \in Requests : Rising(saving'[q].session, clock')
    BY <1>1, <1>3, <2>2, NothingWaits DEF InTurn
  <2>4. \A p \in DOMAIN post', q \in Requests : After(saving'[q].session, post'[p], lost')
    BY <1>1, <1>3, <2>2, NothingWaits DEF InTurn
  <2>5. ASSUME NEW g \in Pages, Attaching(g)'
        PROVE  NoneBy(g, session') /\ \A q \in Requests : NoneBy(g, saving'[q].session)
    <3>1. Attaching(g)
      BY <1>2, <1>3, <1>5, <2>5 DEF Attaching, Kind, n
    <3> QED BY <1>1, <1>3, <2>2, <3>1, NothingWaits DEF InTurn
  <2>6. \A q \in Requests : Busy(q)' /\ ~saving'[q].done => saving'[q].session = session'
    BY <1>1, <1>3, <1>5, <1>10 DEF InTurn, n
  <2> QED BY <1>1, <1>3, <2>1, <2>3, <2>4, <2>5, <2>6 DEF InTurn
<1> QED BY <1>7, <1>8, <1>11, <1>12, <1>13, <1>14 DEF DraftInv

\* A request ends: the session is what the request made of its copy.
LEMMA DraftEnds ==
  ASSUME DraftInv, NEW r \in Requests, Writing!WriteBack(r), page' \in [Pages -> PageRows],
         \A g \in Pages :
           /\ page'[g].edit = page[g].edit
           /\ page'[g].post \in {page[g].post, saving[r].created}
           /\ page'[g].post = Nil => page[g].post = Nil
           /\ page'[g].shown \subseteq page[g].shown \cup (IF Adds(r) THEN {saving[r].asset} ELSE {})
  PROVE  DraftInv'
<1> DEFINE mine == saving[r].session
<1>1. DraftTyped /\ Tied /\ Fresh /\ Once /\ Guarded /\ InTurn
  BY DEF DraftInv
<1>2. /\ saving[r].done \/ Kind(r) = "view"
      /\ saving' = [saving EXCEPT ![r] = Writing!Idle]
      /\ session' = mine /\ lost' = lost \cup (Writing!Of(session) \ (Seen(r) \cup Has(r)))
      /\ post' = post /\ drawer' = drawer /\ clock' = clock
      /\ overlaps' = overlaps /\ made' = made /\ hasty' = hasty
  BY DEF Writing!WriteBack, Kind, Writing!Mine, Seen, Has
<1>3. /\ saving \in [Requests -> Saves] /\ mine \in Seq(Entries) /\ Has(r) = Writing!Of(mine)
      /\ post \in PostRows
  BY <1>1, CallFacts DEF DraftTyped, Has
<1>4. /\ saving' \in [Requests -> Saves] /\ saving'[r] = Writing!Idle
      /\ \A q \in Requests \ {r} : saving'[q] = saving[q]
  <2> HIDE DEF Saves
  <2> QED BY <1>2, <1>3, DraftIdle
<1> HIDE DEF mine
<1>5. /\ lost \subseteq lost' /\ lost' \subseteq Known /\ lost' \subseteq Assets
      /\ Writing!Of(session) \subseteq lost' \cup Seen(r) \cup Has(r)
  <2>1. Writing!Of(session) \subseteq Known /\ Known \subseteq Assets
    BY <1>1 DEF Fresh, Known, DraftTyped
  <2> QED BY <1>2, <2>1 DEF Known
<1>6. /\ Known' = Known /\ Attachments' = Attachments /\ Safe \subseteq Safe'
      /\ Writing!Of(session') = Has(r)
  BY <1>2, <1>3, <1>5 DEF Known, Attachments, Safe
<1>7. /\ ~Busy(r)' /\ ~Adds(r)' /\ ~Drops(r)' /\ ~Uploads(r)' /\ \A g \in Pages : ~Creating(r, g)'
      /\ Seen(r)' = {} /\ Has(r)' = {} /\ saving'[r].session = <<>> /\ saving'[r].kind = "idle"
  BY <1>4, DraftIdle, OfNothing DEF Busy, Adds, Drops, Uploads, Creating, Kind, Seen, Has
<1>8. \A q \in Requests \ {r} : /\ Seen(q)' = Seen(q) /\ Has(q)' = Has(q) /\ saving'[q] = saving[q]
                                /\ (Adds(q)' <=> Adds(q)) /\ (Drops(q)' <=> Drops(q))
                                /\ (Uploads(q)' <=> Uploads(q)) /\ (Busy(q)' <=> Busy(q))
                                /\ \A g \in Pages : Creating(q, g)' <=> Creating(q, g)
  BY <1>4 DEF Seen, Has, Adds, Drops, Uploads, Busy, Creating, Kind
<1>9. DraftTyped'
  <2>1. Calls' = Calls
    BY <1>2, <1>4, DraftIdle, KindFacts DEF Calls, Kind
  <2>2. Cardinality(Calls)' = Cardinality(Calls)
    BY <2>1
  <2> QED BY <1>1, <1>2, <1>3, <1>4, <1>5, <2>2 DEF DraftTyped
<1>10. Tied'
  <2>1. \A q \in Requests :
       /\ saving'[q].post \in DOMAIN post' \cup {Nil}
       /\ saving'[q].created \in DOMAIN post' \cup {Nil}
       /\ saving'[q].kind \in {"attach", "remove"} => saving'[q].post # Nil
       /\ saving'[q].kind \in {"upload", "import", "pend"} /\ saving'[q].post = Nil =>
            ~page'[saving'[q].page].edit
       /\ saving'[q].kind = "pend" => saving'[q].post = Nil
       /\ saving'[q].kind # "idle" => saving'[q].page \in Pages
       /\ ~(saving'[q].kind # "idle") => saving'[q] = Writing!Idle
       /\ saving'[q].kind \in Writing!Clicks => saving'[q].asset \in Assets
    <3> TAKE q \in Requests
    <3>1. CASE q # r
      BY <1>1, <1>2, <1>4, <3>1 DEF Tied, Kind, Busy
    <3>2. CASE q = r
      BY <1>4, <3>2, DraftIdle
    <3> QED BY <3>1, <3>2
  <2>2. \A g \in Pages :
       /\ page'[g].post \in DOMAIN post' \cup {Nil}
       /\ page'[g].edit => page'[g].post # Nil
    BY <1>1, <1>2 DEF Tied
  <2> QED BY <2>1, <2>2 DEF Tied, Kind, Busy
<1>11. \A g \in Pages : page'[g].shown \subseteq Known' /\ page'[g].shown \subseteq Safe' \cup Has(r)
  <2>1. Adds(r) => saving[r].done
    BY <1>2 DEF Adds
  <2>2. Adds(r) => saving[r].asset \in Known /\ saving[r].asset \in Safe \cup Has(r)
    BY <1>1, <2>1 DEF Fresh, Guarded
  <2>3. Seen(r) \subseteq Safe \cup Has(r) /\ lost' \subseteq Safe'
    BY <1>1 DEF Guarded, Safe
  <2> TAKE g \in Pages
  <2>4. page[g].shown \subseteq Known /\ page[g].shown \subseteq Safe \cup Writing!Of(session)
    BY <1>1 DEF Fresh, Guarded
  <2>5. page[g].shown \subseteq Safe' \cup Has(r)
    BY <1>5, <1>6, <2>3, <2>4
  <2> QED BY <1>6, <2>2, <2>4, <2>5
<1>12. Fresh'
  <2>1. \A q \in Requests : Uploads(q)' =>
            /\ saving'[q].asset \notin Known'
            /\ \A s \in Requests \ {q} : saving'[s].asset # saving'[q].asset
    <3> SUFFICES ASSUME NEW q \in Requests, Uploads(q)'
                 PROVE  /\ saving'[q].asset \notin Known'
                        /\ \A s \in Requests \ {q} : saving'[s].asset # saving'[q].asset
      OBVIOUS
    <3>1. q # r /\ Uploads(q) /\ saving'[q] = saving[q]
      BY <1>7, <1>8
    <3>2. /\ saving[q].asset \notin Known
          /\ \A s \in Requests \ {q} : saving[s].asset # saving[q].asset
      BY <1>1, <3>1 DEF Fresh
    <3>3. saving[q].asset # Nil
      BY <1>1, <3>1, KindFacts, DraftIdle DEF Uploads, Tied
    <3> QED BY <1>4, <1>6, <3>1, <3>2, <3>3, DraftIdle
  <2>2. \A q \in Requests :
       /\ Seen(q)' \subseteq Known' /\ Has(q)' \subseteq Known'
       /\ Drops(q)' => saving'[q].asset \in Known'
       /\ Adds(q)' /\ saving'[q].done => saving'[q].asset \in Known'
    BY <1>1, <1>6, <1>7, <1>8 DEF Fresh
  <2>3. Writing!Of(session') \subseteq Known' /\ Attachments' \subseteq Known'
    BY <1>1, <1>6 DEF Fresh
  <2> QED BY <1>11, <2>1, <2>2, <2>3 DEF Fresh
<1>13. Once'
  BY <1>1, <1>2, <1>7, <1>8 DEF Once
<1>14. Guarded'
  <2>1. \A q \in Requests :
       /\ Seen(q)' \subseteq Safe' \cup Has(q)'
       /\ Adds(q)' /\ saving'[q].done => saving'[q].asset \in Safe' \cup Has(q)'
    BY <1>1, <1>6, <1>7, <1>8 DEF Guarded
  <2> QED BY <1>6, <1>11, <2>1 DEF Guarded
<1>15. InTurn'
  <2> SUFFICES ASSUME overlaps = 0
             PROVE  /\ \A s, q \in Requests : Busy(s)' /\ Busy(q)' => s = q
                    /\ \A q \in Requests : Busy(q)' /\ ~saving'[q].done => saving'[q].session = session'
                    /\ Rising(session', clock') /\ \A q \in Requests : Rising(saving'[q].session, clock')
                    /\ \A p \in DOMAIN post' :
                         /\ Straight(post'[p], lost') /\ Dated(post'[p], clock')
                         /\ After(session', post'[p], lost')
                         /\ \A q \in Requests : After(saving'[q].session, post'[p], lost')
                    /\ \A g \in Pages : Attaching(g)' =>
                         NoneBy(g, session') /\ \A q \in Requests : NoneBy(g, saving'[q].session)
    BY <1>2 DEF InTurn
  <2>1. Busy(r)
    BY <1>1, <1>2, DraftIdle DEF Tied, Busy, Kind
  <2>2. \A q \in Requests : ~Busy(q)' /\ saving'[q].session = <<>> /\ saving'[q].kind = "idle"
    BY <1>1, <1>7, <1>8, <2>1, DraftIdle DEF InTurn, Tied, Busy, Kind
  <2>3. Rising(session', clock') /\ \A q \in Requests : Rising(saving'[q].session, clock')
    BY <1>1, <1>2, <2>2, NothingWaits DEF InTurn, mine
  <2>4. \A p \in DOMAIN post' :
          /\ Straight(post'[p], lost') /\ Dated(post'[p], clock') /\ After(session', post'[p], lost')
          /\ \A q \in Requests : After(saving'[q].session, post'[p], lost')
    <3> TAKE p \in DOMAIN post'
    <3>1. Straight(post[p], lost) /\ Dated(post[p], clock) /\ After(mine, post[p], lost)
      BY <1>1, <1>2 DEF InTurn, mine
    <3>2. Straight(post[p], lost') /\ After(mine, post[p], lost')
      BY <1>5, <3>1, MoreLost
    <3> QED BY <1>2, <2>2, <3>1, <3>2, NothingWaits
  <2>5. ASSUME NEW g \in Pages, Attaching(g)'
        PROVE  NoneBy(g, session') /\ \A q \in Requests : NoneBy(g, saving'[q].session)
    <3>1. Attaching(g)
      BY <2>2, <2>5 DEF Attaching, Kind
    <3> QED BY <1>1, <1>2, <2>2, <3>1, NothingWaits DEF InTurn, mine
  <2> QED BY <2>2, <2>3, <2>4, <2>5
<1> QED BY <1>9, <1>10, <1>12, <1>13, <1>14, <1>15 DEF DraftInv

LEMMA DraftAnswer ==
  ASSUME DraftInv, NEW r \in Requests, Writing!End(r) \/ Writing!Unheard(r)
  PROVE  DraftInv'
<1>1. DraftTyped /\ Tied
  BY DEF DraftInv
<1>2. page \in [Pages -> PageRows] /\ saving[r] \in Saves
  BY <1>1, CallFacts
<1>3. CASE Writing!Unheard(r)
  BY <1>2, <1>3, DraftEnds DEF Writing!Unheard
<1>4. CASE Writing!End(r)
  <2> DEFINE g == saving[r].page
             adds == IF Kind(r) \in {"upload", "import", "pend", "attach"} THEN {saving[r].asset} ELSE {}
             drops == IF Kind(r) \in {"remove", "unpend"} THEN {saving[r].asset} ELSE {}
             knows == Kind(r) = "autosave" /\ saving[r].created # Nil
             told == [page[g] EXCEPT !.shown = (page[g].shown \cup adds) \ drops,
                        !.post = IF knows THEN saving[r].created ELSE page[g].post]
  <2>1. Writing!WriteBack(r)
    BY <1>4 DEF Writing!End
  <2>2. page' = IF ~page[g].open THEN page
                ELSE [page EXCEPT ![g].shown = (@ \cup adds) \ drops,
                                  ![g].post = IF knows THEN saving[r].created ELSE @]
    BY <1>4 DEF Writing!End, Kind, Writing!Wanted
  <2>3. g \in Pages
    <3>1. Kind(r) # "idle"
      BY <1>1, <2>1, DraftIdle DEF Writing!WriteBack, Tied, Busy, Kind
    <3> QED BY <1>1, <3>1 DEF Tied, Busy
  <2>4. Kind(r) \in {"upload", "import", "pend", "attach"} => saving[r].asset \in Assets
    BY <1>1, KindFacts DEF Tied
  <2>5. /\ told \in PageRows /\ told.edit = page[g].edit /\ told.post \in {page[g].post, saving[r].created}
        /\ told.post = Nil => page[g].post = Nil
        /\ told.shown \subseteq page[g].shown \cup (IF Adds(r) THEN {saving[r].asset} ELSE {})
    <3>1. page[g] \in PageRows /\ saving[r].created \in Posts \cup {Nil}
      BY <1>2, <2>3 DEF Saves
    <3>2. /\ told \in PageRows /\ told.edit = page[g].edit
          /\ told.post = (IF knows THEN saving[r].created ELSE page[g].post)
          /\ told.shown = (page[g].shown \cup adds) \ drops
      BY <2>4, <3>1 DEF PageRows
    <3>3. adds = IF Adds(r) THEN {saving[r].asset} ELSE {}
      BY DEF Adds
    <3> HIDE DEF told, adds, drops
    <3> QED BY <3>1, <3>2, <3>3
  <2>6. page' = IF ~page[g].open THEN page ELSE [page EXCEPT ![g] = told]
    <3> HIDE DEF adds, drops, knows
    <3>1. [page EXCEPT ![g].shown = (@ \cup adds) \ drops,
                       ![g].post = IF knows THEN saving[r].created ELSE @] = [page EXCEPT ![g] = told]
      BY <1>2, <2>3 DEF PageRows
    <3> QED BY <2>2, <3>1
  <2> HIDE DEF told
  <2>7. /\ page' \in [Pages -> PageRows]
        /\ \A h \in Pages : page'[h] = page[h] \/ (h = g /\ page'[h] = told)
    <3> HIDE DEF PageRows
    <3> QED BY <1>2, <2>3, <2>5, <2>6
  <2>8. \A h \in Pages :
           /\ page'[h].edit = page[h].edit
           /\ page'[h].post \in {page[h].post, saving[r].created}
           /\ page'[h].post = Nil => page[h].post = Nil
           /\ page'[h].shown \subseteq page[h].shown \cup (IF Adds(r) THEN {saving[r].asset} ELSE {})
    BY <2>5, <2>7
  <2> QED BY <2>1, <2>7, <2>8, DraftEnds
<1> QED BY <1>3, <1>4

\* A page that closes forgets what it showed.
LEMMA DraftClose ==
  ASSUME DraftInv, NEW g \in Pages, Writing!Close(g)
  PROVE  DraftInv'
<1>1. DraftTyped /\ Tied /\ Fresh /\ Once /\ Guarded /\ InTurn
  BY DEF DraftInv
<1>2. /\ page' = [page EXCEPT ![g] = Writing!Closed]
      /\ session' = session /\ post' = post /\ drawer' = drawer /\ saving' = saving /\ clock' = clock
      /\ overlaps' = overlaps /\ made' = made /\ hasty' = hasty /\ lost' = lost
  BY DEF Writing!Close
<1>3. /\ Writing!Closed \in PageRows /\ Writing!Closed.edit = FALSE /\ Writing!Closed.post = Nil
      /\ Writing!Closed.shown = {}
  BY DEF Writing!Closed, PageRows
<1>4. /\ page' \in [Pages -> PageRows] /\ page'[g] = Writing!Closed
      /\ \A h \in Pages \ {g} : page'[h] = page[h]
  <2> HIDE DEF PageRows
  <2> QED BY <1>1, <1>2, <1>3 DEF DraftTyped
<1>5. \A h \in Pages : /\ page'[h].edit => page[h].edit
                       /\ page'[h].shown \subseteq page[h].shown
                       /\ page'[h].post \in {page[h].post, Nil}
                       /\ page'[h].edit => page'[h].post = page[h].post
  BY <1>3, <1>4
<1>6. DraftTyped'
  <2>1. Cardinality(Calls)' = Cardinality(Calls)
    BY <1>2 DEF Calls
  <2> QED BY <1>1, <1>2, <1>4, <2>1 DEF DraftTyped
<1>7. Tied'
  <2>1. \A h \in Pages : page'[h].post \in DOMAIN post' \cup {Nil} /\ (page'[h].edit => page'[h].post # Nil)
    BY <1>1, <1>2, <1>5 DEF Tied
  <2>2. \A r \in Requests : Kind(r) \in {"upload", "import", "pend"} /\ saving[r].post = Nil =>
          ~page'[saving[r].page].edit
    <3> SUFFICES ASSUME NEW r \in Requests, Kind(r) \in {"upload", "import", "pend"}, saving[r].post = Nil
                 PROVE  ~page'[saving[r].page].edit
      OBVIOUS
    <3>1. ~page[saving[r].page].edit /\ saving[r].page \in Pages
      BY <1>1 DEF Tied, Busy
    <3> QED BY <1>5, <3>1
  <2> QED BY <1>1, <1>2, <2>1, <2>2 DEF Tied, Kind, Busy
<1>8. Fresh'
  BY <1>1, <1>2, <1>5 DEF Fresh, Known, Attachments, Seen, Has, Drops, Adds, Uploads, Kind
<1>9. Once'
  BY <1>1, <1>2 DEF Once, Creating, Kind
<1>10. Guarded'
  BY <1>1, <1>2, <1>5 DEF Guarded, Safe, Attachments, Seen, Has, Adds, Kind
<1>11. InTurn'
  <2>1. \A h \in Pages : Attaching(h)' => Attaching(h)
    BY <1>2, <1>5 DEF Attaching, Kind
  <2>2. \A r \in Requests : Busy(r)' <=> Busy(r)
    BY <1>2 DEF Busy, Kind
  <2> QED BY <1>1, <1>2, <2>1, <2>2 DEF InTurn
<1> QED BY <1>6, <1>7, <1>8, <1>9, <1>10, <1>11 DEF DraftInv

\* Another request at work counts as an overlap.
LEMMA MeetsFacts ==
  ASSUME DraftTyped, Writing!Meets
  PROVE  /\ overlaps' \in 0..MaxOverlaps
         /\ overlaps' = 0 => overlaps = 0 /\ \A q \in Requests : ~Busy(q)
<1>1. overlaps \in 0..MaxOverlaps /\ MaxOverlaps \in Nat
  BY DraftIdle DEF DraftTyped
<1>2. CASE \E q \in Requests : Busy(q)
  <2>1. overlaps' = overlaps + 1 /\ overlaps' <= MaxOverlaps
    BY <1>2 DEF Writing!Meets, Busy, Kind
  <2> QED BY <1>1, <2>1
<1>3. CASE ~ \E q \in Requests : Busy(q)
  <2>1. overlaps' = overlaps /\ overlaps' <= MaxOverlaps
    BY <1>3 DEF Writing!Meets, Busy, Kind
  <2> QED BY <1>1, <1>3, <2>1
<1> QED BY <1>2, <1>3

\* A page that opens forgets what waits.
LEMMA DraftOpen ==
  ASSUME DraftInv, NEW g \in Pages, NEW p \in {Nil} \cup DOMAIN post, Writing!Open(g, p)
  PROVE  DraftInv'
<1> DEFINE row == [open |-> TRUE, edit |-> p # Nil, post |-> p,
                   shown |-> IF p = Nil THEN {} ELSE DOMAIN post[p]]
<1>1. DraftTyped /\ Tied /\ Fresh /\ Once /\ Guarded /\ InTurn
  BY DEF DraftInv
<1>2. /\ page' = [page EXCEPT ![g] = row] /\ \A r \in Requests : saving[r].page # g
      /\ session' = <<>> /\ lost' = lost \cup Writing!Of(session) /\ Writing!Meets
      /\ post' = post /\ drawer' = drawer /\ saving' = saving /\ clock' = clock
      /\ made' = made /\ hasty' = hasty
  BY DEF Writing!Open
<1>3. /\ overlaps' \in 0..MaxOverlaps
      /\ overlaps' = 0 => overlaps = 0 /\ \A q \in Requests : ~Busy(q)
  BY <1>1, <1>2, MeetsFacts
<1>4. post \in PostRows /\ p \in Posts \cup {Nil} /\ page \in [Pages -> PageRows]
  BY <1>1, PostFacts DEF DraftTyped
<1>5. /\ row \in PageRows /\ row.edit = (p # Nil) /\ row.post = p
      /\ row.shown \subseteq Attachments
  <2>1. p # Nil => DOMAIN post[p] \subseteq Assets /\ DOMAIN post[p] \subseteq Attachments
    BY <1>4, PostFacts DEF Attachments
  <2> QED BY <1>4, <2>1 DEF PageRows
<1> HIDE DEF row
<1>6. /\ page' \in [Pages -> PageRows] /\ page'[g] = row
      /\ \A h \in Pages \ {g} : page'[h] = page[h]
  <2> HIDE DEF PageRows
  <2> QED BY <1>2, <1>4, <1>5
<1>7. /\ Known' = Known /\ Attachments' = Attachments /\ Safe' = Safe \cup Writing!Of(session)
      /\ lost' \subseteq Assets /\ lost \subseteq lost' /\ Attachments \subseteq Known
      /\ Writing!Of(session') = {} /\ session' \in Seq(Entries)
  <2>1. Writing!Of(session) \subseteq Known /\ Attachments \subseteq Known /\ Known \subseteq Assets
    BY <1>1 DEF Fresh, Known, DraftTyped
  <2> QED BY <1>2, <2>1, OfNothing DEF Known, Attachments, Safe
<1>8. DraftTyped'
  <2>1. Cardinality(Calls)' = Cardinality(Calls)
    BY <1>2 DEF Calls
  <2> QED BY <1>1, <1>2, <1>3, <1>6, <1>7, <2>1 DEF DraftTyped
<1>9. Tied'
  <2>1. \A h \in Pages : page'[h].post \in DOMAIN post' \cup {Nil} /\ (page'[h].edit => page'[h].post # Nil)
    BY <1>1, <1>2, <1>5, <1>6 DEF Tied
  <2>2. \A r \in Requests : Kind(r) \in {"upload", "import", "pend"} /\ saving[r].post = Nil =>
          ~page'[saving[r].page].edit
    <3> SUFFICES ASSUME NEW r \in Requests, Kind(r) \in {"upload", "import", "pend"}, saving[r].post = Nil
                 PROVE  ~page'[saving[r].page].edit
      OBVIOUS
    <3>1. ~page[saving[r].page].edit /\ saving[r].page \in Pages /\ saving[r].page # g
      BY <1>1, <1>2 DEF Tied, Busy
    <3> QED BY <1>6, <3>1
  <2> QED BY <1>1, <1>2, <2>1, <2>2 DEF Tied, Kind, Busy
<1>10. Fresh'
  <2>1. \A h \in Pages : page'[h].shown \subseteq Known'
    BY <1>1, <1>5, <1>6, <1>7 DEF Fresh
  <2> QED BY <1>1, <1>2, <1>7, <2>1 DEF Fresh, Seen, Has, Drops, Adds, Uploads, Kind
<1>11. Once'
  BY <1>1, <1>2 DEF Once, Creating, Kind
<1>12. Guarded'
  <2>1. \A h \in Pages : page'[h].shown \subseteq Safe'
    BY <1>1, <1>5, <1>6, <1>7 DEF Guarded, Safe
  <2>2. \A r \in Requests :
         /\ Seen(r)' \subseteq Safe' \cup Has(r)'
         /\ Adds(r)' /\ saving'[r].done => saving'[r].asset \in Safe' \cup Has(r)'
    BY <1>1, <1>2, <1>7 DEF Guarded, Seen, Has, Adds, Kind
  <2> QED BY <2>1, <2>2 DEF Guarded
<1>13. InTurn'
  <2> SUFFICES ASSUME overlaps' = 0
             PROVE  /\ \A s, q \in Requests : Busy(s)' /\ Busy(q)' => s = q
                    /\ \A q \in Requests : Busy(q)' /\ ~saving'[q].done => saving'[q].session = session'
                    /\ Rising(session', clock') /\ \A q \in Requests : Rising(saving'[q].session, clock')
                    /\ \A x \in DOMAIN post' :
                         /\ Straight(post'[x], lost') /\ Dated(post'[x], clock')
                         /\ After(session', post'[x], lost')
                         /\ \A q \in Requests : After(saving'[q].session, post'[x], lost')
                    /\ \A h \in Pages : Attaching(h)' =>
                         NoneBy(h, session') /\ \A q \in Requests : NoneBy(h, saving'[q].session)
    BY DEF InTurn
  <2>1. overlaps = 0 /\ \A q \in Requests : ~Busy(q)' /\ saving'[q].session = <<>>
    BY <1>1, <1>2, <1>3, DraftIdle DEF Tied, Busy, Kind
  <2>2. \A x \in DOMAIN post' : Straight(post'[x], lost') /\ Dated(post'[x], clock')
    BY <1>1, <1>2, <1>7, <2>1, MoreLost DEF InTurn
  <2> QED BY <1>2, <2>1, <2>2, NothingWaits
<1> QED BY <1>8, <1>9, <1>10, <1>11, <1>12, <1>13 DEF DraftInv

\* A request begins: it takes a copy of the session.
Starts(r, kind, g, p, a) ==
  /\ Kind(r) = "idle" /\ Writing!Meets
  /\ saving' = [saving EXCEPT ![r] =
       [Writing!Idle EXCEPT !.kind = kind, !.page = g, !.post = p, !.asset = a,
                            !.seen = session, !.session = session]]
  /\ session' = session /\ page' = page /\ post' = post /\ drawer' = drawer /\ clock' = clock
  /\ made' = made /\ lost' = lost

\* What may begin: p and a are what the page knows of.
Begins(r, kind, g, p, a) ==
  /\ kind \in Writing!Kinds \ {"idle"} /\ p \in DOMAIN post \cup {Nil} /\ a \in Assets \cup {Nil}
  /\ kind \in {"attach", "remove"} => p # Nil
  /\ kind \in {"upload", "import", "pend"} /\ p = Nil => ~page[g].edit
  /\ kind = "pend" => p = Nil
  /\ kind = "attach" => page[g].edit
  /\ kind \in Writing!Clicks => a \in Assets /\ clock + Cardinality(Calls) < MaxClicks
  /\ kind \in {"upload", "import"} => a \notin Known /\ \A q \in Requests : saving[q].asset # a
  /\ kind \notin {"upload", "import"} => a \in Known \cup {Nil}
  /\ kind \in {"remove", "unpend"} => a # Nil
  /\ hasty' \subseteq Pages /\ hasty \subseteq hasty'
  /\ kind \in Writing!Creates /\ p = Nil /\ g \notin hasty' =>
       made[g] = {} /\ \A q \in Requests : ~(saving[q].page = g /\ Kind(q) \in Writing!Creates)

LEMMA DraftStarts ==
  ASSUME DraftInv, NEW r \in Requests, NEW g \in Pages, NEW kind, NEW p, NEW a,
         Starts(r, kind, g, p, a), Begins(r, kind, g, p, a)
  PROVE  DraftInv'
<1> DEFINE n == [Writing!Idle EXCEPT !.kind = kind, !.page = g, !.post = p, !.asset = a,
                                     !.seen = session, !.session = session]
<1>1. DraftTyped /\ Tied /\ Fresh /\ Once /\ Guarded /\ InTurn
  BY DEF DraftInv
<1>2. /\ Kind(r) = "idle" /\ saving' = [saving EXCEPT ![r] = n]
      /\ session' = session /\ page' = page /\ post' = post /\ drawer' = drawer /\ clock' = clock
      /\ made' = made /\ lost' = lost
  BY DEF Starts
<1>3. /\ overlaps' \in 0..MaxOverlaps
      /\ overlaps' = 0 => overlaps = 0 /\ \A q \in Requests : ~Busy(q)
  BY <1>1, MeetsFacts DEF Starts
<1>4. /\ n \in Saves /\ n.kind = kind /\ n.page = g /\ n.post = p /\ n.asset = a
      /\ n.seen = session /\ n.session = session /\ n.created = Nil /\ n.done = FALSE
  <2>1. /\ kind \in Writing!Kinds /\ p \in Posts \cup {Nil} /\ a \in Assets \cup {Nil}
        /\ session \in Seq(Entries)
    BY <1>1, PostFacts DEF Begins, DraftTyped
  <2> QED BY <2>1 DEF Saves, Writing!Idle
<1> HIDE DEF n
<1>5. /\ saving' \in [Requests -> Saves] /\ saving'[r] = n
      /\ \A q \in Requests \ {r} : saving'[q] = saving[q]
  <2> HIDE DEF Saves
  <2> QED BY <1>1, <1>2, <1>4 DEF DraftTyped
<1>6. /\ Known' = Known /\ Attachments' = Attachments /\ Safe' = Safe
      /\ Writing!Of(session') = Writing!Of(session)
      /\ Seen(r)' = Writing!Of(session) /\ Has(r)' = Writing!Of(session)
  BY <1>2, <1>4, <1>5 DEF Known, Attachments, Safe, Seen, Has
<1>7. \A q \in Requests \ {r} : /\ Seen(q)' = Seen(q) /\ Has(q)' = Has(q) /\ saving'[q] = saving[q]
                                /\ (Adds(q)' <=> Adds(q)) /\ (Drops(q)' <=> Drops(q))
                                /\ (Uploads(q)' <=> Uploads(q)) /\ (Busy(q)' <=> Busy(q))
                                /\ \A h \in Pages : Creating(q, h)' <=> Creating(q, h)
  BY <1>5 DEF Seen, Has, Adds, Drops, Uploads, Busy, Creating, Kind
<1>8. /\ Kind(r)' = kind /\ saving'[r].done = FALSE /\ kind # "idle" /\ saving'[r].asset = a
      /\ saving'[r].session = session /\ saving'[r].page = g /\ saving'[r].post = p
      /\ saving'[r].created = Nil
  BY <1>4, <1>5 DEF Begins, Kind
<1>9. DraftTyped'
  <2>1. IsFiniteSet(Calls) /\ r \notin Calls /\ Cardinality(Calls) \in Nat
    <3>1. IsFiniteSet(Calls)
      BY SetAssumption, FS_Subset DEF Calls
    <3>2. r \notin Calls
      BY <1>2, DraftIdle DEF Calls, Kind
    <3> QED BY <3>1, <3>2, FS_CardinalityType
  <2>2. Calls' = IF kind \in Writing!Clicks THEN Calls \cup {r} ELSE Calls
    BY <1>5, <1>8, <2>1 DEF Calls, Kind
  <2>3. Cardinality(Calls') = IF kind \in Writing!Clicks THEN Cardinality(Calls) + 1 ELSE Cardinality(Calls)
    BY <2>1, <2>2, FS_AddElement
  <2>4. clock \in Nat /\ MaxClicks \in Nat /\ clock + Cardinality(Calls) <= MaxClicks
    BY <1>1, DraftIdle DEF DraftTyped
  <2>5. clock' + Cardinality(Calls') <= MaxClicks
    BY <1>2, <2>1, <2>3, <2>4 DEF Begins
  <2>6. Cardinality(Calls)' = Cardinality(Calls')
    OBVIOUS
  <2>7. hasty' \subseteq Pages
    BY DEF Begins
  <2> QED BY <1>1, <1>2, <1>3, <1>5, <2>5, <2>6, <2>7 DEF DraftTyped
<1>10. Tied'
  <2>1. \A q \in Requests :
       /\ saving'[q].post \in DOMAIN post' \cup {Nil}
       /\ saving'[q].created \in DOMAIN post' \cup {Nil}
       /\ saving'[q].kind \in {"attach", "remove"} => saving'[q].post # Nil
       /\ saving'[q].kind \in {"upload", "import", "pend"} /\ saving'[q].post = Nil =>
            ~page'[saving'[q].page].edit
       /\ saving'[q].kind = "pend" => saving'[q].post = Nil
       /\ saving'[q].kind # "idle" => saving'[q].page \in Pages
       /\ ~(saving'[q].kind # "idle") => saving'[q] = Writing!Idle
       /\ saving'[q].kind \in Writing!Clicks => saving'[q].asset \in Assets
    <3> TAKE q \in Requests
    <3>1. CASE q # r
      BY <1>1, <1>2, <1>5, <3>1 DEF Tied, Kind, Busy
    <3>2. CASE q = r
      BY <1>2, <1>4, <1>5, <1>8, <3>2 DEF Begins
    <3> QED BY <3>1, <3>2
  <2> QED BY <1>1, <1>2, <2>1 DEF Tied, Kind, Busy
<1>11. Fresh'
  <2>1. \A q \in Requests : Uploads(q)' =>
            /\ saving'[q].asset \notin Known'
            /\ \A s \in Requests \ {q} : saving'[s].asset # saving'[q].asset
    <3> SUFFICES ASSUME NEW q \in Requests, Uploads(q)'
                 PROVE  /\ saving'[q].asset \notin Known'
                        /\ \A s \in Requests \ {q} : saving'[s].asset # saving'[q].asset
      OBVIOUS
    <3>1. CASE q = r
      <4>1. kind \in {"upload", "import"}
        BY <1>8, <3>1 DEF Uploads
      <4> QED BY <1>5, <1>6, <1>8, <3>1, <4>1 DEF Begins
    <3>2. CASE q # r
      <4>1. Uploads(q) /\ saving'[q] = saving[q]
        BY <1>7, <3>2
      <4>2. /\ saving[q].asset \notin Known
            /\ \A s \in Requests \ {q} : saving[s].asset # saving[q].asset
        BY <1>1, <4>1 DEF Fresh
      <4>3. saving[q].asset # Nil
        BY <1>1, <4>1, KindFacts, DraftIdle DEF Uploads, Tied
      <4>4. a # saving[q].asset
        BY <4>2, <4>3 DEF Begins
      <4> QED BY <1>5, <1>6, <1>8, <4>1, <4>2, <4>4
    <3> QED BY <3>1, <3>2
  <2>2. \A q \in Requests :
       /\ Seen(q)' \subseteq Known' /\ Has(q)' \subseteq Known'
       /\ Drops(q)' => saving'[q].asset \in Known'
       /\ Adds(q)' /\ saving'[q].done => saving'[q].asset \in Known'
    <3> TAKE q \in Requests
    <3>1. CASE q = r
      <4>1. Drops(r)' => a \in Known
        BY <1>8 DEF Drops, Begins
      <4>2. Writing!Of(session) \subseteq Known
        BY <1>1 DEF Fresh
      <4> QED BY <1>6, <1>8, <3>1, <4>1, <4>2
    <3>2. CASE q # r
      BY <1>1, <1>6, <1>7, <3>2 DEF Fresh
    <3> QED BY <3>1, <3>2
  <2> QED BY <1>1, <1>2, <1>6, <2>1, <2>2 DEF Fresh
<1>12. Once'
  <2> SUFFICES ASSUME NEW h \in Pages \ hasty'
               PROVE  /\ made'[h] = {} \/ \E x \in Posts : made'[h] = {x}
                      /\ \A s, q \in Requests : Creating(s, h)' /\ Creating(q, h)' => s = q
                      /\ \A q \in Requests : Creating(q, h)' /\ ~saving'[q].done => made'[h] = {}
    BY DEF Once
  <2>1. /\ made[h] = {} \/ \E x \in Posts : made[h] = {x}
        /\ \A s, q \in Requests : Creating(s, h) /\ Creating(q, h) => s = q
        /\ \A q \in Requests : Creating(q, h) /\ ~saving[q].done => made[h] = {}
    BY <1>1 DEF Once, Begins
  <2>2. CASE Creating(r, h)'
    <3>1. h = g /\ kind \in Writing!Creates /\ p = Nil
      BY <1>8, <2>2 DEF Creating
    <3>2. made[h] = {} /\ \A q \in Requests : ~Creating(q, h)
      BY <3>1 DEF Begins, Creating
    <3> QED BY <1>2, <1>7, <2>1, <3>2
  <2>3. CASE ~Creating(r, h)'
    BY <1>2, <1>7, <2>1, <2>3
  <2> QED BY <2>2, <2>3
<1>13. Guarded'
  <2>1. \A q \in Requests :
         /\ Seen(q)' \subseteq Safe' \cup Has(q)'
         /\ Adds(q)' /\ saving'[q].done => saving'[q].asset \in Safe' \cup Has(q)'
    BY <1>1, <1>6, <1>7, <1>8 DEF Guarded
  <2> QED BY <1>1, <1>2, <1>6, <2>1 DEF Guarded
<1>14. InTurn'
  <2> SUFFICES ASSUME overlaps' = 0
             PROVE  /\ \A s, q \in Requests : Busy(s)' /\ Busy(q)' => s = q
                    /\ \A q \in Requests : Busy(q)' /\ ~saving'[q].done => saving'[q].session = session'
                    /\ Rising(session', clock') /\ \A q \in Requests : Rising(saving'[q].session, clock')
                    /\ \A x \in DOMAIN post' :
                         /\ Straight(post'[x], lost') /\ Dated(post'[x], clock')
                         /\ After(session', post'[x], lost')
                         /\ \A q \in Requests : After(saving'[q].session, post'[x], lost')
                    /\ \A h \in Pages : Attaching(h)' =>
                         NoneBy(h, session') /\ \A q \in Requests : NoneBy(h, saving'[q].session)
    BY DEF InTurn
  <2>1. overlaps = 0 /\ \A q \in Requests : ~Busy(q)
    BY <1>3
  <2>2. \A q \in Requests \ {r} : ~Busy(q)' /\ saving'[q].session = <<>> /\ saving'[q].kind = "idle"
    BY <1>1, <1>7, <2>1, DraftIdle DEF Tied, Busy, Kind
  <2>3. \A q \in Requests : saving'[q].session \in {session, <<>>}
    BY <1>8, <2>2
  <2>4. /\ Rising(session, clock)
        /\ \A x \in DOMAIN post :
             Straight(post[x], lost) /\ Dated(post[x], clock) /\ After(session, post[x], lost)
    BY <1>1, <2>1 DEF InTurn
  <2>5. ASSUME NEW h \in Pages, Attaching(h)'
        PROVE  NoneBy(h, session') /\ \A q \in Requests : NoneBy(h, saving'[q].session)
    <3>1. page[h].edit
      <4>1. CASE page'[h].edit
        BY <1>2, <4>1
      <4>2. CASE \E q \in Requests : saving'[q].kind = "attach" /\ saving'[q].page = h
        <5>1. kind = "attach" /\ g = h
          BY <1>8, <2>2, <4>2 DEF Kind
        <5> QED BY <5>1 DEF Begins
      <4> QED BY <2>5, <4>1, <4>2 DEF Attaching, Kind
    <3>2. NoneBy(h, session)
      BY <1>1, <2>1, <3>1 DEF InTurn, Attaching
    <3> QED BY <1>2, <2>3, <3>2, NothingWaits
  <2>6. \A q \in Requests : Rising(saving'[q].session, clock')
    BY <1>2, <2>3, <2>4, NothingWaits
  <2>7. \A x \in DOMAIN post', q \in Requests : After(saving'[q].session, post'[x], lost')
    BY <1>2, <2>3, <2>4, NothingWaits
  <2>8. \A s, q \in Requests : Busy(s)' /\ Busy(q)' => s = q
    BY <2>2
  <2>9. \A q \in Requests : Busy(q)' /\ ~saving'[q].done => saving'[q].session = session'
    BY <1>2, <1>8, <2>2
  <2> QED BY <1>2, <2>4, <2>5, <2>6, <2>7, <2>8, <2>9
<1> QED BY <1>9, <1>10, <1>11, <1>12, <1>13, <1>14 DEF DraftInv

LEMMA BeginFacts ==
  ASSUME NEW r \in Requests, NEW kind, NEW g, NEW p, NEW a, Writing!Begin(r, kind, g, p, a)
  PROVE  Starts(r, kind, g, p, a)
<1>1. /\ Kind(r) = "idle" /\ Writing!Meets
      /\ session' = session /\ page' = page /\ post' = post /\ drawer' = drawer /\ clock' = clock
      /\ made' = made /\ lost' = lost
  BY DEF Writing!Begin, Kind
<1>2. saving' = [saving EXCEPT ![r] =
       [Writing!Idle EXCEPT !.kind = kind, !.page = g, !.post = p, !.asset = a,
                            !.seen = session, !.session = session]]
  BY DEF Writing!Begin
<1> QED BY <1>1, <1>2 DEF Starts

LEMMA ClickingFacts ==
  Writing!Clicking = Cardinality(Calls)
<1>1. Writing!Clicking = Writing!Cardinality(Calls)
  BY DEF Writing!Clicking, Calls
<1>2. Writing!Cardinality(Calls) = Cardinality(Calls)
  BY SMT DEF Writing!Cardinality, Cardinality
<1> QED BY <1>1, <1>2

LEMMA DraftBeginCreate ==
  ASSUME DraftInv, NEW r \in Requests, NEW g \in Pages, NEW kind \in Writing!Creates,
         Writing!BeginCreate(r, g, kind)
  PROVE  DraftInv'
<1> DEFINE p == page[g].post
<1>1. DraftTyped /\ Tied
  BY DEF DraftInv
<1>2. Starts(r, kind, g, p, Nil)
  BY BeginFacts DEF Writing!BeginCreate
<1>3. hasty' = IF /\ p = Nil
                  /\ \/ made[g] # {}
                     \/ \E q \in Requests : saving[q].page = g /\ saving[q].kind \in Writing!Creates
               THEN hasty \cup {g} ELSE hasty
  BY DEF Writing!BeginCreate
<1>4. p \in DOMAIN post \cup {Nil} /\ hasty \subseteq Pages
  BY <1>1 DEF Tied, DraftTyped
<1>5. /\ kind \in Writing!Kinds \ {"idle"} /\ kind \notin Writing!Clicks
      /\ kind \notin {"upload", "import", "pend", "attach", "remove", "unpend"}
  BY KindFacts, DraftIdle DEF Writing!Kinds
<1>6. Begins(r, kind, g, p, Nil)
  <2>1. /\ hasty' \subseteq Pages /\ hasty \subseteq hasty'
        /\ p = Nil /\ g \notin hasty' =>
             made[g] = {} /\ \A q \in Requests : ~(saving[q].page = g /\ Kind(q) \in Writing!Creates)
    BY <1>3, <1>4 DEF Kind
  <2> HIDE DEF p
  <2> QED BY <1>4, <1>5, <2>1 DEF Begins
<1> QED BY <1>2, <1>6, DraftStarts

LEMMA DraftBeginOther ==
  ASSUME DraftInv, NEW r \in Requests, NEW g \in Pages, Writing!BeginOther(r, g)
  PROVE  DraftInv'
<1>1. DraftTyped /\ Tied /\ Fresh
  BY DEF DraftInv
<1>2. hasty' = hasty /\ hasty \subseteq Pages
  BY <1>1 DEF Writing!BeginOther, DraftTyped
<1>3. /\ page[g].post \in DOMAIN post \cup {Nil}
      /\ page[g].edit => page[g].post # Nil
      /\ page[g].shown \subseteq Known /\ page[g].shown \subseteq Assets /\ drawer \subseteq Assets
      /\ Library \cup Shared \cup Files = Assets /\ Nil \notin Assets
  <2>1. page[g] \in PageRows /\ drawer \subseteq Assets
    BY <1>1, CallFacts
  <2> QED BY <1>1, <2>1, DraftIdle DEF Tied, Fresh, PageRows, Assets, Writing!Assets
<1>4. ASSUME NEW kind, NEW p, NEW a, Writing!Begin(r, kind, g, p, a), Begins(r, kind, g, p, a)
      PROVE  DraftInv'
  BY <1>4, BeginFacts, DraftStarts
<1>5. \A kind, p, a : kind \notin Writing!Creates =>
        (hasty' \subseteq Pages /\ hasty \subseteq hasty'
         /\ (kind \in Writing!Creates /\ p = Nil /\ g \notin hasty' =>
               made[g] = {} /\ \A q \in Requests : ~(saving[q].page = g /\ Kind(q) \in Writing!Creates)))
  BY <1>2
<1>6. CASE Writing!Begin(r, "view", g, Nil, Nil)
  <2>1. Begins(r, "view", g, Nil, Nil)
    BY <1>2, KindFacts DEF Begins, Writing!Kinds
  <2> QED BY <1>4, <1>6, <2>1
<1>7. CASE /\ clock + Writing!Clicking < MaxClicks
           /\ \E f \in Files \ (drawer \cup lost \cup {saving[q].asset : q \in Requests}),
                kind \in {"upload", "import"} : Writing!Begin(r, kind, g, page[g].post, f)
  <2>1. PICK f \in Files \ (drawer \cup lost \cup {saving[q].asset : q \in Requests}),
             kind \in {"upload", "import"} : Writing!Begin(r, kind, g, page[g].post, f)
    BY <1>7
  <2>2. clock + Cardinality(Calls) < MaxClicks
    BY <1>7, ClickingFacts
  <2>3. f \in Assets /\ f \notin Known /\ \A q \in Requests : saving[q].asset # f
    BY <1>3, <2>1 DEF Known
  <2>4. page[g].post = Nil => ~page[g].edit
    BY <1>3
  <2>5. Begins(r, kind, g, page[g].post, f)
    BY <1>2, <1>3, <2>1, <2>2, <2>3, <2>4, KindFacts DEF Begins, Writing!Kinds
  <2> QED BY <1>4, <2>1, <2>5
<1>8. CASE /\ clock + Writing!Clicking < MaxClicks
           /\ \E a \in (Library \cup Shared) \cap drawer :
                IF page[g].edit THEN Writing!Begin(r, "attach", g, page[g].post, a)
                ELSE Writing!Begin(r, "pend", g, Nil, a)
  <2>1. PICK a \in (Library \cup Shared) \cap drawer :
                IF page[g].edit THEN Writing!Begin(r, "attach", g, page[g].post, a)
                ELSE Writing!Begin(r, "pend", g, Nil, a)
    BY <1>8
  <2>2. clock + Cardinality(Calls) < MaxClicks /\ a \in Known /\ a \in Assets
    BY <1>3, <1>8, <2>1, ClickingFacts DEF Known
  <2>3. CASE page[g].edit
    <3>1. Begins(r, "attach", g, page[g].post, a)
      BY <1>2, <1>3, <2>2, <2>3, KindFacts DEF Begins, Writing!Kinds
    <3> QED BY <1>4, <2>1, <2>3, <3>1
  <2>4. CASE ~page[g].edit
    <3>1. Begins(r, "pend", g, Nil, a)
      BY <1>2, <1>3, <2>2, <2>4, KindFacts DEF Begins, Writing!Kinds
    <3> QED BY <1>4, <2>1, <2>4, <3>1
  <2> QED BY <2>3, <2>4
<1>9. CASE /\ clock + Writing!Clicking < MaxClicks
           /\ \E a \in page[g].shown :
                IF page[g].post # Nil /\ a \in DOMAIN post[page[g].post]
                THEN Writing!Begin(r, "remove", g, page[g].post, a)
                ELSE Writing!Begin(r, "unpend", g, Nil, a)
  <2>1. PICK a \in page[g].shown :
                IF page[g].post # Nil /\ a \in DOMAIN post[page[g].post]
                THEN Writing!Begin(r, "remove", g, page[g].post, a)
                ELSE Writing!Begin(r, "unpend", g, Nil, a)
    BY <1>9
  <2>2. clock + Cardinality(Calls) < MaxClicks /\ a \in Known /\ a \in Assets /\ a # Nil
    BY <1>3, <1>9, <2>1, ClickingFacts
  <2>3. CASE page[g].post # Nil /\ a \in DOMAIN post[page[g].post]
    <3>1. Begins(r, "remove", g, page[g].post, a)
      BY <1>2, <1>3, <2>2, <2>3, KindFacts DEF Begins, Writing!Kinds
    <3> QED BY <1>4, <2>1, <2>3, <3>1
  <2>4. CASE ~(page[g].post # Nil /\ a \in DOMAIN post[page[g].post])
    <3>1. Begins(r, "unpend", g, Nil, a)
      BY <1>2, <1>3, <2>2, KindFacts DEF Begins, Writing!Kinds
    <3> QED BY <1>4, <2>1, <2>4, <3>1
  <2> QED BY <2>3, <2>4
<1> QED BY <1>6, <1>7, <1>8, <1>9 DEF Writing!BeginOther

LEMMA DraftInit == Writing!Init => DraftInv
<1> SUFFICES ASSUME Writing!Init PROVE DraftInv
  OBVIOUS
<1>1. /\ session = <<>> /\ page = [g \in Pages |-> Writing!Closed]
      /\ post = [p \in Written |-> Writing!NoMedia] /\ drawer = Library \cup Shared
      /\ saving = [r \in Requests |-> Writing!Idle]
      /\ clock = 0 /\ overlaps = 0 /\ made = [g \in Pages |-> {}] /\ hasty = {} /\ lost = {}
  BY DEF Writing!Init
<1>2. /\ Writing!Closed \in PageRows /\ Writing!Closed.edit = FALSE /\ Writing!Closed.post = Nil
      /\ Writing!Closed.shown = {}
  BY DEF Writing!Closed, PageRows
<1>3. \A r \in Requests : saving[r] = Writing!Idle /\ Kind(r) = "idle" /\ Seen(r) = {} /\ Has(r) = {}
  BY <1>1, DraftIdle, OfNothing DEF Kind, Seen, Has
<1>4. \A r \in Requests : ~Busy(r) /\ ~Adds(r) /\ ~Drops(r) /\ ~Uploads(r) /\ \A g \in Pages : ~Creating(r, g)
  BY <1>3, DraftIdle DEF Busy, Adds, Drops, Uploads, Creating
<1>5. Attachments = {} /\ post \in PostRows /\ \A p \in DOMAIN post : post[p] = Writing!NoMedia
  <2>1. Written \in SUBSET Posts
    BY SetAssumption
  <2>2. post \in [Written -> Attached] /\ \A p \in DOMAIN post : post[p] = Writing!NoMedia
    BY <1>1, EmptyMedia
  <2> QED BY <2>1, <2>2, EmptyMedia DEF Attachments, PostRows
<1>6. DraftTyped
  <2>1. Calls = {} /\ Cardinality(Calls) = 0
    <3>1. Calls = {}
      BY <1>3, DraftIdle DEF Calls, Kind
    <3> QED BY <3>1, FS_EmptySet
  <2>2. session \in Seq(Entries)
    BY <1>1
  <2>3. saving \in [Requests -> Saves]
    <3> HIDE DEF Saves
    <3> QED BY <1>1, DraftIdle
  <2>4. page \in [Pages -> PageRows]
    <3> HIDE DEF PageRows
    <3> QED BY <1>1, <1>2
  <2>5. drawer \subseteq Assets
    BY <1>1 DEF Assets, Writing!Assets
  <2>6. clock \in Nat /\ clock + Cardinality(Calls) <= MaxClicks /\ overlaps \in 0..MaxOverlaps
    BY <1>1, <2>1, DraftIdle
  <2> QED BY <1>1, <1>5, <2>2, <2>3, <2>4, <2>5, <2>6 DEF DraftTyped
<1>7. Tied
  <2>1. \A r \in Requests : saving[r].post = Nil /\ saving[r].created = Nil
    BY <1>3, DraftIdle
  <2> QED BY <1>1, <1>2, <1>3, <2>1, DraftIdle DEF Tied, Busy
<1>8. Fresh
  BY <1>1, <1>2, <1>3, <1>4, <1>5, OfNothing DEF Fresh
<1>9. Once
  BY <1>1, <1>4 DEF Once
<1>10. Guarded
  BY <1>1, <1>2, <1>3, <1>4 DEF Guarded
<1>11. InTurn
  <2>1. \A r \in Requests : saving[r].session = <<>>
    BY <1>3, DraftIdle
  <2> QED BY <1>1, <1>4, <1>5, <2>1, NothingWaits, EmptyMedia DEF InTurn
<1> QED BY <1>6, <1>7, <1>8, <1>9, <1>10, <1>11 DEF DraftInv

LEMMA DraftStutter ==
  ASSUME DraftInv, UNCHANGED writing
  PROVE  DraftInv'
<1>1. /\ session' = session /\ page' = page /\ post' = post /\ drawer' = drawer /\ saving' = saving
      /\ clock' = clock /\ overlaps' = overlaps /\ made' = made /\ hasty' = hasty /\ lost' = lost
  BY DEF writing
<1>2. DraftTyped /\ Tied /\ Fresh /\ Once /\ Guarded /\ InTurn
  BY DEF DraftInv
<1>3. DraftTyped' /\ Tied'
  <2>1. Cardinality(Calls)' = Cardinality(Calls)
    BY <1>1 DEF Calls
  <2> QED BY <1>1, <1>2, <2>1 DEF DraftTyped, Tied, Kind, Busy
<1>4. Fresh'
  BY <1>1, <1>2 DEF Fresh, Known, Attachments, Seen, Has, Adds, Drops, Uploads, Kind
<1>5. Once'
  BY <1>1, <1>2 DEF Once, Creating, Kind
<1>6. Guarded'
  BY <1>1, <1>2 DEF Guarded, Safe, Attachments, Seen, Has, Adds, Kind
<1>7. InTurn'
  BY <1>1, <1>2 DEF InTurn, Busy, Kind, Attaching
<1> QED BY <1>3, <1>4, <1>5, <1>6, <1>7 DEF DraftInv

LEMMA DraftNext ==
  ASSUME DraftInv, [Writing!Next]_writing
  PROVE  DraftInv'
<1>1. CASE UNCHANGED writing
  BY <1>1, DraftStutter
<1>2. ASSUME NEW g \in Pages, Writing!Close(g) \/ \E p \in {Nil} \cup DOMAIN post : Writing!Open(g, p)
      PROVE  DraftInv'
  BY <1>2, DraftClose, DraftOpen
<1>3. ASSUME NEW r \in Requests,
             \/ Writing!Upload(r) \/ Writing!ImportPhoto(r) \/ Writing!Refuse(r)
             \/ Writing!AttachPending(r) \/ Writing!AttachMedia(r) \/ Writing!RemoveMedia(r)
             \/ Writing!RemovePending(r) \/ Writing!Fail(r)
      PROVE  DraftInv'
  <2>1. CASE Writing!Upload(r) \/ Writing!ImportPhoto(r)
    <3>1. Kind(r) \in {"upload", "import"} /\ ~saving[r].done /\ Writing!Add(r)
      BY <2>1 DEF Writing!Upload, Writing!ImportPhoto, Writing!At, Kind
    <3> QED BY <3>1, DraftAdd
  <2>2. CASE Writing!Refuse(r) \/ Writing!Fail(r)
    BY <2>2, DraftLeaves
  <2>3. CASE Writing!AttachPending(r)
    BY <2>3, DraftPend
  <2>4. CASE Writing!AttachMedia(r)
    BY <2>4, DraftAttach
  <2>5. CASE Writing!RemoveMedia(r)
    BY <2>5, DraftRemove
  <2>6. CASE Writing!RemovePending(r)
    BY <2>6, DraftUnpend
  <2> QED BY <1>3, <2>1, <2>2, <2>3, <2>4, <2>5, <2>6
<1>4. ASSUME NEW r \in Requests,
             \/ Writing!Autosave(r) \/ Writing!Save(r) \/ Writing!Submit(r)
             \/ Writing!End(r) \/ Writing!Unheard(r)
             \/ \E g \in Pages : Writing!BeginOther(r, g) \/ \E k \in Writing!Creates : Writing!BeginCreate(r, g, k)
      PROVE  DraftInv'
  <2>1. CASE Writing!Autosave(r) \/ Writing!Save(r) \/ Writing!Submit(r)
    BY <2>1, DraftSave
  <2>2. CASE Writing!End(r) \/ Writing!Unheard(r)
    BY <2>2, DraftAnswer
  <2>3. CASE \E g \in Pages : Writing!BeginOther(r, g) \/ \E k \in Writing!Creates : Writing!BeginCreate(r, g, k)
    BY <2>3, DraftBeginOther, DraftBeginCreate
  <2> QED BY <1>4, <2>1, <2>2, <2>3
<1> QED BY <1>1, <1>2, <1>3, <1>4 DEF Writing!Next

LEMMA DraftKeeps ==
  ASSUME DraftInv
  PROVE  /\ Writing!OneDraftPerPage /\ Writing!PickedMediaAreKept /\ Writing!MediaKeepTheirOrder
         /\ Writing!TypeOK
<1>1. DraftTyped /\ Tied /\ Fresh /\ Once /\ Guarded /\ InTurn
  BY DEF DraftInv
<1>2. Writing!OneDraftPerPage
  <2> SUFFICES ASSUME NEW g \in Pages \ hasty PROVE Writing!Cardinality(made[g]) <= 1
    BY DEF Writing!OneDraftPerPage
  <2>1. Writing!Cardinality(made[g]) = Cardinality(made[g])
    BY SMT DEF Writing!Cardinality, Cardinality
  <2>2. made[g] = {} \/ \E p \in Posts : made[g] = {p}
    BY <1>1 DEF Once
  <2>3. Cardinality(made[g]) \in {0, 1}
    BY <2>2, FS_EmptySet, FS_Singleton
  <2> QED BY <2>1, <2>3
<1>3. Writing!PickedMediaAreKept
  <2> SUFFICES ASSUME NEW g \in Pages, NEW a \in (page[g].shown \cap drawer) \ lost
               PROVE  a \in Writing!Of(session) \/ \E p \in DOMAIN post : a \in DOMAIN post[p]
    BY DEF Writing!PickedMediaAreKept
  <2>1. a \in Attachments \cup Writing!Of(session)
    BY <1>1 DEF Guarded, Safe
  <2> QED BY <2>1 DEF Attachments
<1>4. Writing!MediaKeepTheirOrder
  <2> SUFFICES ASSUME overlaps = 0, NEW p \in DOMAIN post
               PROVE  \A a, b \in DOMAIN post[p] \ lost :
                        post[p][a].by = post[p][b].by /\ post[p][a].at < post[p][b].at =>
                          post[p][a].pos < post[p][b].pos
    BY DEF Writing!MediaKeepTheirOrder
  <2>1. Straight(post[p], lost)
    BY <1>1 DEF InTurn
  <2> QED BY <2>1 DEF Straight
<1>5. Writing!TypeOK
  <2>1. \A s \in Seq(Entries) : Writing!Range(s) \subseteq Entries
    BY EntryFacts DEF Writing!Range
  <2>2. page \in [Pages -> PageRows] /\ post \in PostRows /\ drawer \subseteq Assets
    BY <1>1 DEF DraftTyped
  <2>3. \A p \in DOMAIN post : DOMAIN post[p] \subseteq Assets /\ Writing!Range(post[p]) \subseteq Writing!Media
    <3> TAKE p \in DOMAIN post
    <3>1. post[p] \in Attached
      BY <2>2, PostFacts
    <3>2. DOMAIN post[p] \subseteq Assets /\ post[p] \in [DOMAIN post[p] -> Writing!Media]
      BY <3>1, MediaFacts
    <3> QED BY <3>2 DEF Writing!Range
  <2>4. DOMAIN post \subseteq Posts
    BY <2>2, PostFacts
  <2>5. \A r \in Requests : saving[r].kind \in Writing!Kinds /\ Writing!Range(saving[r].session) \subseteq Entries
    BY <1>1, <2>1, CallFacts DEF Kind
  <2>6. clock \in 0..MaxClicks
    <3>1. IsFiniteSet(Calls)
      BY SetAssumption, FS_Subset DEF Calls
    <3>2. Cardinality(Calls) \in Nat
      BY <3>1, FS_CardinalityType
    <3> QED BY <1>1, <3>2, DraftIdle DEF DraftTyped
  <2> QED
    BY <1>1, <2>1, <2>2, <2>3, <2>4, <2>5, <2>6
    DEF Writing!TypeOK, DraftTyped, Entries, Assets, PageRows
<1> QED BY <1>2, <1>3, <1>4, <1>5

-----------------------------------------------------------------------------
(* The board of ideas (Ideas).                                              *)

Numbers(S) == UNION {[s -> Nat] : s \in SUBSET S}
IdeaRows == UNION {[s -> Board!Rows] : s \in SUBSET Themes}
Converted == [idea : Themes, media : Numbers(Pictures)]
Plans == [kind : Board!Kinds \cup {Nil}, at : {"new", "go", "saved", "read", "end"},
          idea : Themes \cup {Nil}, copy : Board!Rows, media : Numbers(Pictures),
          list : Numbers(Pictures) \cup Numbers(Columns), column : Columns \cup {Nil},
          seen : Numbers(Columns)]

BoardTyped ==
  /\ column \in Numbers(Columns) /\ idea \in IdeaRows /\ store \subseteq Pictures
  /\ attached \in [Themes -> Numbers(Pictures)]
  /\ converted \in UNION {[s -> Converted] : s \in SUBSET Planners}
  /\ lock \in [Themes -> Planners \cup {Nil}] /\ linked \in [Themes -> Planners \cup {Nil}]
  /\ planning \in [Planners -> Plans]
  /\ deleted \subseteq Themes \cup Columns /\ torn \subseteq Themes
  /\ wrote \in [Themes -> Numbers(Pictures)] /\ sent \in [Themes -> SUBSET Numbers(Pictures)]
  /\ crowded \in BOOLEAN

Ever == DOMAIN idea \cup deleted

\* What a request has read of the idea it is about, and what became of it.
Begun(q) ==
  /\ q.kind \in {"create", "edit", "move", "convert", "delete"} => q.idea \in Themes
  /\ q.kind \notin {"create", "edit", "move", "convert", "delete"} => q.idea = Nil
  /\ q.kind # "reorder" => q.list \in Numbers(Pictures)
  /\ q.kind = "create" => q.idea \notin Ever /\ q.copy.post = Nil
  /\ q.kind \in {"edit", "move", "convert", "delete"} => q.idea \in Ever
  /\ q.kind = "deleteColumn" => q.column \in Columns
  /\ q.kind = "reorder" =>
       /\ q.list \in Numbers(Columns) /\ DOMAIN q.list \subseteq DOMAIN q.seen
       /\ \A c, d \in DOMAIN q.list : q.list[c] = q.list[d] => c = d
  /\ q.kind = "convert" /\ q.idea \notin torn /\ DOMAIN q.media \subseteq store =>
       /\ \E list \in sent[q.idea] : q.media = Board!Valid(list)
       /\ q.media = Board!Nothing => q.copy.cover = Nil

\* An edit that has saved the text holds the row; once it has read the media,
\* they change only as assets are deleted.
Editing(r) ==
  LET q == planning[r] IN
  q.kind = "edit" /\ q.at \in {"saved", "read"} =>
    /\ lock[q.idea] = r /\ q.idea \in DOMAIN idea
    /\ q.at = "read" =>
         /\ DOMAIN attached[q.idea] = DOMAIN q.media \cap store
         /\ q.idea \notin torn => DOMAIN q.media \subseteq store

\* An idea that no request has made yet is one request's.
Sole(r) ==
  planning[r].kind = "create" =>
    \A q \in Planners \ {r} : planning[q].idea # planning[r].idea

Good(i) ==
  /\ DOMAIN attached[i] \subseteq store /\ wrote[i] \in sent[i]
  /\ i \notin Ever => linked[i] = Nil
  /\ i \in DOMAIN idea \ deleted => attached[i] = Board!Valid(wrote[i])
  /\ i \in DOMAIN idea \ torn =>
       i \notin deleted /\ idea[i].cover = Board!CoverOf(attached[i]) /\ idea[i].post = linked[i]

Drafted(p) ==
  converted[p].idea \notin torn =>
    \E list \in sent[converted[p].idea] : converted[p].media = Board!Valid(list)

Apart(places) == \A c, d \in DOMAIN places : places[c] = places[d] => c = d

BoardInv ==
  /\ BoardTyped
  /\ \A r \in Planners : Begun(planning[r]) /\ Editing(r) /\ Sole(r)
  /\ \A i \in Themes : Good(i)
  /\ \A p \in DOMAIN converted : Drafted(p)
  /\ crowded \/ Apart(column)

LEMMA NumberFacts ==
  ASSUME NEW S, NEW f \in Numbers(S)
  PROVE  DOMAIN f \subseteq S /\ f \in [DOMAIN f -> Nat] /\ \A x \in DOMAIN f : f[x] \in Nat
BY DEF Numbers

LEMMA NumberMade ==
  ASSUME NEW S, NEW T \in SUBSET S, NEW f, f \in [T -> Nat]
  PROVE  f \in Numbers(S) /\ DOMAIN f = T
BY DEF Numbers

LEMMA SameNumbers ==
  ASSUME NEW S, NEW f \in Numbers(S), NEW g \in Numbers(S), DOMAIN f = DOMAIN g,
         \A x \in DOMAIN f : f[x] = g[x]
  PROVE  f = g
BY NumberFacts

LEMMA RestrictedFacts ==
  ASSUME NEW S, NEW f \in Numbers(S), NEW T, T \subseteq DOMAIN f
  PROVE  /\ Board!Restrict(f, T) \in Numbers(S) /\ DOMAIN Board!Restrict(f, T) = T
         /\ \A x \in T : Board!Restrict(f, T)[x] = f[x]
<1>1. DOMAIN f \subseteq S /\ \A x \in DOMAIN f : f[x] \in Nat
  BY NumberFacts
<1>2. Board!Restrict(f, T) = [x \in T |-> f[x]]
  BY DEF Board!Restrict
<1>3. [x \in T |-> f[x]] \in [T -> Nat] /\ T \in SUBSET S
  BY <1>1
<1> QED BY <1>2, <1>3, NumberMade

LEMMA NothingFacts ==
  /\ DOMAIN Board!Nothing = {} /\ \A S : Board!Nothing \in Numbers(S)
  /\ \A S : \A f \in Numbers(S) : DOMAIN f = {} => f = Board!Nothing
<1>1. DOMAIN Board!Nothing = {}
  BY DEF Board!Nothing
<1>2. \A S : Board!Nothing \in Numbers(S)
  <2> TAKE S
  <2>1. {} \in SUBSET S /\ Board!Nothing \in [{} -> Nat]
    BY DEF Board!Nothing
  <2> QED BY <2>1, NumberMade
<1>3. \A S : \A f \in Numbers(S) : DOMAIN f = {} => f = Board!Nothing
  BY <1>1, <1>2, SameNumbers
<1> QED BY <1>1, <1>2, <1>3

\* The cover of a list is one of it.
LEMMA CoverFacts ==
  ASSUME NEW S, NEW list \in Numbers(S)
  PROVE  /\ Board!CoverOf(list) \in DOMAIN list \cup {Nil}
         /\ Board!CoverOf(Board!Nothing) = Nil
<1>1. Board!CoverOf(Board!Nothing) = Nil
  BY DEF Board!CoverOf
<1>2. CASE list = Board!Nothing
  BY <1>1, <1>2
<1>3. CASE list # Board!Nothing
  <2> DEFINE places == {list[a] : a \in DOMAIN list}
  <2>1. places \in SUBSET Nat /\ places # {}
    BY <1>3, NumberFacts, NothingFacts
  <2>2. PICK m \in places : \A k \in places : m <= k
    BY <2>1, LeastNatural
  <2>3. PICK a \in DOMAIN list : \A b \in DOMAIN list : list[a] <= list[b]
    BY <2>2
  <2>4. Board!CoverOf(list) \in DOMAIN list
    BY <1>3, <2>3 DEF Board!CoverOf
  <2> QED BY <1>1, <2>4
<1> QED BY <1>2, <1>3

LEMMA BoardCount == ASSUME NEW S PROVE Board!Cardinality(S) = Cardinality(S)
BY SMT DEF Board!Cardinality, Cardinality

\* A finite set can be numbered from 0.
LEMMA NumberedFacts ==
  ASSUME NEW S, IsFiniteSet(S)
  PROVE  Board!Numbered(S) \in [S -> Nat] /\ Apart(Board!Numbered(S))
<1> DEFINE n == Cardinality(S)
<1>1. n \in Nat /\ ExistsBijection(1..n, S)
  BY FS_CardinalityType
<1>2. PICK b \in Bijection(1..n, S) : TRUE
  BY <1>1 DEF ExistsBijection
<1>3. b \in [1..n -> S] /\ \A x \in S : \E k \in 1..n : b[k] = x
  BY <1>2 DEF Bijection, Surjection
<1> DEFINE at(x) == CHOOSE k \in 1..n : b[k] = x
           f == [x \in S |-> at(x) - 1]
<1>4. \A x \in S : at(x) \in 1..n /\ b[at(x)] = x
  BY <1>3
<1>5. f \in [S -> 0..(n - 1)] /\ \A x, y \in S : f[x] = f[y] => x = y
  <2>1. \A x \in S : at(x) - 1 \in 0..(n - 1)
    BY <1>1, <1>4
  <2>2. ASSUME NEW x \in S, NEW y \in S, f[x] = f[y] PROVE x = y
    <3>1. at(x) - 1 = at(y) - 1 /\ at(x) \in Nat /\ at(y) \in Nat
      BY <1>1, <1>4, <2>2
    <3>2. at(x) = at(y)
      BY <3>1
    <3> QED BY <1>4, <3>2
  <2> QED BY <2>1, <2>2
<1>6. f \in Board!Injection(S, 0..(Board!Cardinality(S) - 1))
  <2>1. f \in [S -> 0..(Board!Cardinality(S) - 1)]
    BY <1>5, BoardCount
  <2> QED BY <1>5, <2>1 DEF Board!Injection, Board!IsInjective
<1>7. Board!Numbered(S) \in Board!Injection(S, 0..(Board!Cardinality(S) - 1))
  BY <1>6 DEF Board!Numbered
<1>8. Board!Numbered(S) \in [S -> 0..(n - 1)]
  BY <1>7, BoardCount DEF Board!Injection
<1>9. Board!Numbered(S) \in [S -> Nat]
  BY <1>1, <1>8
<1> QED BY <1>7, <1>9 DEF Apart, Board!Injection, Board!IsInjective

\* A finite set has subsets of each size up to its own.
LEMMA SomeOf ==
  ASSUME NEW S, IsFiniteSet(S), NEW k \in Nat, k <= Cardinality(S)
  PROVE  \E T \in SUBSET S : Cardinality(T) = k
<1> DEFINE n == Cardinality(S)
<1>1. n \in Nat /\ ExistsBijection(1..n, S)
  BY FS_CardinalityType
<1>2. PICK b \in Bijection(1..n, S) : TRUE
  BY <1>1 DEF ExistsBijection
<1>3. b \in [1..n -> S] /\ \A i, j \in 1..n : b[i] = b[j] => i = j
  BY <1>2 DEF Bijection, Injection, IsInjective
<1> DEFINE T == {b[i] : i \in 1..k}
           f == [i \in 1..k |-> b[i]]
<1>4. 1..k \subseteq 1..n
  BY <1>1
<1>5. T \in SUBSET S
  BY <1>3, <1>4
<1>6. f \in Bijection(1..k, T)
  <2>1. f \in [1..k -> T]
    OBVIOUS
  <2>2. \A i, j \in 1..k : f[i] = f[j] => i = j
    BY <1>3, <1>4
  <2>3. \A t \in T : \E i \in 1..k : f[i] = t
    OBVIOUS
  <2> QED BY <2>1, <2>2, <2>3 DEF Bijection, Injection, Surjection, IsInjective
<1>7. ExistsBijection(1..k, T)
  BY <1>6 DEF ExistsBijection
<1>8. Cardinality(T) = k
  BY <1>7, FS_CountingElements
<1> QED BY <1>5, <1>8

\* New columns there are, when enough are not yet in use.
LEMMA NewColumnsFacts ==
  ASSUME NEW old, Defaults <= Cardinality(Columns \ old)
  PROVE  /\ Board!NewColumns(Defaults, old) \in SUBSET (Columns \ old)
         /\ IsFiniteSet(Board!NewColumns(Defaults, old))
<1>1. IsFiniteSet(Columns \ old) /\ Defaults \in Nat
  BY SetAssumption, BoundAssumption, FS_Subset
<1>2. PICK T \in SUBSET (Columns \ old) : Cardinality(T) = Defaults
  BY <1>1, SomeOf
<1>3. T \in Board!kSubset(Defaults, Columns \ old)
  BY <1>2, BoardCount DEF Board!kSubset
<1>4. Board!NewColumns(Defaults, old) \in Board!kSubset(Defaults, Columns \ old)
  BY <1>3 DEF Board!NewColumns
<1>5. Board!NewColumns(Defaults, old) \in SUBSET (Columns \ old)
  BY <1>4 DEF Board!kSubset
<1> QED BY <1>1, <1>5, FS_Subset

\* An order names each of its things at a place of its own.
LEMMA OrderFacts ==
  ASSUME NEW S, IsFiniteSet(S), NEW f \in Board!Orders(S)
  PROVE  f \in Numbers(S) /\ DOMAIN f \subseteq S /\ Apart(f)
<1>1. PICK T \in SUBSET S : f \in Board!Injection(T, 0..(Board!Cardinality(T) - 1))
  BY DEF Board!Orders
<1>2. f \in [T -> 0..(Board!Cardinality(T) - 1)] /\ Apart(f)
  BY <1>1 DEF Board!Injection, Board!IsInjective, Apart
<1>3. Board!Cardinality(T) \in Nat
  BY BoardCount, FS_Subset, FS_CardinalityType
<1>4. f \in [T -> Nat]
  BY <1>2, <1>3
<1> QED BY <1>2, <1>4, NumberMade

LEMMA PlanFacts ==
  /\ Nil \notin Planners /\ Nil \notin Themes /\ Nil \notin Board!Kinds
  /\ Board!NewRow \in Board!Rows /\ Board!NewRow.post = Nil /\ Board!Idle \in Plans
  /\ [Board!Idle EXCEPT !.at = "end"] \in Plans
  /\ [Board!Idle EXCEPT !.at = "end"].kind = Nil /\ [Board!Idle EXCEPT !.at = "end"].idea = Nil
  /\ [Board!Idle EXCEPT !.at = "end"].list = Board!Nothing
<1>1. Nil \notin Planners /\ Nil \notin Themes /\ Nil \notin Board!Kinds
  BY NoneAssumption DEF Board!Kinds
<1>2. Board!NewRow \in Board!Rows /\ Board!NewRow.post = Nil
  BY DEF Board!NewRow, Board!Rows
<1>3. Board!Nothing \in Numbers(Pictures) /\ Board!Nothing \in Numbers(Columns)
  BY NothingFacts
<1> DEFINE idle == Board!Idle
<1>4. idle \in Plans /\ idle.kind = Nil /\ idle.idea = Nil /\ idle.list = Board!Nothing
  BY <1>2, <1>3 DEF Board!Idle, Plans
<1>5. [idle EXCEPT !.at = "end"] \in Plans
  BY <1>4 DEF Plans
<1>6. /\ [idle EXCEPT !.at = "end"].kind = Nil /\ [idle EXCEPT !.at = "end"].idea = Nil
      /\ [idle EXCEPT !.at = "end"].list = Board!Nothing
  BY <1>4 DEF Board!Idle
<1> QED BY <1>1, <1>2, <1>4, <1>5, <1>6

LEMMA PlanSet ==
  ASSUME planning \in [Planners -> Plans], NEW r \in Planners, NEW q \in Plans,
         planning' = [planning EXCEPT ![r] = q]
  PROVE  /\ planning' \in [Planners -> Plans] /\ planning'[r] = q
         /\ \A s \in Planners \ {r} : planning'[s] = planning[s]
OBVIOUS

LEMMA PlanTypes ==
  ASSUME BoardTyped, NEW r \in Planners
  PROVE  /\ planning[r].kind \in Board!Kinds \cup {Nil} /\ planning[r].idea \in Themes \cup {Nil}
         /\ planning[r].copy \in Board!Rows /\ planning[r].media \in Numbers(Pictures)
         /\ planning[r].seen \in Numbers(Columns) /\ planning[r] \in Plans
         /\ planning[r].at \in {"new", "go", "saved", "read", "end"}
BY DEF BoardTyped, Plans

LEMMA IdeaFacts ==
  ASSUME NEW f \in IdeaRows
  PROVE  /\ DOMAIN f \subseteq Themes /\ f \in [DOMAIN f -> Board!Rows]
         /\ \A i \in DOMAIN f : f[i] \in Board!Rows
BY DEF IdeaRows

LEMMA IdeaMade ==
  ASSUME NEW T \in SUBSET Themes, NEW f, f \in [T -> Board!Rows]
  PROVE  f \in IdeaRows /\ DOMAIN f = T
BY DEF IdeaRows

\* A step of the board loses no history.
Grown ==
  /\ DOMAIN idea \cup deleted \subseteq Ever' /\ torn \subseteq torn' /\ store' \subseteq store
  /\ \A i \in Themes : sent[i] \subseteq sent'[i]

\* An idea that an edit holds changes only as assets are deleted.
Untouched(i) ==
  /\ lock'[i] = lock[i] /\ (i \in DOMAIN idea => i \in DOMAIN idea')
  /\ DOMAIN attached'[i] = DOMAIN attached[i] \cap store'
  /\ i \notin torn' => DOMAIN attached[i] \subseteq store'

\* The valid part of a list that fits the assets left is as it was.
LEMMA StillValid ==
  ASSUME NEW list, store' \subseteq store, DOMAIN Board!Valid(list) \subseteq store'
  PROVE  Board!Valid(list)' = Board!Valid(list)
<1>1. DOMAIN Board!Valid(list) = DOMAIN list \cap store
  BY DEF Board!Valid, Board!Restrict
<1>2. DOMAIN list \cap store' = DOMAIN list \cap store
  BY <1>1
<1> QED BY <1>2 DEF Board!Valid, Board!Restrict

LEMMA BegunStays ==
  ASSUME BoardInv, Grown, NEW r \in Planners, planning'[r] = planning[r],
         planning[r].kind = "create" => planning[r].idea \notin Ever'
  PROVE  Begun(planning[r])'
<1> DEFINE q == planning[r]
<1>1. Begun(q)
  BY DEF BoardInv
<1>2. q.kind \in {"edit", "move", "convert", "delete"} => q.idea \in Ever'
  BY <1>1 DEF Begun, Grown, Ever
<1>3. ASSUME q.kind = "convert", q.idea \notin torn', DOMAIN q.media \subseteq store'
      PROVE  /\ \E list \in sent'[q.idea] : q.media = Board!Valid(list)'
             /\ q.media = Board!Nothing => q.copy.cover = Nil
  <2>1. q.idea \notin torn /\ DOMAIN q.media \subseteq store
    BY <1>3 DEF Grown
  <2>2. /\ \E list \in sent[q.idea] : q.media = Board!Valid(list)
        /\ q.media = Board!Nothing => q.copy.cover = Nil
        /\ q.idea \in Themes
    BY <1>1, <1>3, <2>1 DEF Begun
  <2>3. PICK list \in sent[q.idea] : q.media = Board!Valid(list)
    BY <2>2
  <2>4. Board!Valid(list)' = Board!Valid(list)
    BY <1>3, <2>3, StillValid DEF Grown
  <2>5. list \in sent'[q.idea]
    BY <2>2 DEF Grown
  <2> QED BY <2>2, <2>3, <2>4, <2>5
<1> QED BY <1>1, <1>2, <1>3 DEF Begun

LEMMA EditingStays ==
  ASSUME BoardInv, Grown, NEW r \in Planners, planning'[r] = planning[r],
         \A i \in DOMAIN idea : lock[i] = r => Untouched(i)
  PROVE  Editing(r)'
<1> DEFINE q == planning[r]
<1>1. SUFFICES ASSUME q.kind = "edit", q.at \in {"saved", "read"}
               PROVE  /\ lock'[q.idea] = r /\ q.idea \in DOMAIN idea'
                      /\ q.at = "read" =>
                           /\ DOMAIN attached'[q.idea] = DOMAIN q.media \cap store'
                           /\ q.idea \notin torn' => DOMAIN q.media \subseteq store'
  BY DEF Editing
<1>2. /\ lock[q.idea] = r /\ q.idea \in DOMAIN idea
      /\ q.at = "read" =>
           /\ DOMAIN attached[q.idea] = DOMAIN q.media \cap store
           /\ q.idea \notin torn => DOMAIN q.media \subseteq store
  BY <1>1 DEF BoardInv, Editing
<1>3. q.idea \in Themes
  BY <1>1 DEF BoardInv, Begun
<1>4. Untouched(q.idea)
  BY <1>2, <1>3
<1>5. ASSUME q.at = "read"
      PROVE  /\ DOMAIN attached'[q.idea] = DOMAIN q.media \cap store'
             /\ q.idea \notin torn' => DOMAIN q.media \subseteq store'
  BY <1>2, <1>4, <1>5 DEF Untouched, Grown
<1> QED BY <1>2, <1>4, <1>5 DEF Untouched

\* A request of its own does not disturb the others.
LEMMA OthersStay ==
  ASSUME BoardInv, Grown, NEW r \in Planners,
         \A s \in Planners \ {r} : planning'[s] = planning[s],
         \A i \in DOMAIN idea : lock[i] \notin {Nil, r} => Untouched(i),
         \A i \in Themes \cap (Ever' \ Ever) : i = planning[r].idea,
         \/ planning'[r].idea \in {Nil, planning[r].idea} \cup Ever
         \/ \A s \in Planners : planning'[r].idea # planning[s].idea
  PROVE  \A s \in Planners \ {r} : Begun(planning[s])' /\ Editing(s)' /\ Sole(s)'
<1> TAKE s \in Planners \ {r}
<1>1. Begun(planning[s]) /\ Sole(s)
  BY DEF BoardInv
<1>2. planning[s].kind = "create" =>
        /\ planning[s].idea \in Themes /\ planning[s].idea \notin Ever
        /\ planning[s].idea # planning[r].idea
  BY <1>1 DEF Begun, Sole
<1>3. planning'[s] = planning[s]
  OBVIOUS
<1>4. planning[s].kind = "create" => planning[s].idea \notin Ever'
  BY <1>2
<1>5. Begun(planning[s])'
  BY <1>3, <1>4, BegunStays
<1>6. \A i \in DOMAIN idea : lock[i] = s => Untouched(i)
  BY PlanFacts
<1>7. Editing(s)'
  BY <1>3, <1>6, EditingStays
<1>8. Sole(s)'
  <2>1. SUFFICES ASSUME planning[s].kind = "create", NEW q \in Planners \ {s}
                 PROVE  planning'[q].idea # planning[s].idea
    BY <1>3 DEF Sole
  <2>2. CASE q = r
    BY <1>2, <2>1, <2>2, PlanFacts
  <2>3. CASE q # r
    BY <1>1, <2>1, <2>3 DEF Sole
  <2> QED BY <2>2, <2>3
<1> QED BY <1>5, <1>7, <1>8

\* A request that ends leaves the others as they were.
LEMMA EndStays ==
  ASSUME BoardInv, Grown, NEW r \in Planners, Board!Ends(r),
         \A i \in DOMAIN idea : lock[i] \notin {Nil, r} => Untouched(i),
         \A i \in Themes \cap (Ever' \ Ever) : i = planning[r].idea
  PROVE  /\ planning' \in [Planners -> Plans]
         /\ \A s \in Planners : Begun(planning[s])' /\ Editing(s)' /\ Sole(s)'
<1> DEFINE end == [Board!Idle EXCEPT !.at = "end"]
<1>1. /\ planning' \in [Planners -> Plans] /\ planning'[r] = end
      /\ \A s \in Planners \ {r} : planning'[s] = planning[s]
  BY PlanFacts, PlanSet DEF Board!Ends, BoardInv, BoardTyped
<1>2. end.kind = Nil /\ end.idea = Nil /\ end.list = Board!Nothing
  BY PlanFacts
<1> HIDE DEF end
<1>3. \A s \in Planners \ {r} : Begun(planning[s])' /\ Editing(s)' /\ Sole(s)'
  BY <1>1, <1>2, OthersStay
<1>4. Begun(planning[r])' /\ Editing(r)' /\ Sole(r)'
  <2>1. Nil \notin {"create", "edit", "move", "convert", "delete", "deleteColumn", "reorder"}
    BY NoneAssumption
  <2>2. Board!Nothing \in Numbers(Pictures)
    BY NothingFacts
  <2> QED BY <1>1, <1>2, <2>1, <2>2 DEF Begun, Editing, Sole
<1> QED BY <1>1, <1>3, <1>4

LEMMA GoodStays ==
  ASSUME NEW i \in Themes, Good(i), store' = store, attached'[i] = attached[i], wrote'[i] = wrote[i],
         wrote[i] \in sent'[i], linked'[i] = linked[i], i \in deleted' <=> i \in deleted,
         torn \subseteq torn', i \in DOMAIN idea' <=> i \in DOMAIN idea,
         i \in DOMAIN idea => idea'[i].cover = idea[i].cover /\ idea'[i].post = idea[i].post
  PROVE  Good(i)'
BY DEF Good, Ever, Board!Valid, Board!CoverOf

LEMMA DraftedStays ==
  ASSUME NEW p, Drafted(p), store' = store, converted'[p] = converted[p], torn \subseteq torn',
         sent[converted[p].idea] \subseteq sent'[converted[p].idea]
  PROVE  Drafted(p)'
BY DEF Drafted, Board!Valid

-----------------------------------------------------------------------------
(* The actions of the board.                                                *)

Steady == UNCHANGED <<Board!rows, Board!board>>

LEMMA SteadyFacts ==
  ASSUME BoardInv, Steady
  PROVE  /\ Grown /\ \A i \in DOMAIN idea : Untouched(i)
         /\ Ever' = Ever
         /\ idea' = idea /\ column' = column /\ torn' = torn /\ store' = store /\ sent' = sent
<1>1. /\ idea' = idea /\ attached' = attached /\ store' = store /\ converted' = converted
      /\ lock' = lock /\ deleted' = deleted /\ wrote' = wrote /\ sent' = sent
      /\ linked' = linked /\ torn' = torn /\ column' = column /\ crowded' = crowded
  BY DEF Steady, Board!rows, Board!board
<1>2. Ever' = Ever
  BY <1>1 DEF Ever
<1>3. \A i \in DOMAIN idea : DOMAIN attached[i] \subseteq store
  BY IdeaFacts DEF BoardInv, BoardTyped, Good
<1> QED BY <1>1, <1>2, <1>3 DEF Grown, Untouched, Ever

\* When only requests change, what they know is all there is to show.
LEMMA BoardWaits ==
  ASSUME BoardInv, Steady, planning' \in [Planners -> Plans],
         \A s \in Planners : Begun(planning[s])' /\ Editing(s)' /\ Sole(s)'
  PROVE  BoardInv'
<1>1. /\ idea' = idea /\ attached' = attached /\ store' = store /\ converted' = converted
      /\ lock' = lock /\ deleted' = deleted /\ wrote' = wrote /\ sent' = sent
      /\ linked' = linked /\ torn' = torn /\ column' = column /\ crowded' = crowded
  BY DEF Steady, Board!rows, Board!board
<1>2. BoardTyped'
  BY <1>1 DEF BoardInv, BoardTyped
<1>3. \A i \in Themes : Good(i)'
  BY <1>1 DEF BoardInv, Good, Ever, Board!Valid, Board!CoverOf
<1>4. \A p \in DOMAIN converted' : Drafted(p)'
  BY <1>1 DEF BoardInv, Drafted, Board!Valid
<1>5. (crowded \/ Apart(column))'
  BY <1>1 DEF BoardInv, Apart
<1> QED BY <1>2, <1>3, <1>4, <1>5 DEF BoardInv

LEMMA BoardRefuses ==
  ASSUME BoardInv, NEW r \in Planners, Board!Refused(r)
  PROVE  BoardInv'
<1>1. Steady /\ Board!Ends(r)
  BY DEF Steady, Board!Refused
<1>2. /\ Grown /\ \A i \in DOMAIN idea : Untouched(i)
      /\ \A i \in Themes \cap (Ever' \ Ever) : i = planning[r].idea
  BY <1>1, SteadyFacts
<1> QED BY <1>1, <1>2, EndStays, BoardWaits

\* A request begins with what it reads.
LEMMA BoardBegins ==
  ASSUME BoardInv, NEW r \in Planners, NEW q \in Plans, Board!Begin(r, q), Begun(q),
         q.kind = "edit" => q.at = "go",
         q.kind = "create" => \A s \in Planners : planning[s].idea # q.idea,
         \/ q.idea \in {Nil} \cup Ever
         \/ \A s \in Planners : q.idea # planning[s].idea
  PROVE  BoardInv'
<1>1. Steady /\ planning' = [planning EXCEPT ![r] = q]
  BY DEF Steady, Board!Begin
<1>2. /\ planning' \in [Planners -> Plans] /\ planning'[r] = q
      /\ \A s \in Planners \ {r} : planning'[s] = planning[s]
  BY <1>1, PlanSet DEF BoardInv, BoardTyped
<1>3. /\ Grown /\ \A i \in DOMAIN idea : Untouched(i)
      /\ \A i \in Themes \cap (Ever' \ Ever) : i = planning[r].idea
      /\ Ever' = Ever /\ idea' = idea /\ torn' = torn /\ store' = store /\ sent' = sent
  BY <1>1, SteadyFacts
<1>4. \A s \in Planners \ {r} : Begun(planning[s])' /\ Editing(s)' /\ Sole(s)'
  BY <1>2, <1>3, OthersStay
<1>5. Begun(planning[r])'
  <2>1. Begun(q)
    OBVIOUS
  <2> QED BY <1>2, <1>3, <2>1 DEF Begun, Board!Valid
<1>6. Editing(r)'
  BY <1>2 DEF Editing
<1>7. Sole(r)'
  BY <1>2 DEF Sole
<1> QED BY <1>1, <1>2, <1>4, <1>5, <1>6, <1>7, BoardWaits

LEMMA BoardFinite == IsFiniteSet(Pictures) /\ IsFiniteSet(Columns) /\ \A S : S \subseteq Columns => IsFiniteSet(S)
BY SetAssumption, FS_Subset

LEMMA ListFacts == ASSUME NEW l \in Board!Lists PROVE l \in Numbers(Pictures)
BY SetAssumption, OrderFacts DEF Board!Lists

\* Kinds are not none.
LEMMA BoardKinds ==
  Nil \notin {"create", "edit", "move", "convert", "delete",
               "board", "addColumn", "deleteColumn", "reorder"}
BY NoneAssumption

LEMMA BoardBeginCreate ==
  ASSUME BoardInv, NEW r \in Planners, Board!BeginCreate(r) \/ Board!BeginDashboard(r)
  PROVE  BoardInv'
<1> DEFINE idle == Board!Idle
           new == Themes \ (DOMAIN idea \cup deleted \cup {planning[s].idea : s \in Planners})
<1>1. idle \in Plans /\ idle.copy.post = Nil /\ idle.list \in Numbers(Pictures) /\ "create" \in Board!Kinds
  BY PlanFacts, NothingFacts DEF Board!Idle, Board!Kinds
<1> HIDE DEF idle
<1>2. PICK i \in new, q \in Plans :
        /\ Board!Begin(r, q) /\ q.kind = "create" /\ q.at = "go" /\ q.idea = i
        /\ q.list \in Numbers(Pictures) /\ q.copy.post = Nil
  <2>1. CASE Board!BeginCreate(r)
    <3>1. PICK i \in new, c \in Columns, l \in Board!Lists :
            Board!Begin(r, [idle EXCEPT !.kind = "create", !.at = "go", !.idea = i, !.list = l,
                             !.copy.group = IF c \in DOMAIN column THEN c ELSE Nil])
      BY <2>1 DEF Board!BeginCreate, idle
    <3> DEFINE g == IF c \in DOMAIN column THEN c ELSE Nil
               q == [idle EXCEPT !.kind = "create", !.at = "go", !.idea = i, !.list = l, !.copy.group = g]
    <3>2. l \in Numbers(Pictures) /\ g \in Columns \cup {Nil}
      BY ListFacts
    <3>3. Board!Begin(r, q)
      BY <3>1
    <3> HIDE DEF g
    <3>4. idle.copy \in Board!Rows
      BY <1>1 DEF Plans
    <3>5. [idle.copy EXCEPT !.group = g] \in Board!Rows /\ [idle.copy EXCEPT !.group = g].post = Nil
      BY <1>1, <3>2, <3>4 DEF Board!Rows
    <3>6. q.copy = [idle.copy EXCEPT !.group = g]
      BY <1>1, <3>4 DEF Plans
    <3>7. q \in Plans
      BY <1>1, <3>2, <3>5 DEF Plans
    <3>8. q.kind = "create" /\ q.at = "go" /\ q.idea = i /\ q.list = l
      BY <1>1 DEF Plans
    <3> QED BY <3>2, <3>3, <3>5, <3>6, <3>7, <3>8
  <2>2. CASE Board!BeginDashboard(r)
    <3>1. PICK i \in new : Board!Begin(r, [idle EXCEPT !.kind = "create", !.at = "go", !.idea = i])
      BY <2>2 DEF Board!BeginDashboard, idle
    <3> DEFINE q == [idle EXCEPT !.kind = "create", !.at = "go", !.idea = i]
    <3>2. q \in Plans /\ q.kind = "create" /\ q.at = "go" /\ q.idea = i /\ q.list = idle.list /\ q.copy = idle.copy
      BY <1>1 DEF Plans
    <3> QED BY <1>1, <3>1, <3>2
  <2> QED BY <2>1, <2>2
<1>3. Begun(q)
  BY <1>2 DEF Begun, Ever
<1> QED BY <1>2, <1>3, BoardBegins

LEMMA BoardBeginIdea ==
  ASSUME BoardInv, NEW r \in Planners, Board!BeginIdea(r)
  PROVE  BoardInv'
<1> DEFINE idle == Board!Idle
<1>1. idle \in Plans /\ Board!Nothing \in Numbers(Pictures)
  BY PlanFacts, NothingFacts
<1>2. PICK i \in DOMAIN idea, kind \in {"edit", "move", "convert", "delete"},
           c \in DOMAIN column \cup {Nil}, l \in Numbers(Pictures) :
        Board!Begin(r, [idle EXCEPT !.kind = kind, !.at = "go", !.idea = i, !.list = l,
                          !.copy = IF c = Nil THEN idea[i] ELSE [idea[i] EXCEPT !.group = c],
                          !.media = attached[i]])
  <2>1. PICK i \in DOMAIN idea, kind \in {"edit", "move", "convert", "delete"} :
          \E c \in IF kind \in {"edit", "move"} THEN DOMAIN column \cup {Nil} ELSE {Nil},
             l \in IF kind = "edit" THEN Board!Lists ELSE {Board!Nothing} :
            Board!Begin(r, [idle EXCEPT !.kind = kind, !.at = "go", !.idea = i, !.list = l,
                              !.copy = IF c = Nil THEN idea[i] ELSE [idea[i] EXCEPT !.group = c],
                              !.media = attached[i]])
    BY DEF Board!BeginIdea
  <2>2. PICK c \in IF kind \in {"edit", "move"} THEN DOMAIN column \cup {Nil} ELSE {Nil},
             l \in IF kind = "edit" THEN Board!Lists ELSE {Board!Nothing} :
            Board!Begin(r, [idle EXCEPT !.kind = kind, !.at = "go", !.idea = i, !.list = l,
                              !.copy = IF c = Nil THEN idea[i] ELSE [idea[i] EXCEPT !.group = c],
                              !.media = attached[i]])
    BY <2>1
  <2>3. c \in DOMAIN column \cup {Nil}
    OBVIOUS
  <2>4. l \in Numbers(Pictures)
    BY <1>1, ListFacts
  <2> QED BY <2>2, <2>3, <2>4
<1> DEFINE copy == IF c = Nil THEN idea[i] ELSE [idea[i] EXCEPT !.group = c]
           q == [idle EXCEPT !.kind = kind, !.at = "go", !.idea = i, !.list = l, !.copy = copy,
                             !.media = attached[i]]
<1>3. Board!Begin(r, q)
  BY <1>2
<1>4. copy \in Board!Rows /\ copy.cover = idea[i].cover /\ i \in Themes
  <2>1. idea[i] \in Board!Rows /\ i \in Themes
    BY IdeaFacts DEF BoardInv, BoardTyped
  <2>2. c \in Columns \cup {Nil}
    BY NumberFacts DEF BoardInv, BoardTyped
  <2> QED BY <2>1, <2>2 DEF Board!Rows
<1>5. attached[i] \in Numbers(Pictures) /\ Good(i)
  BY <1>4 DEF BoardInv, BoardTyped
<1> HIDE DEF copy, idle
<1>6. /\ q \in Plans /\ q.kind = kind /\ q.at = "go" /\ q.idea = i /\ q.list = l /\ q.copy = copy
      /\ q.media = attached[i]
  <2>1. kind \in Board!Kinds
    BY DEF Board!Kinds
  <2> QED BY <1>1, <1>2, <1>4, <1>5, <2>1 DEF Plans
<1> HIDE DEF q
<1>7. Begun(q)
  <2>1. ASSUME i \notin torn
        PROVE  /\ \E list \in sent[i] : q.media = Board!Valid(list)
               /\ q.media = Board!Nothing => q.copy.cover = Nil
    <3>1. Board!CoverOf(Board!Nothing) = Nil
      BY <1>1, CoverFacts
    <3> QED BY <1>4, <1>5, <1>6, <2>1, <3>1 DEF Good
  <2>2. i \in Themes /\ i \in Ever /\ q.list \in Numbers(Pictures)
    BY <1>2, <1>4, <1>6 DEF Ever
  <2> QED BY <1>6, <2>1, <2>2 DEF Begun
<1>8. q.idea \in Ever /\ q.kind # "create" /\ q.at = "go"
  BY <1>6 DEF Ever
<1> QED BY <1>3, <1>6, <1>7, <1>8, BoardBegins

LEMMA BoardBeginBoard ==
  ASSUME BoardInv, NEW r \in Planners, Board!BeginBoard(r)
  PROVE  BoardInv'
<1> DEFINE idle == Board!Idle
<1>1. /\ idle \in Plans /\ idle.idea = Nil /\ idle.list = Board!Nothing
      /\ Board!Nothing \in Numbers(Pictures) /\ column \in Numbers(Columns)
      /\ {"board", "addColumn", "deleteColumn", "reorder"} \subseteq Board!Kinds
  BY PlanFacts, NothingFacts DEF Board!Idle, Board!Kinds, BoardInv, BoardTyped
<1>2. \/ Board!Begin(r, [idle EXCEPT !.kind = "board", !.at = IF column = Board!Nothing THEN "go" ELSE "end"])
      \/ Board!Begin(r, [idle EXCEPT !.kind = "addColumn", !.at = "go", !.seen = column])
      \/ \E c \in DOMAIN column :
           Board!Begin(r, [idle EXCEPT !.kind = "deleteColumn", !.column = c,
                       !.at = IF \E i \in DOMAIN idea : idea[i].group = c THEN "end" ELSE "go"])
      \/ \E s \in Board!Orders(DOMAIN column) \ {Board!Nothing} :
           Board!Begin(r, [idle EXCEPT !.kind = "reorder", !.at = "go", !.seen = column, !.list = s])
  BY DEF Board!BeginBoard
<1>3. DOMAIN column \subseteq Columns /\ IsFiniteSet(DOMAIN column)
  BY <1>1, NumberFacts, BoardFinite
<1> HIDE DEF idle
<1>4. PICK q \in Plans : Board!Begin(r, q) /\ Begun(q) /\ q.idea = Nil /\ q.kind # "edit" /\ q.kind # "create"
  <2>1. ASSUME NEW at \in {"go", "end"}, Board!Begin(r, [idle EXCEPT !.kind = "board", !.at = at])
        PROVE  \E q \in Plans : Board!Begin(r, q) /\ Begun(q) /\ q.idea = Nil /\ q.kind # "edit" /\ q.kind # "create"
    <3> DEFINE q == [idle EXCEPT !.kind = "board", !.at = at]
    <3>1. q \in Plans /\ q.kind = "board" /\ q.idea = Nil /\ q.list = Board!Nothing
      BY <1>1 DEF Plans
    <3>2. Begun(q)
      BY <1>1, <3>1 DEF Begun
    <3> QED BY <2>1, <3>1, <3>2
  <2>2. ASSUME Board!Begin(r, [idle EXCEPT !.kind = "addColumn", !.at = "go", !.seen = column])
        PROVE  \E q \in Plans : Board!Begin(r, q) /\ Begun(q) /\ q.idea = Nil /\ q.kind # "edit" /\ q.kind # "create"
    <3> DEFINE q == [idle EXCEPT !.kind = "addColumn", !.at = "go", !.seen = column]
    <3>1. q \in Plans /\ q.kind = "addColumn" /\ q.idea = Nil /\ q.list = Board!Nothing
      BY <1>1 DEF Plans
    <3>2. Begun(q)
      BY <1>1, <3>1 DEF Begun
    <3> QED BY <2>2, <3>1, <3>2
  <2>3. ASSUME NEW c \in DOMAIN column, NEW at \in {"go", "end"},
               Board!Begin(r, [idle EXCEPT !.kind = "deleteColumn", !.column = c, !.at = at])
        PROVE  \E q \in Plans : Board!Begin(r, q) /\ Begun(q) /\ q.idea = Nil /\ q.kind # "edit" /\ q.kind # "create"
    <3> DEFINE q == [idle EXCEPT !.kind = "deleteColumn", !.column = c, !.at = at]
    <3>1. q \in Plans /\ q.kind = "deleteColumn" /\ q.idea = Nil /\ q.list = Board!Nothing /\ q.column = c
      BY <1>1, <1>3 DEF Plans
    <3>2. Begun(q)
      BY <1>1, <1>3, <3>1 DEF Begun
    <3> QED BY <2>3, <3>1, <3>2
  <2>4. ASSUME NEW s \in Board!Orders(DOMAIN column),
               Board!Begin(r, [idle EXCEPT !.kind = "reorder", !.at = "go", !.seen = column, !.list = s])
        PROVE  \E q \in Plans : Board!Begin(r, q) /\ Begun(q) /\ q.idea = Nil /\ q.kind # "edit" /\ q.kind # "create"
    <3> DEFINE q == [idle EXCEPT !.kind = "reorder", !.at = "go", !.seen = column, !.list = s]
    <3>1. s \in Numbers(DOMAIN column) /\ DOMAIN s \subseteq DOMAIN column /\ Apart(s)
      BY <1>3, OrderFacts
    <3>2. s \in Numbers(Columns)
      <4>1. s \in [DOMAIN s -> Nat]
        BY <3>1, NumberFacts
      <4> QED BY <1>3, <3>1, <4>1, NumberMade
    <3>3. q \in Plans /\ q.kind = "reorder" /\ q.idea = Nil /\ q.list = s /\ q.seen = column
      BY <1>1, <3>2 DEF Plans
    <3>4. Begun(q)
      BY <3>1, <3>2, <3>3 DEF Begun, Apart
    <3> QED BY <2>4, <3>3, <3>4
  <2> QED BY <1>2, <2>1, <2>2, <2>3, <2>4
<1> QED BY <1>4, BoardBegins

LEMMA PutIdea ==
  ASSUME NEW f \in IdeaRows, NEW i \in Themes, NEW row \in Board!Rows
  PROVE  Board!Put(f, i, row) \in IdeaRows
<1>1. DOMAIN f \subseteq Themes /\ \A j \in DOMAIN f : f[j] \in Board!Rows
  BY IdeaFacts
<1>2. DOMAIN f \cup {i} \in SUBSET Themes
  BY <1>1
<1>3. Board!Put(f, i, row) \in [DOMAIN f \cup {i} -> Board!Rows]
  BY <1>1 DEF Board!Put
<1> QED BY <1>2, <1>3, IdeaMade

LEMMA ValidFacts ==
  ASSUME NEW S, NEW list \in Numbers(S)
  PROVE  /\ Board!Valid(list) \in Numbers(S) /\ DOMAIN Board!Valid(list) = DOMAIN list \cap store
         /\ \A a \in DOMAIN list \cap store : Board!Valid(list)[a] = list[a]
<1> DEFINE T == DOMAIN list \cap store
<1>1. T \subseteq DOMAIN list
  OBVIOUS
<1> HIDE DEF T
<1>2. /\ Board!Restrict(list, T) \in Numbers(S) /\ DOMAIN Board!Restrict(list, T) = T
      /\ \A x \in T : Board!Restrict(list, T)[x] = list[x]
  BY <1>1, RestrictedFacts
<1> QED BY <1>2 DEF Board!Valid, T

LEMMA SyncNothing ==
  ASSUME NEW list \in Numbers(Pictures)
  PROVE  Board!Sync(Board!Nothing, Board!Nothing, list) = list
<1> DEFINE m == Board!Sync(Board!Nothing, Board!Nothing, list)
<1>1. DOMAIN m = DOMAIN list /\ \A a \in DOMAIN list : m[a] = list[a]
  BY NothingFacts DEF Board!Sync
<1>2. m = [a \in DOMAIN list |-> list[a]]
  BY NothingFacts DEF Board!Sync
<1>3. list \in [DOMAIN list -> Nat]
  BY NumberFacts
<1> QED BY <1>2, <1>3

\* The row of an idea has been written; the histories with it.
LEMMA WritesFacts ==
  ASSUME BoardTyped, NEW i \in Themes, NEW list \in Numbers(Pictures), Board!Writes(i, list)
  PROVE  /\ wrote' \in [Themes -> Numbers(Pictures)] /\ sent' \in [Themes -> SUBSET Numbers(Pictures)]
         /\ wrote'[i] = list /\ list \in sent'[i]
         /\ \A j \in Themes : sent[j] \subseteq sent'[j] /\ (j # i => wrote'[j] = wrote[j])
<1>1. wrote' = [wrote EXCEPT ![i] = list] /\ sent' = [sent EXCEPT ![i] = sent[i] \cup {list}]
  BY DEF Board!Writes
<1>2. wrote \in [Themes -> Numbers(Pictures)] /\ sent \in [Themes -> SUBSET Numbers(Pictures)]
  BY DEF BoardTyped
<1> QED BY <1>1, <1>2

LEMMA BoardCreate ==
  ASSUME BoardInv, NEW r \in Planners, Board!Create(r)
  PROVE  BoardInv'
<1> DEFINE i == planning[r].idea
           l == planning[r].list
           m == Board!Valid(l)
           row == [planning[r].copy EXCEPT !.cover = Board!CoverOf(m)]
<1>1. planning[r].kind = "create"
  BY DEF Board!Create, Board!Does
<1>2. /\ i \in Themes /\ i \notin Ever /\ l \in Numbers(Pictures) /\ planning[r].copy.post = Nil
      /\ planning[r].copy \in Board!Rows
  BY <1>1, PlanTypes DEF BoardInv, Begun
<1>3. SUFFICES ASSUME ~Board!Refused(r) PROVE BoardInv'
  BY BoardRefuses
<1>4. /\ idea' = Board!Put(idea, i, row)
      /\ attached' = [attached EXCEPT ![i] = Board!Sync(Board!Nothing, Board!Nothing, m)]
      /\ Board!Writes(i, l)
      /\ Board!Ends(r)
      /\ store' = store /\ converted' = converted /\ lock' = lock /\ deleted' = deleted
      /\ linked' = linked /\ torn' = torn /\ column' = column /\ crowded' = crowded
  BY <1>3 DEF Board!Create, Board!Subject, Board!Copy, Board!board
<1>5. m \in Numbers(Pictures) /\ DOMAIN m \subseteq store
  BY <1>2, ValidFacts
<1>6. row \in Board!Rows /\ row.cover = Board!CoverOf(m) /\ row.post = Nil
  <2>1. Board!CoverOf(m) \in Pictures \cup {Nil}
    BY <1>5, CoverFacts, NumberFacts
  <2> QED BY <1>2, <2>1 DEF Board!Rows
<1> HIDE DEF row
<1>7. attached' = [attached EXCEPT ![i] = m]
  BY <1>4, <1>5, SyncNothing
<1>8. /\ wrote' \in [Themes -> Numbers(Pictures)] /\ sent' \in [Themes -> SUBSET Numbers(Pictures)]
      /\ wrote'[i] = l /\ l \in sent'[i]
      /\ \A j \in Themes : sent[j] \subseteq sent'[j] /\ (j # i => wrote'[j] = wrote[j])
  BY <1>2, <1>4, WritesFacts DEF BoardInv
<1>9. /\ idea' \in IdeaRows /\ DOMAIN idea' = DOMAIN idea \cup {i} /\ idea'[i] = row
      /\ \A j \in DOMAIN idea \ {i} : idea'[j] = idea[j]
  <2>1. idea \in IdeaRows
    BY DEF BoardInv, BoardTyped
  <2>2. Board!Put(idea, i, row) \in IdeaRows
    BY <1>2, <1>6, <2>1, PutIdea
  <2>3. /\ DOMAIN Board!Put(idea, i, row) = DOMAIN idea \cup {i} /\ Board!Put(idea, i, row)[i] = row
        /\ \A j \in DOMAIN idea \ {i} : Board!Put(idea, i, row)[j] = idea[j]
    BY DEF Board!Put
  <2> QED BY <1>4, <2>2, <2>3
<1>10. /\ attached \in [Themes -> Numbers(Pictures)] /\ attached' \in [Themes -> Numbers(Pictures)]
       /\ attached'[i] = m /\ \A j \in Themes \ {i} : attached'[j] = attached[j]
  BY <1>2, <1>5, <1>7 DEF BoardInv, BoardTyped
<1> HIDE DEF m, l
<1>11. Grown
  BY <1>4, <1>8, <1>9 DEF Grown, Ever
<1>12. \A j \in Themes \cap (Ever' \ Ever) : j = i
  BY <1>4, <1>9 DEF Ever
<1>13. \A j \in DOMAIN idea : Untouched(j)
  <2> TAKE j \in DOMAIN idea
  <2>1. j # i /\ j \in Themes
    BY <1>2, IdeaFacts DEF Ever, BoardInv, BoardTyped
  <2>2. DOMAIN attached[j] \subseteq store
    BY <2>1 DEF BoardInv, Good
  <2> QED BY <1>4, <1>9, <1>10, <2>1, <2>2 DEF Untouched
<1>14. /\ planning' \in [Planners -> Plans]
       /\ \A s \in Planners : Begun(planning[s])' /\ Editing(s)' /\ Sole(s)'
  BY <1>4, <1>11, <1>12, <1>13, EndStays
<1>15. BoardTyped'
  BY <1>4, <1>8, <1>9, <1>10, <1>14 DEF BoardInv, BoardTyped
<1>16. \A j \in Themes : Good(j)'
  <2> TAKE j \in Themes
  <2>1. Good(j)
    BY DEF BoardInv
  <2>2. CASE j # i
    BY <1>4, <1>8, <1>9, <1>10, <2>1, <2>2, GoodStays, IdeaFacts DEF Good
  <2>3. CASE j = i
    <3>1. linked[i] = Nil /\ i \notin deleted
      BY <1>2, <2>1, <2>3 DEF Good, Ever
    <3>2. m = Board!Valid(l)
      BY DEF m
    <3>3. Board!Valid(wrote[j])' = m /\ Board!CoverOf(attached[j])' = Board!CoverOf(m)
      <4>1. wrote'[j] = l /\ attached'[j] = m
        BY <1>8, <1>10, <2>3
      <4>2. Board!Valid(wrote[j])' = m
        BY <1>4, <3>2, <4>1 DEF Board!Valid
      <4>3. Board!CoverOf(attached[j])' = Board!CoverOf(m)
        BY <4>1 DEF Board!CoverOf
      <4> QED BY <4>2, <4>3
    <3> QED BY <1>4, <1>5, <1>6, <1>8, <1>9, <1>10, <2>3, <3>1, <3>3 DEF Good, Ever
  <2> QED BY <2>2, <2>3
<1>17. \A p \in DOMAIN converted' : Drafted(p)'
  <2> TAKE p \in DOMAIN converted'
  <2>1. Drafted(p) /\ converted[p].idea \in Themes
    BY <1>4 DEF BoardInv, BoardTyped, Converted
  <2> QED BY <1>4, <1>8, <2>1, DraftedStays
<1>18. (crowded \/ Apart(column))'
  BY <1>4 DEF BoardInv, Apart
<1> QED BY <1>14, <1>15, <1>16, <1>17, <1>18 DEF BoardInv

\* Of the rows only locks change.
OnlyLocks ==
  /\ idea' = idea /\ attached' = attached /\ store' = store /\ converted' = converted
  /\ deleted' = deleted /\ wrote' = wrote /\ sent' = sent /\ linked' = linked /\ torn' = torn
  /\ column' = column /\ crowded' = crowded

LEMMA BoardLocks ==
  ASSUME BoardInv, OnlyLocks, lock' \in [Themes -> Planners \cup {Nil}],
         planning' \in [Planners -> Plans],
         \A s \in Planners : Begun(planning[s])' /\ Editing(s)' /\ Sole(s)'
  PROVE  BoardInv'
<1>1. BoardTyped'
  BY DEF OnlyLocks, BoardInv, BoardTyped
<1>2. \A i \in Themes : Good(i)'
  <2> TAKE i \in Themes
  <2>1. Good(i)
    BY DEF BoardInv
  <2>2. Ever' = Ever
    BY DEF OnlyLocks, Ever
  <2>3. Board!Valid(wrote[i])' = Board!Valid(wrote[i])
    BY DEF OnlyLocks, Board!Valid
  <2>4. Board!CoverOf(attached[i])' = Board!CoverOf(attached[i])
    BY DEF OnlyLocks, Board!CoverOf
  <2> QED BY <2>1, <2>2, <2>3, <2>4 DEF OnlyLocks, Good
<1>3. \A p \in DOMAIN converted' : Drafted(p)'
  BY DEF OnlyLocks, BoardInv, Drafted, Board!Valid
<1>4. (crowded \/ Apart(column))'
  BY DEF OnlyLocks, BoardInv, Apart
<1> QED BY <1>1, <1>2, <1>3, <1>4 DEF BoardInv

LEMMA OnlyLocksFacts ==
  ASSUME BoardInv, OnlyLocks, NEW i \in Themes, \A j \in Themes \ {i} : lock'[j] = lock[j]
  PROVE  Grown /\ Ever' = Ever /\ \A j \in DOMAIN idea \ {i} : Untouched(j)
<1>1. Ever' = Ever
  BY DEF OnlyLocks, Ever
<1>2. ASSUME NEW j \in DOMAIN idea \ {i} PROVE Untouched(j)
  <2>1. j \in Themes
    BY IdeaFacts DEF BoardInv, BoardTyped
  <2>2. DOMAIN attached[j] \subseteq store
    BY <2>1 DEF BoardInv, Good
  <2> QED BY <2>1, <2>2 DEF OnlyLocks, Untouched
<1> QED BY <1>1, <1>2 DEF OnlyLocks, Grown, Ever

\* What an edit does next is its own.
LEMMA BoardEdits ==
  ASSUME BoardInv, OnlyLocks, NEW r \in Planners, NEW q \in Plans,
         planning' = [planning EXCEPT ![r] = q],
         lock' \in [Themes -> Planners \cup {Nil}],
         \A j \in Themes \ {planning[r].idea} : lock'[j] = lock[j],
         planning[r].kind = "edit", lock[planning[r].idea] \in {Nil, r},
         q.kind = "edit", q.idea = planning[r].idea, q.list \in Numbers(Pictures),
         lock'[q.idea] = r, q.idea \in DOMAIN idea,
         q.at = "read" =>
           DOMAIN attached[q.idea] = DOMAIN q.media \cap store /\ DOMAIN q.media \subseteq store
  PROVE  BoardInv'
<1>1. /\ planning' \in [Planners -> Plans] /\ planning'[r] = q
      /\ \A s \in Planners \ {r} : planning'[s] = planning[s]
  BY PlanSet DEF BoardInv, BoardTyped
<1>2. PICK i \in Themes : i = planning[r].idea
  BY DEF BoardInv, Begun
<1>3. Grown /\ Ever' = Ever /\ \A j \in DOMAIN idea \ {i} : Untouched(j)
  BY <1>2, OnlyLocksFacts
<1>4. \A j \in DOMAIN idea : lock[j] \notin {Nil, r} => Untouched(j)
  BY <1>2, <1>3
<1>5. \A s \in Planners \ {r} : Begun(planning[s])' /\ Editing(s)' /\ Sole(s)'
  BY <1>1, <1>3, <1>4, OthersStay
<1>6. Begun(planning[r])'
  BY <1>1, <1>2, <1>3 DEF Begun, Ever, OnlyLocks
<1>7. Editing(r)'
  BY <1>1 DEF Editing, OnlyLocks
<1>8. Sole(r)'
  BY <1>1 DEF Sole
<1> QED BY <1>1, <1>5, <1>6, <1>7, <1>8, BoardLocks

LEMMA BoardEditSave ==
  ASSUME BoardInv, NEW r \in Planners, Board!EditSave(r)
  PROVE  BoardInv'
<1>1. planning[r].kind = "edit" /\ lock[planning[r].idea] = Nil
  BY DEF Board!EditSave, Board!Does, Board!Free, Board!Subject
<1>2. SUFFICES ASSUME ~Board!Refused(r) PROVE BoardInv'
  BY BoardRefuses
<1> DEFINE q == [planning[r] EXCEPT !.at = "saved"]
<1>3. /\ planning[r].idea \in DOMAIN idea /\ lock' = [lock EXCEPT ![planning[r].idea] = r]
      /\ planning' = [planning EXCEPT ![r] = q] /\ OnlyLocks
  BY <1>2 DEF Board!EditSave, Board!Subject, Board!To, Board!board, OnlyLocks
<1>4. planning[r].idea \in Themes /\ planning[r].list \in Numbers(Pictures) /\ planning[r] \in Plans
  BY <1>1, PlanTypes DEF BoardInv, Begun
<1>5. /\ q \in Plans /\ q.kind = "edit" /\ q.at = "saved" /\ q.idea = planning[r].idea
      /\ q.list = planning[r].list
  BY <1>1, <1>4 DEF Plans
<1>6. /\ lock' \in [Themes -> Planners \cup {Nil}] /\ lock'[planning[r].idea] = r
      /\ \A j \in Themes \ {planning[r].idea} : lock'[j] = lock[j]
  BY <1>3, <1>4 DEF BoardInv, BoardTyped
<1> HIDE DEF q
<1> QED BY <1>1, <1>3, <1>4, <1>5, <1>6, BoardEdits

LEMMA BoardEditRead ==
  ASSUME BoardInv, NEW r \in Planners, Board!EditRead(r)
  PROVE  BoardInv'
<1> DEFINE i == planning[r].idea
           l == Board!Valid(planning[r].list)
           q == [planning[r] EXCEPT !.at = "read", !.media = attached[i], !.list = l]
<1>1. /\ planning[r].kind = "edit" /\ planning[r].at = "saved" /\ Steady
      /\ planning' = [planning EXCEPT ![r].at = "read", ![r].media = attached[i], ![r].list = l]
  BY DEF Board!EditRead, Board!Does, Board!Subject, Steady
<1>2. lock[i] = r /\ i \in DOMAIN idea
  BY <1>1 DEF BoardInv, Editing
<1>3. i \in Themes /\ planning[r].list \in Numbers(Pictures) /\ planning[r] \in Plans
  BY <1>1, PlanTypes DEF BoardInv, Begun
<1>4. l \in Numbers(Pictures)
  BY <1>3, ValidFacts
<1>5. attached[i] \in Numbers(Pictures) /\ DOMAIN attached[i] \subseteq store
  BY <1>3 DEF BoardInv, BoardTyped, Good
<1> HIDE DEF l
<1>6. planning' = [planning EXCEPT ![r] = q]
  BY <1>1 DEF BoardInv, BoardTyped
<1>7. /\ q \in Plans /\ q.kind = "edit" /\ q.at = "read" /\ q.idea = i /\ q.list = l
      /\ q.media = attached[i]
  BY <1>1, <1>3, <1>4, <1>5 DEF Plans
<1>8. OnlyLocks /\ lock' = lock
  BY <1>1 DEF OnlyLocks, Steady, Board!rows, Board!board
<1>9. lock \in [Themes -> Planners \cup {Nil}]
  BY DEF BoardInv, BoardTyped
<1> HIDE DEF q, i
<1>10. /\ q.at = "read" => DOMAIN attached[q.idea] = DOMAIN q.media \cap store /\ DOMAIN q.media \subseteq store
       /\ lock'[q.idea] = r /\ q.idea \in DOMAIN idea /\ q.list \in Numbers(Pictures)
  BY <1>2, <1>4, <1>5, <1>7, <1>8
<1>11. /\ planning[r].idea = i /\ lock[planning[r].idea] \in {Nil, r}
       /\ \A j \in Themes \ {planning[r].idea} : lock'[j] = lock[j]
       /\ lock' \in [Themes -> Planners \cup {Nil}]
  BY <1>2, <1>8, <1>9 DEF i
<1>12. q.idea = planning[r].idea /\ q.kind = "edit" /\ q \in Plans
  BY <1>7, <1>11
<1>13. planning[r].kind = "edit" /\ OnlyLocks
  BY <1>1, <1>8
<1> QED BY <1>6, <1>10, <1>11, <1>12, <1>13, BoardEdits

\* An edit's list becomes the media, but for what is gone.
LEMMA SyncFacts ==
  ASSUME NEW have \in Numbers(Pictures), NEW old \in Numbers(Pictures),
         NEW list \in Numbers(Pictures), DOMAIN have = DOMAIN old \cap store
  PROVE  LET m == Board!Sync(have, old, list)
             new == DOMAIN list \ DOMAIN old
         IN  [a \in DOMAIN m \cap (store \cap (new \cup DOMAIN have)) |-> m[a]] = Board!Valid(list)
<1> DEFINE m == Board!Sync(have, old, list)
           new == DOMAIN list \ DOMAIN old
<1>1. DOMAIN m = DOMAIN list /\ \A a \in DOMAIN list : m[a] = list[a]
  BY DEF Board!Sync
<1>2. DOMAIN m \cap (store \cap (new \cup DOMAIN have)) = DOMAIN list \cap store
  BY <1>1
<1>3. Board!Valid(list) = [a \in DOMAIN list \cap store |-> list[a]]
  BY DEF Board!Valid, Board!Restrict
<1> HIDE DEF m
<1>4. [a \in DOMAIN list \cap store |-> m[a]] = [a \in DOMAIN list \cap store |-> list[a]]
  BY <1>1
<1> QED BY <1>2, <1>3, <1>4 DEF m

LEMMA BoardEditCommit ==
  ASSUME BoardInv, NEW r \in Planners, Board!EditCommit(r)
  PROVE  BoardInv'
<1> DEFINE p == planning[r]
<1>1. p.kind = "edit" /\ p.at = "read"
  BY DEF Board!EditCommit, Board!Does
<1>2. PICK i \in Themes, l \in Numbers(Pictures), c \in Pictures \cup {Nil}, g \in Columns \cup {Nil}, old \in Numbers(Pictures) :
        i = p.idea /\ l = p.list /\ c = p.copy.cover /\ g = p.copy.group /\ old = p.media
  <2>1. p.idea \in Themes /\ p.list \in Numbers(Pictures)
    BY <1>1 DEF BoardInv, Begun
  <2>2. p.copy.cover \in Pictures \cup {Nil} /\ p.copy.group \in Columns \cup {Nil} /\ p.media \in Numbers(Pictures)
    BY PlanTypes DEF BoardInv, Board!Rows
  <2> QED BY <2>1, <2>2
<1>3. /\ lock[i] = r /\ i \in DOMAIN idea /\ DOMAIN attached[i] = DOMAIN old \cap store
      /\ i \notin torn => DOMAIN old \subseteq store
  BY <1>1, <1>2 DEF BoardInv, Editing
<1> DEFINE new == DOMAIN l \ DOMAIN old
           row == [idea[i] EXCEPT !.group = g,
                     !.cover = IF c = Board!CoverOf(l) THEN idea[i].cover ELSE Board!CoverOf(l)]
<1>4. /\ lock' = [lock EXCEPT ![i] = Nil] /\ Board!Ends(r)
      /\ store' = store /\ converted' = converted /\ deleted' = deleted /\ linked' = linked
      /\ column' = column /\ crowded' = crowded
  BY <1>2 DEF Board!EditCommit, Board!Subject, Board!board
<1>5. \/ /\ new \subseteq store
         /\ idea' = [idea EXCEPT ![i].group = g,
                       ![i].cover = IF c = Board!CoverOf(l) THEN idea[i].cover ELSE Board!CoverOf(l)]
         /\ attached' = [attached EXCEPT ![i] =
              LET m == Board!Sync(attached[i], old, l)
              IN [a \in DOMAIN m \cap (store \cap (new \cup DOMAIN attached[i])) |-> m[a]]]
         /\ Board!Writes(i, l)
         /\ torn' = IF c = idea[i].cover THEN torn ELSE torn \cup {i}
      \/ /\ idea' = idea /\ attached' = attached /\ wrote' = wrote /\ sent' = sent /\ torn' = torn
  BY <1>2 DEF Board!EditCommit, Board!Subject, Board!Copy
<1>6. /\ lock' \in [Themes -> Planners \cup {Nil}]
      /\ \A j \in Themes \ {i} : lock'[j] = lock[j]
  BY <1>4 DEF BoardInv, BoardTyped
<1>7. CASE idea' = idea /\ attached' = attached /\ wrote' = wrote /\ sent' = sent /\ torn' = torn
  <2>1. OnlyLocks
    BY <1>4, <1>7 DEF OnlyLocks
  <2>2. Grown /\ Ever' = Ever /\ \A j \in DOMAIN idea \ {i} : Untouched(j)
    BY <1>6, <2>1, OnlyLocksFacts
  <2>3. \A j \in DOMAIN idea : lock[j] \notin {Nil, r} => Untouched(j)
    BY <1>3, <2>2
  <2>4. \A j \in Themes \cap (Ever' \ Ever) : j = p.idea
    BY <2>2
  <2>5. /\ planning' \in [Planners -> Plans]
        /\ \A s \in Planners : Begun(planning[s])' /\ Editing(s)' /\ Sole(s)'
    BY <1>4, <2>2, <2>3, <2>4, EndStays
  <2> QED BY <1>6, <2>1, <2>5, BoardLocks
<1>8. CASE /\ new \subseteq store
           /\ idea' = [idea EXCEPT ![i].group = g,
                         ![i].cover = IF c = Board!CoverOf(l) THEN idea[i].cover ELSE Board!CoverOf(l)]
           /\ attached' = [attached EXCEPT ![i] =
                LET m == Board!Sync(attached[i], old, l)
                IN [a \in DOMAIN m \cap (store \cap (new \cup DOMAIN attached[i])) |-> m[a]]]
           /\ Board!Writes(i, l)
           /\ torn' = IF c = idea[i].cover THEN torn ELSE torn \cup {i}
  <2>1. attached \in [Themes -> Numbers(Pictures)] /\ attached[i] \in Numbers(Pictures) /\ torn \subseteq Themes
    BY DEF BoardInv, BoardTyped
  <2>2. LET m == Board!Sync(attached[i], old, l)
        IN [a \in DOMAIN m \cap (store \cap (new \cup DOMAIN attached[i])) |-> m[a]] = Board!Valid(l)
    BY <1>3, <2>1, SyncFacts
  <2>3. attached' = [attached EXCEPT ![i] = Board!Valid(l)]
    BY <1>8, <2>2
  <2>4. Board!Valid(l) \in Numbers(Pictures) /\ DOMAIN Board!Valid(l) = DOMAIN l \cap store
    BY ValidFacts
  <2>5. /\ attached' \in [Themes -> Numbers(Pictures)] /\ attached'[i] = Board!Valid(l)
        /\ \A j \in Themes \ {i} : attached'[j] = attached[j]
    BY <2>1, <2>3, <2>4
  <2>6. /\ wrote' \in [Themes -> Numbers(Pictures)] /\ sent' \in [Themes -> SUBSET Numbers(Pictures)]
        /\ wrote'[i] = l /\ l \in sent'[i]
        /\ \A j \in Themes : sent[j] \subseteq sent'[j] /\ (j # i => wrote'[j] = wrote[j])
    BY <1>8, WritesFacts DEF BoardInv
  <2>7. idea \in IdeaRows /\ DOMAIN idea \subseteq Themes /\ idea[i] \in Board!Rows /\ idea \in [DOMAIN idea -> Board!Rows]
    BY <1>3, IdeaFacts DEF BoardInv, BoardTyped
  <2>8. Board!CoverOf(l) \in Pictures \cup {Nil}
    BY CoverFacts, NumberFacts
  <2>9. /\ row \in Board!Rows /\ row.post = idea[i].post
        /\ row.cover = IF c = Board!CoverOf(l) THEN idea[i].cover ELSE Board!CoverOf(l)
    BY <2>7, <2>8 DEF Board!Rows
  <2>10. idea' = [idea EXCEPT ![i] = row]
    BY <1>3, <1>8, <2>7
  <2> HIDE DEF row
  <2>11. /\ idea' \in IdeaRows /\ DOMAIN idea' = DOMAIN idea /\ idea'[i] = row
         /\ \A j \in DOMAIN idea \ {i} : idea'[j] = idea[j]
    BY <1>3, <2>7, <2>9, <2>10, IdeaMade
  <2>12. torn \subseteq torn' /\ torn' \subseteq Themes
    BY <1>8, <2>1
  <2>13. Grown /\ \A j \in Themes \cap (Ever' \ Ever) : j = p.idea
    BY <1>4, <2>6, <2>11, <2>12 DEF Grown, Ever
  <2>14. \A j \in DOMAIN idea : lock[j] \notin {Nil, r} => Untouched(j)
    <3> SUFFICES ASSUME NEW j \in DOMAIN idea, lock[j] \notin {Nil, r} PROVE Untouched(j)
      OBVIOUS
    <3>1. j # i /\ j \in Themes
      BY <1>3, <2>7
    <3>2. DOMAIN attached[j] \subseteq store
      BY <3>1 DEF BoardInv, Good
    <3> QED BY <1>4, <1>6, <2>5, <2>11, <3>1, <3>2 DEF Untouched
  <2>15. /\ planning' \in [Planners -> Plans]
         /\ \A s \in Planners : Begun(planning[s])' /\ Editing(s)' /\ Sole(s)'
    BY <1>4, <2>13, <2>14, EndStays
  <2>16. BoardTyped'
    BY <1>4, <1>6, <2>5, <2>6, <2>11, <2>12, <2>15 DEF BoardInv, BoardTyped
  <2>17. \A j \in Themes : Good(j)'
    <3> TAKE j \in Themes
    <3>1. Good(j)
      BY DEF BoardInv
    <3>2. CASE j # i
      BY <1>4, <2>5, <2>6, <2>7, <2>11, <2>12, <3>1, <3>2, GoodStays DEF Good
    <3>3. CASE j = i
      <4>1. wrote'[j] = l /\ attached'[j] = Board!Valid(l)
        BY <2>5, <2>6, <3>3
      <4>2. Board!Valid(wrote[j])' = Board!Valid(l)
        BY <1>4, <4>1 DEF Board!Valid
      <4>3. ASSUME j \notin torn'
            PROVE  /\ j \notin deleted /\ row.post = linked[j]
                   /\ row.cover = Board!CoverOf(attached[j])'
        <5>1. j \notin torn /\ c = idea[i].cover
          BY <1>8, <3>3, <4>3
        <5>2. DOMAIN l \subseteq store
          BY <1>3, <1>8, <3>3, <5>1
        <5>3. Board!Valid(l) = l
          <6>1. \A a \in DOMAIN l \cap store : Board!Valid(l)[a] = l[a]
            BY ValidFacts
          <6>2. DOMAIN Board!Valid(l) = DOMAIN l
            BY <2>4, <5>2
          <6> QED BY <2>4, <5>2, <6>1, <6>2, SameNumbers
        <5>4. Board!CoverOf(attached[j])' = Board!CoverOf(l)
          BY <4>1, <5>3 DEF Board!CoverOf
        <5>5. row.cover = Board!CoverOf(l)
          BY <2>9, <5>1
        <5> QED BY <1>3, <2>9, <3>1, <3>3, <5>1, <5>4, <5>5 DEF Good
      <4>4. DOMAIN attached'[j] \subseteq store
        BY <2>4, <4>1
      <4> QED BY <1>3, <1>4, <2>6, <2>11, <3>1, <3>3, <4>1, <4>2, <4>3, <4>4 DEF Good, Ever
    <3> QED BY <3>2, <3>3
  <2>18. \A d \in DOMAIN converted' : Drafted(d)'
    <3> TAKE d \in DOMAIN converted'
    <3>1. Drafted(d) /\ converted[d].idea \in Themes
      BY <1>4 DEF BoardInv, BoardTyped, Converted
    <3> QED BY <1>4, <2>6, <2>12, <3>1, DraftedStays
  <2>19. (crowded \/ Apart(column))'
    BY <1>4 DEF BoardInv, Apart
  <2> QED BY <2>15, <2>16, <2>17, <2>18, <2>19 DEF BoardInv
<1> QED BY <1>5, <1>7, <1>8

LEMMA BoardMove ==
  ASSUME BoardInv, NEW r \in Planners, Board!Move(r)
  PROVE  BoardInv'
<1>1. planning[r].kind = "move" /\ lock[planning[r].idea] = Nil
  BY DEF Board!Move, Board!Does, Board!Free, Board!Subject
<1>2. SUFFICES ASSUME ~Board!Refused(r) PROVE BoardInv'
  BY BoardRefuses
<1>3. PICK i \in Themes, row \in Board!Rows : i = planning[r].idea /\ row = planning[r].copy
  BY <1>1, PlanTypes DEF BoardInv, Begun
<1> DEFINE stale == i \notin DOMAIN idea \/ [row EXCEPT !.group = Nil] # [idea[i] EXCEPT !.group = Nil]
<1>4. /\ idea' = Board!Put(idea, i, row)
      /\ torn' = IF stale THEN torn \cup {i} ELSE torn
      /\ Board!Ends(r)
      /\ attached' = attached /\ store' = store /\ converted' = converted /\ lock' = lock
      /\ deleted' = deleted /\ wrote' = wrote /\ sent' = sent /\ linked' = linked
      /\ column' = column /\ crowded' = crowded
  BY <1>2, <1>3 DEF Board!Move, Board!Subject, Board!Copy, Board!board
<1>5. i \in Ever /\ torn \subseteq Themes /\ idea \in IdeaRows
  BY <1>1, <1>3 DEF BoardInv, BoardTyped, Begun
<1>6. DOMAIN idea \subseteq Themes /\ \A j \in DOMAIN idea : idea[j] \in Board!Rows
  BY <1>5, IdeaFacts
<1>7. idea' \in IdeaRows
  BY <1>4, <1>5, PutIdea
<1>8. /\ DOMAIN idea' = DOMAIN idea \cup {i} /\ idea'[i] = row
      /\ \A j \in DOMAIN idea \ {i} : idea'[j] = idea[j]
  BY <1>4 DEF Board!Put
<1>9. torn \subseteq torn' /\ torn' \subseteq Themes /\ \A j \in Themes \ {i} : j \in torn' <=> j \in torn
  BY <1>4, <1>5
<1>10. i \notin torn' => i \in DOMAIN idea /\ row.cover = idea[i].cover /\ row.post = idea[i].post
  <2> SUFFICES ASSUME i \notin torn' PROVE i \in DOMAIN idea /\ row.cover = idea[i].cover /\ row.post = idea[i].post
    OBVIOUS
  <2>1. i \in DOMAIN idea /\ [row EXCEPT !.group = Nil] = [idea[i] EXCEPT !.group = Nil]
    BY <1>4
  <2>2. idea[i] \in Board!Rows
    BY <1>6, <2>1
  <2>3. \A x \in Board!Rows : [x EXCEPT !.group = Nil].cover = x.cover /\ [x EXCEPT !.group = Nil].post = x.post
    BY DEF Board!Rows
  <2> QED BY <2>1, <2>2, <2>3
<1> HIDE DEF stale
<1>11. Grown /\ Ever' = Ever
  BY <1>4, <1>5, <1>8, <1>9 DEF Grown, Ever
<1>12. \A j \in DOMAIN idea : lock[j] \notin {Nil, r} => Untouched(j)
  <2> SUFFICES ASSUME NEW j \in DOMAIN idea PROVE Untouched(j)
    OBVIOUS
  <2>1. DOMAIN attached[j] \subseteq store
    BY <1>6 DEF BoardInv, Good
  <2> QED BY <1>4, <1>8, <2>1 DEF Untouched
<1>13. \A j \in Themes \cap (Ever' \ Ever) : j = planning[r].idea
  BY <1>11
<1>14. /\ planning' \in [Planners -> Plans]
       /\ \A s \in Planners : Begun(planning[s])' /\ Editing(s)' /\ Sole(s)'
  BY <1>4, <1>11, <1>12, <1>13, EndStays
<1>15. BoardTyped'
  BY <1>4, <1>7, <1>9, <1>14 DEF BoardInv, BoardTyped
<1>16. \A j \in Themes : Good(j)'
  <2> TAKE j \in Themes
  <2>1. Good(j)
    BY DEF BoardInv
  <2>2. CASE j # i
    <3>1. wrote[j] \in sent'[j]
      BY <1>4, <2>1 DEF Good
    <3> QED BY <1>4, <1>8, <1>9, <2>1, <2>2, <3>1, GoodStays
  <2>3. CASE j = i
    <3>1. Board!Valid(wrote[j])' = Board!Valid(wrote[j]) /\ Board!CoverOf(attached[j])' = Board!CoverOf(attached[j])
      BY <1>4 DEF Board!Valid, Board!CoverOf
    <3>2. j \in DOMAIN idea' \ deleted' => j \in DOMAIN idea
      BY <1>4, <1>5, <2>3 DEF Ever
    <3>3. j \notin torn' => j \notin torn
      BY <1>9
    <3>4. j \in Ever'
      BY <1>5, <1>11, <2>3
    <3> QED BY <1>4, <1>8, <1>10, <2>1, <2>3, <3>1, <3>2, <3>3, <3>4 DEF Good
  <2> QED BY <2>2, <2>3
<1>17. \A d \in DOMAIN converted' : Drafted(d)'
  BY <1>4, <1>9, DraftedStays DEF BoardInv
<1>18. (crowded \/ Apart(column))'
  BY <1>4 DEF BoardInv, Apart
<1> QED BY <1>14, <1>15, <1>16, <1>17, <1>18 DEF BoardInv

LEMMA BoardDelete ==
  ASSUME BoardInv, NEW r \in Planners, Board!Delete(r)
  PROVE  BoardInv'
<1>1. planning[r].kind = "delete" /\ lock[planning[r].idea] = Nil
  BY DEF Board!Delete, Board!Does, Board!Free, Board!Subject
<1>2. PICK i \in Themes : i = planning[r].idea
  BY <1>1 DEF BoardInv, Begun
<1>3. /\ Board!Ends(r)
      /\ idea' = [j \in DOMAIN idea \ {i} |-> idea[j]]
      /\ attached' = [attached EXCEPT ![i] = Board!Nothing]
      /\ deleted' = deleted \cup {i}
      /\ store' = store /\ converted' = converted /\ lock' = lock
      /\ wrote' = wrote /\ sent' = sent /\ linked' = linked /\ torn' = torn
      /\ column' = column /\ crowded' = crowded
  BY <1>2 DEF Board!Delete, Board!Subject, Board!board
<1>4. i \in Ever
  BY <1>1, <1>2 DEF BoardInv, Begun
<1>5. DOMAIN idea \subseteq Themes /\ \A j \in DOMAIN idea : idea[j] \in Board!Rows
  BY IdeaFacts DEF BoardInv, BoardTyped
<1>6. idea' \in IdeaRows /\ DOMAIN idea' = DOMAIN idea \ {i} /\ \A j \in DOMAIN idea \ {i} : idea'[j] = idea[j]
  <2>1. idea' \in [DOMAIN idea \ {i} -> Board!Rows] /\ DOMAIN idea \ {i} \in SUBSET Themes
    BY <1>3, <1>5
  <2> QED BY <1>3, <2>1, IdeaMade
<1>7. /\ attached' \in [Themes -> Numbers(Pictures)] /\ DOMAIN attached'[i] = {}
      /\ \A j \in Themes \ {i} : attached'[j] = attached[j]
  BY <1>3, NothingFacts DEF BoardInv, BoardTyped
<1>8. Grown /\ \A j \in Themes \cap (Ever' \ Ever) : j = planning[r].idea
  BY <1>2, <1>3, <1>6 DEF Grown, Ever
<1>9. \A j \in DOMAIN idea : lock[j] \notin {Nil, r} => Untouched(j)
  <2> SUFFICES ASSUME NEW j \in DOMAIN idea, lock[j] \notin {Nil, r} PROVE Untouched(j)
    OBVIOUS
  <2>1. j \in Themes /\ j # i
    BY <1>1, <1>2, <1>5
  <2>2. DOMAIN attached[j] \subseteq store
    BY <2>1 DEF BoardInv, Good
  <2> QED BY <1>3, <1>6, <1>7, <2>1, <2>2 DEF Untouched
<1>10. /\ planning' \in [Planners -> Plans]
       /\ \A s \in Planners : Begun(planning[s])' /\ Editing(s)' /\ Sole(s)'
  BY <1>3, <1>8, <1>9, EndStays
<1>11. BoardTyped'
  BY <1>3, <1>6, <1>7, <1>10 DEF BoardInv, BoardTyped
<1>12. \A j \in Themes : Good(j)'
  <2> TAKE j \in Themes
  <2>1. Good(j)
    BY DEF BoardInv
  <2>2. wrote[j] \in sent'[j]
    BY <1>3, <2>1 DEF Good
  <2>3. CASE j # i
    <3>1. j \in deleted' <=> j \in deleted
      BY <1>3, <2>3
    <3> QED BY <1>3, <1>6, <1>7, <2>1, <2>2, <2>3, <3>1, GoodStays
  <2>4. CASE j = i
    BY <1>3, <1>6, <1>7, <2>2, <2>4 DEF Good, Ever
  <2> QED BY <2>3, <2>4
<1>13. \A d \in DOMAIN converted' : Drafted(d)'
  BY <1>3, DraftedStays DEF BoardInv
<1>14. (crowded \/ Apart(column))'
  BY <1>3 DEF BoardInv, Apart
<1> QED BY <1>10, <1>11, <1>12, <1>13, <1>14 DEF BoardInv

\* An idea that is not torn has a cover only with media.
LEMMA TakenIs ==
  ASSUME BoardInv, NEW r \in Planners, planning[r].kind = "convert",
         DOMAIN Board!Taken(r) \subseteq store
  PROVE  /\ Board!Taken(r) \in Numbers(Pictures)
         /\ planning[r].idea \notin torn =>
              \E list \in sent[planning[r].idea] : Board!Taken(r) = Board!Valid(list)
<1> DEFINE q == planning[r]
<1>1. q.media \in Numbers(Pictures) /\ q.copy.cover \in Pictures \cup {Nil}
  BY PlanTypes DEF BoardInv, Board!Rows
<1>2. CASE q.media = Board!Nothing /\ q.copy.cover # Nil
  <2>1. Board!Taken(r) = [a \in {q.copy.cover} |-> 0]
    BY <1>2 DEF Board!Taken, Board!Copy
  <2>2. {q.copy.cover} \in SUBSET Pictures /\ [a \in {q.copy.cover} |-> 0] \in [{q.copy.cover} -> Nat]
    BY <1>1, <1>2
  <2>3. Board!Taken(r) \in Numbers(Pictures)
    BY <2>1, <2>2, NumberMade
  <2>4. DOMAIN q.media \subseteq store
    BY <1>2, NothingFacts
  <2>5. q.idea \in torn
    BY <1>2, <2>4 DEF BoardInv, Begun
  <2> QED BY <2>3, <2>5
<1>3. CASE ~(q.media = Board!Nothing /\ q.copy.cover # Nil)
  <2>1. Board!Taken(r) = q.media
    BY <1>3 DEF Board!Taken, Board!Copy
  <2> QED BY <1>1, <2>1 DEF BoardInv, Begun
<1> QED BY <1>2, <1>3

LEMMA BoardConvert ==
  ASSUME BoardInv, NEW r \in Planners, Board!Convert(r)
  PROVE  BoardInv'
<1>1. planning[r].kind = "convert"
  BY DEF Board!Convert, Board!Does
<1>2. SUFFICES ASSUME ~Board!Refused(r) PROVE BoardInv'
  BY BoardRefuses
<1>3. DOMAIN Board!Taken(r) \subseteq store
  BY <1>2 DEF Board!Convert
<1>4. PICK i \in Themes, list \in Numbers(Pictures) : i = planning[r].idea /\ list = Board!Taken(r)
  BY <1>1, <1>3, TakenIs DEF BoardInv, Begun
<1>5. /\ i \in DOMAIN idea /\ Board!Ends(r)
      /\ converted' = Board!Put(converted, r, [idea |-> i, media |-> list])
      /\ idea' = [idea EXCEPT ![i].post = r] /\ linked' = [linked EXCEPT ![i] = r]
      /\ attached' = attached /\ store' = store /\ lock' = lock /\ deleted' = deleted
      /\ wrote' = wrote /\ sent' = sent /\ torn' = torn
      /\ column' = column /\ crowded' = crowded
  BY <1>2, <1>4 DEF Board!Convert, Board!Subject, Board!board
<1>6. DOMAIN idea \subseteq Themes /\ idea \in [DOMAIN idea -> Board!Rows] /\ idea[i] \in Board!Rows
  BY <1>5, IdeaFacts DEF BoardInv, BoardTyped
<1> DEFINE row == [idea[i] EXCEPT !.post = r]
<1>7. row \in Board!Rows /\ row.post = r /\ row.cover = idea[i].cover
  BY <1>6 DEF Board!Rows
<1>8. idea' = [idea EXCEPT ![i] = row]
  BY <1>5, <1>6
<1> HIDE DEF row
<1>9. /\ idea' \in IdeaRows /\ DOMAIN idea' = DOMAIN idea /\ idea'[i] = row
      /\ \A j \in DOMAIN idea \ {i} : idea'[j] = idea[j]
  BY <1>5, <1>6, <1>7, <1>8, IdeaMade
<1>10. /\ linked' \in [Themes -> Planners \cup {Nil}] /\ linked'[i] = r
       /\ \A j \in Themes \ {i} : linked'[j] = linked[j]
  BY <1>5 DEF BoardInv, BoardTyped
<1>11. /\ converted' \in UNION {[s -> Converted] : s \in SUBSET Planners}
       /\ DOMAIN converted' = DOMAIN converted \cup {r}
       /\ converted'[r].idea = i /\ converted'[r].media = list
       /\ \A d \in DOMAIN converted \ {r} : converted'[d] = converted[d]
  <2>1. [idea |-> i, media |-> list] \in Converted
    BY DEF Converted
  <2>2. DOMAIN converted \subseteq Planners /\ \A d \in DOMAIN converted : converted[d] \in Converted
    BY DEF BoardInv, BoardTyped
  <2>3. converted' \in [DOMAIN converted \cup {r} -> Converted] /\ DOMAIN converted \cup {r} \in SUBSET Planners
    BY <1>5, <2>1, <2>2 DEF Board!Put
  <2>4. converted'[r] = [idea |-> i, media |-> list]
    BY <1>5 DEF Board!Put
  <2>5. \A d \in DOMAIN converted \ {r} : converted'[d] = converted[d]
    BY <1>5 DEF Board!Put
  <2> QED BY <2>3, <2>4, <2>5
<1>12. Grown /\ \A j \in Themes \cap (Ever' \ Ever) : j = planning[r].idea
  BY <1>5, <1>9 DEF Grown, Ever
<1>13. \A j \in DOMAIN idea : lock[j] \notin {Nil, r} => Untouched(j)
  <2> SUFFICES ASSUME NEW j \in DOMAIN idea PROVE Untouched(j)
    OBVIOUS
  <2>1. DOMAIN attached[j] \subseteq store
    BY <1>6 DEF BoardInv, Good
  <2> QED BY <1>5, <1>9, <2>1 DEF Untouched
<1>14. /\ planning' \in [Planners -> Plans]
       /\ \A s \in Planners : Begun(planning[s])' /\ Editing(s)' /\ Sole(s)'
  BY <1>5, <1>12, <1>13, EndStays
<1>15. BoardTyped'
  BY <1>5, <1>9, <1>10, <1>11, <1>14 DEF BoardInv, BoardTyped
<1>16. \A j \in Themes : Good(j)'
  <2> TAKE j \in Themes
  <2>1. Good(j)
    BY DEF BoardInv
  <2>2. CASE j # i
    <3>1. wrote[j] \in sent'[j]
      BY <1>5, <2>1 DEF Good
    <3> QED BY <1>5, <1>9, <1>10, <2>1, <2>2, <3>1, GoodStays
  <2>3. CASE j = i
    <3>1. Board!Valid(wrote[j])' = Board!Valid(wrote[j]) /\ Board!CoverOf(attached[j])' = Board!CoverOf(attached[j])
      BY <1>5 DEF Board!Valid, Board!CoverOf
    <3> QED BY <1>5, <1>7, <1>9, <1>10, <2>1, <2>3, <3>1 DEF Good, Ever
  <2> QED BY <2>2, <2>3
<1>17. \A d \in DOMAIN converted' : Drafted(d)'
  <2> TAKE d \in DOMAIN converted'
  <2>1. CASE d = r
    <3>1. i \notin torn => \E x \in sent[i] : list = Board!Valid(x)
      BY <1>1, <1>3, <1>4, TakenIs
    <3>2. \A x : Board!Valid(x)' = Board!Valid(x)
      BY <1>5 DEF Board!Valid
    <3>3. i \notin torn' => \E x \in sent'[i] : list = Board!Valid(x)'
      BY <1>5, <3>1, <3>2
    <3>4. converted'[d].idea = i /\ converted'[d].media = list
      BY <1>11, <2>1
    <3> QED BY <3>3, <3>4 DEF Drafted
  <2>2. CASE d # r
    <3>1. Drafted(d) /\ converted'[d] = converted[d]
      BY <1>11, <2>2 DEF BoardInv
    <3> QED BY <1>5, <3>1, DraftedStays
  <2> QED BY <2>1, <2>2
<1>18. (crowded \/ Apart(column))'
  BY <1>5 DEF BoardInv, Apart
<1> QED BY <1>14, <1>15, <1>16, <1>17, <1>18 DEF BoardInv

LEMMA BoardDeleteAsset ==
  ASSUME BoardInv, NEW a \in Pictures, Board!DeleteAsset(a)
  PROVE  BoardInv'
<1>1. /\ a \in store /\ store' = store \ {a}
      /\ attached' = [i \in Themes |-> Board!Restrict(attached[i], DOMAIN attached[i] \ {a})]
      /\ idea' = [i \in DOMAIN idea |->
           IF idea[i].cover = a THEN [idea[i] EXCEPT !.cover = Nil] ELSE idea[i]]
      /\ torn' = torn \cup {i \in DOMAIN idea : a \in DOMAIN attached[i] \/ idea[i].cover = a}
      /\ converted' = [p \in DOMAIN converted |->
           [converted[p] EXCEPT !.media =
              Board!Restrict(converted[p].media, DOMAIN converted[p].media \ {a})]]
      /\ lock' = lock /\ deleted' = deleted /\ wrote' = wrote /\ sent' = sent
      /\ linked' = linked /\ planning' = planning /\ column' = column /\ crowded' = crowded
  BY DEF Board!DeleteAsset, Board!board
<1>2. DOMAIN idea \subseteq Themes /\ \A j \in DOMAIN idea : idea[j] \in Board!Rows
  BY IdeaFacts DEF BoardInv, BoardTyped
<1>3. \A j \in DOMAIN idea : [idea[j] EXCEPT !.cover = Nil] \in Board!Rows
  BY <1>2 DEF Board!Rows
<1>4. idea' \in IdeaRows /\ DOMAIN idea' = DOMAIN idea
  <2>1. idea' \in [DOMAIN idea -> Board!Rows] /\ DOMAIN idea \in SUBSET Themes
    BY <1>1, <1>2, <1>3
  <2> QED BY <2>1, IdeaMade
\* What remains of a list.
<1>5. ASSUME NEW f \in Numbers(Pictures)
      PROVE  /\ Board!Restrict(f, DOMAIN f \ {a}) \in Numbers(Pictures)
             /\ DOMAIN Board!Restrict(f, DOMAIN f \ {a}) = DOMAIN f \ {a}
             /\ a \notin DOMAIN f => Board!Restrict(f, DOMAIN f \ {a}) = f
             /\ \A list : f = Board!Valid(list) => Board!Restrict(f, DOMAIN f \ {a}) = Board!Valid(list)'
  <2>1. /\ Board!Restrict(f, DOMAIN f \ {a}) \in Numbers(Pictures)
        /\ DOMAIN Board!Restrict(f, DOMAIN f \ {a}) = DOMAIN f \ {a}
        /\ \A x \in DOMAIN f \ {a} : Board!Restrict(f, DOMAIN f \ {a})[x] = f[x]
    <3>1. DOMAIN f \ {a} \subseteq DOMAIN f
      OBVIOUS
    <3> QED BY <3>1, RestrictedFacts
  <2>2. a \notin DOMAIN f => Board!Restrict(f, DOMAIN f \ {a}) = f
    BY <2>1, SameNumbers
  <2>3. ASSUME NEW list, f = Board!Valid(list)
        PROVE  Board!Restrict(f, DOMAIN f \ {a}) = Board!Valid(list)'
    <3>1. f = [x \in DOMAIN list \cap store |-> list[x]]
      BY <2>3 DEF Board!Valid, Board!Restrict
    <3>2. DOMAIN f \ {a} = DOMAIN list \cap store'
      BY <1>1, <3>1
    <3>3. Board!Valid(list)' = [x \in DOMAIN list \cap store' |-> list[x]]
      BY DEF Board!Valid, Board!Restrict
    <3>4. Board!Restrict(f, DOMAIN f \ {a}) = [x \in DOMAIN list \cap store' |-> f[x]]
      BY <3>2 DEF Board!Restrict
    <3>5. \A x \in DOMAIN list \cap store' : f[x] = list[x]
      BY <1>1, <3>1
    <3> QED BY <3>3, <3>4, <3>5
  <2> QED BY <2>1, <2>2, <2>3
<1>6. /\ attached' \in [Themes -> Numbers(Pictures)]
      /\ \A j \in Themes : DOMAIN attached'[j] = DOMAIN attached[j] \ {a}
  <2>1. \A j \in Themes : attached[j] \in Numbers(Pictures)
    BY DEF BoardInv, BoardTyped
  <2>2. \A j \in Themes : attached'[j] = Board!Restrict(attached[j], DOMAIN attached[j] \ {a})
    BY <1>1
  <2>3. \A j \in Themes : attached'[j] \in Numbers(Pictures) /\ DOMAIN attached'[j] = DOMAIN attached[j] \ {a}
    BY <1>5, <2>1, <2>2
  <2> QED BY <1>1, <2>3
<1>7. /\ converted' \in UNION {[s -> Converted] : s \in SUBSET Planners}
      /\ DOMAIN converted' = DOMAIN converted
      /\ \A p \in DOMAIN converted :
           /\ converted[p] \in Converted /\ converted'[p].idea = converted[p].idea
           /\ converted'[p].media = Board!Restrict(converted[p].media, DOMAIN converted[p].media \ {a})
  <2>1. DOMAIN converted \subseteq Planners /\ \A p \in DOMAIN converted : converted[p] \in Converted
    BY DEF BoardInv, BoardTyped
  <2>2. ASSUME NEW p \in DOMAIN converted
        PROVE  /\ converted'[p] \in Converted /\ converted'[p].idea = converted[p].idea
               /\ converted'[p].media = Board!Restrict(converted[p].media, DOMAIN converted[p].media \ {a})
    <3> DEFINE left == Board!Restrict(converted[p].media, DOMAIN converted[p].media \ {a})
    <3>1. converted[p] \in Converted /\ converted[p].media \in Numbers(Pictures)
      BY <2>1 DEF Converted
    <3>2. left \in Numbers(Pictures)
      BY <1>5, <3>1
    <3>3. converted'[p] = [converted[p] EXCEPT !.media = left]
      BY <1>1
    <3> HIDE DEF left
    <3>4. converted'[p] \in Converted /\ converted'[p].idea = converted[p].idea /\ converted'[p].media = left
      BY <3>1, <3>2, <3>3 DEF Converted
    <3> QED BY <3>4 DEF left
  <2>3. DOMAIN converted' = DOMAIN converted /\ converted' \in [DOMAIN converted -> Converted]
    BY <1>1, <2>2
  <2> QED BY <2>1, <2>2, <2>3
<1>8. torn \subseteq torn' /\ torn' \subseteq Themes
  BY <1>1, <1>2 DEF BoardInv, BoardTyped
<1>9. Grown /\ Ever' = Ever
  BY <1>1, <1>4, <1>8 DEF Grown, Ever
<1>10. \A j \in Themes : DOMAIN attached[j] \subseteq store
  BY DEF BoardInv, Good
<1>11. \A j \in DOMAIN idea : Untouched(j)
  BY <1>1, <1>2, <1>4, <1>6, <1>10 DEF Untouched
<1>12. BoardTyped'
  <2>1. store' \subseteq Pictures
    BY <1>1 DEF BoardInv, BoardTyped
  <2> QED BY <1>1, <1>4, <1>6, <1>7, <1>8, <2>1 DEF BoardInv, BoardTyped
<1>13. \A s \in Planners : Begun(planning[s])' /\ Editing(s)' /\ Sole(s)'
  <2> TAKE s \in Planners
  <2>1. planning'[s] = planning[s]
    BY <1>1
  <2>2. planning[s].kind = "create" => planning[s].idea \notin Ever'
    BY <1>9 DEF BoardInv, Begun
  <2>3. Begun(planning[s])'
    BY <1>9, <2>1, <2>2, BegunStays
  <2>4. Editing(s)'
    BY <1>9, <1>11, <2>1, EditingStays
  <2>5. Sole(s)'
    BY <1>1 DEF BoardInv, Sole
  <2> QED BY <2>3, <2>4, <2>5
<1>14. \A j \in Themes : Good(j)'
  <2> TAKE j \in Themes
  <2>1. Good(j) /\ attached[j] \in Numbers(Pictures)
    BY DEF BoardInv, BoardTyped
  <2>2. attached'[j] = Board!Restrict(attached[j], DOMAIN attached[j] \ {a})
    BY <1>1
  <2>3. DOMAIN attached'[j] \subseteq store' /\ wrote'[j] \in sent'[j]
    BY <1>1, <1>6, <1>10, <2>1 DEF Good
  <2>4. j \notin Ever' => linked'[j] = Nil
    BY <1>1, <1>9, <2>1 DEF Good
  <2>5. j \in DOMAIN idea' \ deleted' => attached'[j] = Board!Valid(wrote[j])'
    <3> SUFFICES ASSUME j \in DOMAIN idea \ deleted PROVE attached'[j] = Board!Valid(wrote[j])'
      BY <1>1, <1>4
    <3>1. attached[j] = Board!Valid(wrote[j])
      BY <2>1 DEF Good
    <3>2. PICK w : w = wrote[j]
      OBVIOUS
    <3>3. attached'[j] = Board!Valid(w)'
      BY <1>5, <2>1, <2>2, <3>1, <3>2
    <3>4. wrote'[j] = w
      BY <1>1, <3>2
    <3> QED BY <3>3, <3>4 DEF Board!Valid
  <2>6. ASSUME j \in DOMAIN idea' \ torn'
        PROVE  j \notin deleted' /\ idea'[j].cover = Board!CoverOf(attached[j])' /\ idea'[j].post = linked'[j]
    <3>1. j \in DOMAIN idea \ torn /\ a \notin DOMAIN attached[j] /\ idea[j].cover # a
      BY <1>1, <1>4, <2>6
    <3>2. attached'[j] = attached[j] /\ idea'[j] = idea[j]
      BY <1>1, <1>5, <2>1, <2>2, <3>1
    <3>3. Board!CoverOf(attached[j])' = Board!CoverOf(attached[j])
      BY <3>2 DEF Board!CoverOf
    <3> QED BY <1>1, <2>1, <3>1, <3>2, <3>3 DEF Good
  <2> QED BY <2>3, <2>4, <2>5, <2>6 DEF Good
<1>15. \A p \in DOMAIN converted' : Drafted(p)'
  <2> SUFFICES ASSUME NEW p \in DOMAIN converted, converted[p].idea \notin torn'
               PROVE  \E list \in sent'[converted'[p].idea] : converted'[p].media = Board!Valid(list)'
    BY <1>7 DEF Drafted
  <2>1. converted[p].idea \notin torn /\ converted[p].media \in Numbers(Pictures)
    BY <1>7, <1>8 DEF Converted
  <2>2. PICK list \in sent[converted[p].idea] : converted[p].media = Board!Valid(list)
    BY <2>1 DEF BoardInv, Drafted
  <2>3. Board!Restrict(converted[p].media, DOMAIN converted[p].media \ {a}) = Board!Valid(list)'
    BY <1>5, <2>1, <2>2
  <2> QED BY <1>1, <1>7, <2>2, <2>3
<1>16. (crowded \/ Apart(column))'
  BY <1>1 DEF BoardInv, Apart
<1> QED BY <1>12, <1>13, <1>14, <1>15, <1>16 DEF BoardInv

\* A step about columns: the rows change at most in their columns.
Regroups ==
  /\ attached' = attached /\ store' = store /\ converted' = converted /\ lock' = lock
  /\ wrote' = wrote /\ sent' = sent /\ linked' = linked /\ torn' = torn
  /\ deleted \subseteq deleted' /\ deleted' \subseteq deleted \cup Columns
  /\ idea' \in IdeaRows /\ DOMAIN idea' = DOMAIN idea
  /\ \A i \in DOMAIN idea : idea'[i].cover = idea[i].cover /\ idea'[i].post = idea[i].post

LEMMA BoardRegroups ==
  ASSUME BoardInv, NEW r \in Planners, Board!Ends(r), Regroups, column' \in Numbers(Columns),
         crowded' \in BOOLEAN, crowded' \/ Apart(column')
  PROVE  BoardInv'
<1>1. Themes \cap Columns = {}
  BY SetAssumption
<1>2. \A i \in Themes : i \in deleted' <=> i \in deleted
  BY <1>1 DEF Regroups
<1>3. Grown /\ \A i \in Themes \cap (Ever' \ Ever) : i = planning[r].idea
  BY <1>2 DEF Regroups, Grown, Ever
<1>4. \A i \in DOMAIN idea : Untouched(i)
  <2> TAKE i \in DOMAIN idea
  <2>1. DOMAIN attached[i] \subseteq store
    BY IdeaFacts DEF BoardInv, BoardTyped, Good
  <2> QED BY <2>1 DEF Regroups, Untouched
<1>5. /\ planning' \in [Planners -> Plans]
      /\ \A s \in Planners : Begun(planning[s])' /\ Editing(s)' /\ Sole(s)'
  BY <1>3, <1>4, EndStays
<1>6. BoardTyped'
  BY <1>5 DEF Regroups, BoardInv, BoardTyped
<1>7. \A i \in Themes : Good(i)'
  <2> TAKE i \in Themes
  <2>1. Good(i) /\ wrote[i] \in sent'[i]
    BY DEF BoardInv, Good, Regroups
  <2> QED BY <1>2, <2>1, GoodStays DEF Regroups
<1>8. \A d \in DOMAIN converted' : Drafted(d)'
  BY DraftedStays DEF BoardInv, Regroups
<1>9. (crowded \/ Apart(column))'
  BY DEF Apart
<1> QED BY <1>5, <1>6, <1>7, <1>8, <1>9 DEF BoardInv

LEMMA SameIdeas ==
  ASSUME BoardInv, UNCHANGED Board!rows
  PROVE  Regroups
BY DEF BoardInv, BoardTyped, Board!rows, Regroups

LEMMA BoardSeed ==
  ASSUME BoardInv, NEW r \in Planners, Board!Seed(r)
  PROVE  BoardInv'
<1> DEFINE new == Board!NewColumns(Defaults, DOMAIN column \cup deleted)
<1>1. /\ Board!Ends(r) /\ UNCHANGED Board!rows
      /\ Defaults <= Cardinality(Columns \ (DOMAIN column \cup deleted))
      /\ column' = [c \in DOMAIN column \cup new |-> IF c \in new THEN Board!Numbered(new)[c] ELSE column[c]]
      /\ crowded' = (crowded \/ column # Board!Nothing)
  <2>1. Board!Cardinality(Columns \ (DOMAIN column \cup deleted)) \in Nat
    BY BoardCount, SetAssumption, FS_Subset, FS_CardinalityType
  <2>2. Board!Cardinality(Columns \ (DOMAIN column \cup deleted)) >= Defaults
    BY DEF Board!Seed
  <2> QED BY <2>1, <2>2, BoundAssumption, BoardCount DEF Board!Seed
<1>2. new \in SUBSET Columns /\ IsFiniteSet(new)
  BY <1>1, NewColumnsFacts
<1> HIDE DEF new
<1>3. Board!Numbered(new) \in [new -> Nat] /\ Apart(Board!Numbered(new))
  BY <1>2, NumberedFacts
<1>4. column \in Numbers(Columns) /\ DOMAIN column \subseteq Columns /\ \A c \in DOMAIN column : column[c] \in Nat
  BY NumberFacts DEF BoardInv, BoardTyped
<1>5. column' \in Numbers(Columns)
  <2>1. column' \in [DOMAIN column \cup new -> Nat] /\ DOMAIN column \cup new \in SUBSET Columns
    BY <1>1, <1>2, <1>3, <1>4
  <2> QED BY <2>1, NumberMade
<1>6. crowded' \in BOOLEAN
  BY <1>1
<1>7. crowded' \/ Apart(column')
  <2> SUFFICES ASSUME ~crowded' PROVE Apart(column')
    OBVIOUS
  <2>1. DOMAIN column = {}
    BY <1>1, NothingFacts
  <2>2. DOMAIN column' = new /\ \A c \in new : column'[c] = Board!Numbered(new)[c]
    BY <1>1, <2>1
  <2> QED BY <1>3, <2>2 DEF Apart
<1> QED BY <1>1, <1>5, <1>6, <1>7, SameIdeas, BoardRegroups

LEMMA PlaceFacts ==
  ASSUME NEW f \in Numbers(Columns)
  PROVE  Board!PlaceOf(f) \in Nat /\ \A c \in DOMAIN f : f[c] < Board!PlaceOf(f)
<1> DEFINE places == {f[c] : c \in DOMAIN f}
           g == [c \in DOMAIN f |-> f[c]]
<1>1. DOMAIN f \subseteq Columns /\ \A c \in DOMAIN f : f[c] \in Nat
  BY NumberFacts
<1>2. IsFiniteSet(DOMAIN f)
  BY <1>1, BoardFinite
<1>3. g \in Surjection(DOMAIN f, places)
  BY DEF Surjection
<1>4. IsFiniteSet(places)
  BY <1>2, <1>3, FS_Surjection
<1>5. IsFiniteSet(places \cup {0}) /\ places \cup {0} \in SUBSET Nat /\ places \cup {0} # {}
  BY <1>1, <1>4, FS_AddElement
<1> HIDE DEF places
<1>6. \E m \in places \cup {0} : \A k \in places \cup {0} : k <= m
  BY <1>5, GreatestNatural
<1>7. \E m \in places \cup {0} : \A k \in places \cup {0} : m >= k
  BY <1>6
<1>8. Board!Max(places \cup {0}) \in places \cup {0} /\ \A k \in places \cup {0} : Board!Max(places \cup {0}) >= k
  BY <1>7 DEF Board!Max
<1>9. Board!PlaceOf(f) = Board!Max(places \cup {0}) + 1
  BY DEF Board!PlaceOf, Board!Highest, places
<1>10. Board!Max(places \cup {0}) \in Nat
  BY <1>5, <1>8
<1>11. \A c \in DOMAIN f : f[c] \in places
  BY DEF places
<1> QED BY <1>1, <1>8, <1>9, <1>10, <1>11

LEMMA BoardAddColumn ==
  ASSUME BoardInv, NEW r \in Planners, Board!AddColumn(r)
  PROVE  BoardInv'
<1>1. PICK c \in Columns : c \notin DOMAIN column \cup deleted /\
        column' = Board!Put(column, c, Board!PlaceOf(planning[r].seen))
  <2>1. \E d \in Columns : d \notin DOMAIN column \cup deleted
    BY DEF Board!AddColumn
  <2> QED BY <2>1 DEF Board!AddColumn
<1>2. Board!Ends(r) /\ UNCHANGED Board!rows /\ crowded' = (crowded \/ column # planning[r].seen)
  BY DEF Board!AddColumn
<1>3. PICK f \in Numbers(Columns) : f = planning[r].seen
  BY PlanTypes DEF BoardInv
<1>4. Board!PlaceOf(f) \in Nat /\ \A d \in DOMAIN f : f[d] < Board!PlaceOf(f)
  BY PlaceFacts
<1>5. DOMAIN column \subseteq Columns /\ \A d \in DOMAIN column : column[d] \in Nat
  BY NumberFacts DEF BoardInv, BoardTyped
<1>6. /\ column' \in [DOMAIN column \cup {c} -> Nat] /\ column'[c] = Board!PlaceOf(f)
      /\ \A d \in DOMAIN column : column'[d] = column[d]
  BY <1>1, <1>3, <1>4, <1>5 DEF Board!Put
<1>7. column' \in Numbers(Columns)
  BY <1>5, <1>6, NumberMade
<1>8. crowded' \in BOOLEAN
  BY <1>2
<1>9. crowded' \/ Apart(column')
  <2> SUFFICES ASSUME ~crowded' PROVE Apart(column')
    OBVIOUS
  <2>1. column = f /\ Apart(column)
    BY <1>2, <1>3 DEF BoardInv
  <2>2. \A d \in DOMAIN column : column'[d] \in Nat /\ column'[d] # column'[c]
    BY <1>4, <1>5, <1>6, <2>1
  <2>3. DOMAIN column' = DOMAIN column \cup {c}
    BY <1>6
  <2> QED BY <1>6, <2>1, <2>2, <2>3 DEF Apart
<1> QED BY <1>2, <1>7, <1>8, <1>9, SameIdeas, BoardRegroups

LEMMA BoardDeleteColumn ==
  ASSUME BoardInv, NEW r \in Planners, Board!DeleteColumn(r)
  PROVE  BoardInv'
<1>1. planning[r].kind = "deleteColumn"
  BY DEF Board!DeleteColumn, Board!Does
<1>2. PICK c \in Columns : c = planning[r].column
  BY <1>1 DEF BoardInv, Begun
<1>3. /\ Board!Ends(r)
      /\ column' = [d \in DOMAIN column \ {c} |-> column[d]]
      /\ idea' = [i \in DOMAIN idea |->
           IF idea[i].group = c THEN [idea[i] EXCEPT !.group = Nil] ELSE idea[i]]
      /\ deleted' = deleted \cup {c}
      /\ attached' = attached /\ store' = store /\ converted' = converted /\ lock' = lock
      /\ wrote' = wrote /\ sent' = sent /\ linked' = linked /\ torn' = torn /\ crowded' = crowded
  BY <1>2 DEF Board!DeleteColumn
<1>4. DOMAIN idea \subseteq Themes /\ \A i \in DOMAIN idea : idea[i] \in Board!Rows
  BY IdeaFacts DEF BoardInv, BoardTyped
<1>5. \A x \in Board!Rows :
        /\ [x EXCEPT !.group = Nil] \in Board!Rows
        /\ [x EXCEPT !.group = Nil].cover = x.cover /\ [x EXCEPT !.group = Nil].post = x.post
  BY DEF Board!Rows
<1>6. \A i \in DOMAIN idea :
        idea'[i] \in Board!Rows /\ idea'[i].cover = idea[i].cover /\ idea'[i].post = idea[i].post
  <2> TAKE i \in DOMAIN idea
  <2>1. idea'[i] = IF idea[i].group = c THEN [idea[i] EXCEPT !.group = Nil] ELSE idea[i]
    BY <1>3
  <2> QED BY <1>4, <1>5, <2>1
<1>7. idea' \in IdeaRows /\ DOMAIN idea' = DOMAIN idea
  <2>1. idea' \in [DOMAIN idea -> Board!Rows] /\ DOMAIN idea \in SUBSET Themes
    BY <1>3, <1>4, <1>6
  <2> QED BY <2>1, IdeaMade
<1>8. Regroups
  BY <1>3, <1>6, <1>7 DEF Regroups
<1>9. DOMAIN column \subseteq Columns /\ \A d \in DOMAIN column : column[d] \in Nat
  BY NumberFacts DEF BoardInv, BoardTyped
<1>10. column' \in Numbers(Columns)
  <2>1. column' \in [DOMAIN column \ {c} -> Nat] /\ DOMAIN column \ {c} \in SUBSET Columns
    BY <1>3, <1>9
  <2> QED BY <2>1, NumberMade
<1>11. crowded' \in BOOLEAN /\ (crowded' \/ Apart(column'))
  BY <1>3 DEF BoardInv, BoardTyped, Apart
<1> QED BY <1>3, <1>8, <1>10, <1>11, BoardRegroups

LEMMA BoardReorder ==
  ASSUME BoardInv, NEW r \in Planners, Board!Reorder(r)
  PROVE  BoardInv'
<1>1. planning[r].kind = "reorder"
  BY DEF Board!Reorder, Board!Does
<1>2. PICK s \in Numbers(Columns), seen \in Numbers(Columns) :
        /\ s = planning[r].list /\ seen = planning[r].seen
        /\ DOMAIN s \subseteq DOMAIN seen /\ Apart(s)
  BY <1>1, PlanTypes DEF BoardInv, Begun, Apart
<1> DEFINE shifts(c) == c \in DOMAIN seen /\ seen[c] # s[c]
           done == {c \in DOMAIN s : \A d \in DOMAIN s : s[d] <= s[c] /\ shifts(d) => d \in DOMAIN column}
<1>3. /\ Board!Ends(r) /\ UNCHANGED Board!rows
      /\ column' = [c \in DOMAIN column |-> IF c \in done /\ shifts(c) THEN s[c] ELSE column[c]]
      /\ crowded' = (crowded \/ column # seen \/ ~(DOMAIN column \subseteq DOMAIN s))
  BY <1>2 DEF Board!Reorder
<1>4. /\ DOMAIN column \subseteq Columns /\ \A c \in DOMAIN column : column[c] \in Nat
      /\ \A c \in DOMAIN s : s[c] \in Nat
  BY NumberFacts DEF BoardInv, BoardTyped
<1>5. column' \in Numbers(Columns)
  <2>1. column' \in [DOMAIN column -> Nat]
    BY <1>3, <1>4
  <2> QED BY <1>4, <2>1, NumberMade
<1>6. crowded' \in BOOLEAN
  BY <1>3
<1>7. crowded' \/ Apart(column')
  <2> SUFFICES ASSUME ~crowded' PROVE Apart(column')
    OBVIOUS
  <2>1. column = seen /\ DOMAIN column \subseteq DOMAIN s
    BY <1>3
  <2>2. \A c \in DOMAIN column : c \in done
    BY <1>2, <2>1
  <2>3. \A c \in DOMAIN column : column'[c] = s[c]
    BY <1>3, <2>1, <2>2
  <2>4. DOMAIN column' = DOMAIN column
    BY <1>3
  <2> QED BY <1>2, <2>1, <2>3, <2>4 DEF Apart
<1> QED BY <1>3, <1>5, <1>6, <1>7, SameIdeas, BoardRegroups

LEMMA BoardInit == Board!Init => BoardInv
<1> SUFFICES ASSUME Board!Init PROVE BoardInv
  OBVIOUS
<1>1. /\ column \in {Board!Nothing, Board!Numbered(Board!NewColumns(Defaults, {}))} /\ store = Pictures
      /\ crowded = FALSE /\ idea = [i \in {} |-> Board!NewRow]
      /\ attached = [i \in Themes |-> Board!Nothing]
      /\ converted = [r \in {} |-> [idea |-> Nil, media |-> Board!Nothing]]
      /\ lock = [i \in Themes |-> Nil]
      /\ planning = [r \in Planners |-> Board!Idle]
      /\ deleted = {} /\ torn = {}
      /\ wrote = [i \in Themes |-> Board!Nothing] /\ sent = [i \in Themes |-> {Board!Nothing}]
      /\ linked = [i \in Themes |-> Nil]
  BY DEF Board!Init
<1>2. \A S : Board!Nothing \in Numbers(S)
  BY NothingFacts
<1>3. column \in Numbers(Columns) /\ Apart(column)
  <2>1. CASE column = Board!Nothing
    BY <1>2, <2>1, NothingFacts DEF Apart
  <2>2. CASE column = Board!Numbered(Board!NewColumns(Defaults, {}))
    <3> DEFINE new == Board!NewColumns(Defaults, {})
    <3>1. Columns \ {} = Columns /\ Defaults <= Cardinality(Columns)
      BY SetAssumption
    <3>2. new \in SUBSET Columns /\ IsFiniteSet(new)
      BY <3>1, NewColumnsFacts
    <3> HIDE DEF new
    <3>3. Board!Numbered(new) \in [new -> Nat] /\ Apart(Board!Numbered(new))
      BY <3>2, NumberedFacts
    <3>4. column = Board!Numbered(new)
      BY <2>2 DEF new
    <3> QED BY <3>2, <3>3, <3>4, NumberMade
  <2> QED BY <1>1, <2>1, <2>2
<1>4. idea \in IdeaRows /\ DOMAIN idea = {}
  <2>1. idea \in [{} -> Board!Rows] /\ {} \in SUBSET Themes
    BY <1>1
  <2> QED BY <2>1, IdeaMade
<1>5. /\ converted \in UNION {[s -> Converted] : s \in SUBSET Planners} /\ DOMAIN converted = {}
  <2>1. converted \in [{} -> Converted] /\ {} \in SUBSET Planners
    BY <1>1
  <2> QED BY <2>1
<1>6. Board!Idle \in Plans /\ Board!Idle.kind = Nil /\ Board!Idle.idea = Nil /\ Board!Idle.list = Board!Nothing
  BY PlanFacts DEF Board!Idle
<1>7. BoardTyped
  BY <1>1, <1>2, <1>3, <1>4, <1>5, <1>6 DEF BoardTyped
<1>8. \A r \in Planners : Begun(planning[r]) /\ Editing(r) /\ Sole(r)
  BY <1>1, <1>2, <1>6, BoardKinds DEF Begun, Editing, Sole
<1>9. \A i \in Themes : Good(i)
  BY <1>1, <1>4, NothingFacts DEF Good
<1>10. \A p \in DOMAIN converted : Drafted(p)
  BY <1>5
<1> QED BY <1>3, <1>7, <1>8, <1>9, <1>10 DEF BoardInv

LEMMA BoardNext ==
  ASSUME BoardInv, [Board!Next]_board
  PROVE  BoardInv'
<1>1. CASE UNCHANGED board
  <2>1. Steady /\ planning' = planning
    BY <1>1 DEF board, Steady, Board!rows, Board!board
  <2>2. /\ Grown /\ \A i \in DOMAIN idea : Untouched(i)
        /\ Ever' = Ever
    BY <2>1, SteadyFacts
  <2>3. \A s \in Planners : Begun(planning[s])' /\ Editing(s)' /\ Sole(s)'
    <3> TAKE s \in Planners
    <3>1. planning'[s] = planning[s]
      BY <2>1
    <3>2. planning[s].kind = "create" => planning[s].idea \notin Ever'
      BY <2>2 DEF BoardInv, Begun
    <3>3. Sole(s)'
      BY <2>1 DEF BoardInv, Sole
    <3> QED BY <2>2, <3>1, <3>2, <3>3, BegunStays, EditingStays
  <2>4. planning' \in [Planners -> Plans]
    BY <2>1 DEF BoardInv, BoardTyped
  <2> QED BY <2>1, <2>3, <2>4, BoardWaits
<1>2. CASE \E a \in Pictures : Board!DeleteAsset(a)
  BY <1>2, BoardDeleteAsset
<1>3. ASSUME NEW r \in Planners,
             \/ Board!BeginCreate(r) \/ Board!BeginDashboard(r) \/ Board!BeginIdea(r) \/ Board!BeginBoard(r)
             \/ Board!Create(r) \/ Board!EditSave(r) \/ Board!EditRead(r) \/ Board!EditCommit(r)
             \/ Board!Move(r) \/ Board!Convert(r) \/ Board!Delete(r)
             \/ Board!Seed(r) \/ Board!AddColumn(r) \/ Board!DeleteColumn(r) \/ Board!Reorder(r)
      PROVE  BoardInv'
  BY <1>3, BoardBeginCreate, BoardBeginIdea, BoardBeginBoard, BoardCreate, BoardEditSave,
     BoardEditRead, BoardEditCommit, BoardMove, BoardConvert, BoardDelete, BoardSeed,
     BoardAddColumn, BoardDeleteColumn, BoardReorder
<1> QED BY <1>1, <1>2, <1>3 DEF Board!Next

LEMMA BoardKeeps ==
  ASSUME BoardInv
  PROVE  /\ Board!EditsDoNotMix /\ Board!CoverIsFirst /\ Board!NothingIsUndone
         /\ Board!DraftsHaveOneList /\ Board!ColumnsHavePlaces /\ Board!TypeOK
<1>1. DOMAIN idea \subseteq Themes /\ \A i \in DOMAIN idea : idea[i] \in Board!Rows
  BY IdeaFacts DEF BoardInv, BoardTyped
<1>2. \A i \in DOMAIN idea : Good(i)
  BY <1>1 DEF BoardInv
<1>3. Board!EditsDoNotMix /\ Board!CoverIsFirst /\ Board!NothingIsUndone
  BY <1>2 DEF Good, Board!EditsDoNotMix, Board!CoverIsFirst, Board!NothingIsUndone
<1>4. Board!DraftsHaveOneList
  BY DEF BoardInv, Drafted, Board!DraftsHaveOneList
<1>5. Board!ColumnsHavePlaces
  BY DEF BoardInv, Apart, Board!ColumnsHavePlaces
<1>6. Board!TypeOK
  <2>1. DOMAIN column \subseteq Columns /\ \A c \in DOMAIN column : column[c] \in Nat
    BY NumberFacts DEF BoardInv, BoardTyped
  <2>2. \A i \in Themes : DOMAIN attached[i] \subseteq store /\ wrote[i] \in sent[i]
    BY DEF BoardInv, Good
  <2>3. \A i \in Themes : \A list \in sent[i] : DOMAIN list \subseteq Pictures /\ Board!Range(list) \subseteq Nat
    <3> TAKE i \in Themes
    <3> TAKE list \in sent[i]
    <3>1. list \in Numbers(Pictures)
      BY DEF BoardInv, BoardTyped
    <3>2. DOMAIN list \subseteq Pictures /\ \A x \in DOMAIN list : list[x] \in Nat
      BY <3>1, NumberFacts
    <3> QED BY <3>2 DEF Board!Range
  <2>4. \A r \in Planners : planning[r].kind \in Board!Kinds \cup {Nil} /\ planning[r].copy \in Board!Rows
    BY PlanTypes DEF BoardInv
  <2>5. DOMAIN converted \subseteq Planners
    BY DEF BoardInv, BoardTyped
  <2> QED BY <1>1, <2>1, <2>2, <2>3, <2>4, <2>5 DEF BoardInv, BoardTyped, Board!TypeOK
<1> QED BY <1>3, <1>4, <1>5, <1>6

-----------------------------------------------------------------------------
(* The calendar (Calendar).                                                 *)

DatesTyped == Dates!TypeOK

LEMMA DatesLeast ==
  ASSUME NEW S \in SUBSET Nat, S # {}
  PROVE  Dates!Least(S) \in S /\ \A k \in S : Dates!Least(S) <= k
BY LeastNatural DEF Dates!Least

LEMMA DatesFacts ==
  /\ Hours \in Nat /\ Hours > 0 /\ Week \in Nat /\ Week > 0 /\ NumDays \in Nat /\ NumDays > 0
  /\ MaxTime \in Nat /\ MaxOffset \in Nat /\ MaxOffset < Hours
  /\ Dates!Instants \subseteq Nat /\ Dates!Unset = -1 /\ Dates!Unset \notin Dates!Instants
  /\ \A t \in Dates!Instants, u \in Nat : u <= t => u \in Dates!Instants
<1>1. Hours \in Nat /\ Hours > 0 /\ Week \in Nat /\ Week > 0 /\ NumDays \in Nat /\ NumDays > 0
      /\ MaxTime \in Nat /\ MaxOffset \in Nat /\ MaxOffset < Hours
  BY BoundAssumption
<1>2. Hours * NumDays \in Nat
  BY <1>1
<1> QED BY <1>1, <1>2 DEF Dates!Instants, Dates!Unset

LEMMA EarliestFacts ==
  ASSUME NEW times \in [Accounts -> Dates!Instants \cup {Dates!Unset}]
  PROVE  Dates!Earliest(times) \in Dates!Instants \cup {Dates!Unset}
<1> DEFINE set == {times[a] : a \in Accounts} \ {Dates!Unset}
<1>1. set \in SUBSET Dates!Instants
  OBVIOUS
<1>2. CASE set = {}
  BY <1>2 DEF Dates!Earliest
<1>3. CASE set # {}
  <2>1. Dates!Least(set) \in set
    BY <1>1, <1>3, DatesFacts, DatesLeast
  <2>2. Dates!Earliest(times) = Dates!Least(set)
    BY <1>3 DEF Dates!Earliest
  <2> QED BY <1>1, <2>1, <2>2
<1> QED BY <1>2, <1>3

LEMMA DatesInit == Dates!Init => DatesTyped
<1> SUFFICES ASSUME Dates!Init PROVE DatesTyped
  OBVIOUS
<1>1. PICK pushed \in SUBSET OldRows, t \in Dates!Instants \ {0} :
        /\ stage = [a \in Accounts |-> IF a \in pushed THEN "published" ELSE "draft"]
        /\ due = [a \in Accounts |-> IF a \in pushed THEN t ELSE Dates!Unset]
        /\ published = [a \in Accounts |-> IF a \in pushed THEN 0 ELSE Dates!Unset]
        /\ planned = Dates!Earliest(due)
  BY DEF Dates!Init
<1>2. due \in [Accounts -> Dates!Instants \cup {Dates!Unset}]
  BY <1>1
<1>3. planned \in Dates!Instants \cup {Dates!Unset}
  BY <1>1, <1>2, EarliestFacts
<1>4. stage \in [Accounts -> Dates!Status]
  BY <1>1 DEF Dates!Status
<1>5. published \in [Accounts -> 0..MaxTime \cup {Dates!Unset}] /\ 0 \in 0..MaxTime /\ 0 \in 0..MaxEdits
  BY <1>1, BoundAssumption
<1> QED BY <1>2, <1>3, <1>4, <1>5 DEF Dates!Init, DatesTyped, Dates!TypeOK

LEMMA DatesNext ==
  ASSUME DatesTyped, [Dates!Next]_dates
  PROVE  DatesTyped'
<1>1. CASE UNCHANGED dates
  BY <1>1 DEF dates, DatesTyped, Dates!TypeOK
<1>2. /\ now \in 0..MaxTime /\ zone \in -MaxOffset..MaxOffset
      /\ stage \in [Accounts -> Dates!Status]
      /\ due \in [Accounts -> Dates!Instants \cup {Dates!Unset}]
      /\ planned \in Dates!Instants \cup {Dates!Unset}
      /\ published \in [Accounts -> 0..MaxTime \cup {Dates!Unset}]
      /\ slot \in [Slots -> Dates!Slot \cup {Nil}]
      /\ scanned \in SUBSET Accounts
      /\ edits \in 0..MaxEdits /\ MaxEdits \in Nat /\ MaxTime \in Nat
  BY BoundAssumption DEF DatesTyped, Dates!TypeOK
<1>3. CASE Dates!Tick
  BY <1>2, <1>3 DEF Dates!Tick, DatesTyped, Dates!TypeOK
<1>4. CASE Dates!Scan
  BY <1>2, <1>4 DEF Dates!Scan, Dates!Pushed, DatesTyped, Dates!TypeOK
<1>5. CASE Dates!Repair
  <2>1. \A a \in Dates!Pushed : published[a] \in Dates!Instants
    <3> TAKE a \in Dates!Pushed
    <3>1. a \in Accounts /\ due[a] # Dates!Unset /\ published[a] # Dates!Unset /\ due[a] > published[a]
      BY DEF Dates!Pushed
    <3>2. due[a] \in Dates!Instants /\ published[a] \in 0..MaxTime
      BY <1>2, <3>1
    <3>3. Dates!Instants \subseteq Nat
      BY DatesFacts
    <3>4. due[a] \in Nat
      BY <3>2, <3>3
    <3>5. 0..MaxTime \subseteq Nat
      BY DatesFacts
    <3>6. published[a] \in Nat
      BY <3>2, <3>5
    <3>7. published[a] <= due[a]
      BY <3>1, <3>4, <3>6
    <3> QED BY <3>2, <3>6, <3>7, DatesFacts
  <2>2. due' \in [Accounts -> Dates!Instants \cup {Dates!Unset}]
    BY <1>2, <1>5, <2>1 DEF Dates!Repair
  <2>3. planned' \in Dates!Instants \cup {Dates!Unset}
    BY <1>5, <2>2, EarliestFacts DEF Dates!Repair
  <2> QED BY <1>2, <1>5, <2>2, <2>3 DEF Dates!Repair, DatesTyped, Dates!TypeOK
<1>6. ASSUME NEW a \in Accounts, Dates!Publish(a) PROVE DatesTyped'
  <2>1. published' \in [Accounts -> 0..MaxTime \cup {Dates!Unset}] /\ stage' \in [Accounts -> Dates!Status]
    BY <1>2, <1>6 DEF Dates!Publish, Dates!Status
  <2> QED BY <1>2, <1>6, <2>1 DEF Dates!Publish, DatesTyped, Dates!TypeOK
<1>7. ASSUME edits < MaxEdits, edits' = edits + 1, Dates!Edit PROVE DatesTyped'
  <2>1. edits' \in 0..MaxEdits
    BY <1>2, <1>7
  <2>2. ASSUME NEW scope \in SUBSET Accounts, NEW t \in Dates!Instants, Dates!Save(scope, t)
        PROVE  DatesTyped'
    <3>1. /\ due' \in [Accounts -> Dates!Instants \cup {Dates!Unset}]
          /\ stage' \in [Accounts -> Dates!Status] /\ planned' \in Dates!Instants \cup {Dates!Unset}
      BY <1>2, <2>2 DEF Dates!Save, Dates!Status
    <3> QED BY <1>2, <2>1, <2>2, <3>1 DEF Dates!Save, DatesTyped, Dates!TypeOK
  <2>3. ASSUME NEW a \in Accounts, Dates!Queue(a) PROVE DatesTyped'
    <3>1. /\ due' \in [Accounts -> Dates!Instants \cup {Dates!Unset}]
          /\ stage' \in [Accounts -> Dates!Status] /\ planned' = Dates!Earliest(due')
      BY <1>2, <2>3 DEF Dates!Queue, Dates!Status
    <3>2. planned' \in Dates!Instants \cup {Dates!Unset}
      BY <3>1, EarliestFacts
    <3> QED BY <1>2, <2>1, <2>3, <3>1, <3>2 DEF Dates!Queue, DatesTyped, Dates!TypeOK
  <2>4. ASSUME NEW a \in Accounts, NEW target \in Dates!Status, Dates!ChipTo(a, target) PROVE DatesTyped'
    BY <1>2, <2>1, <2>4 DEF Dates!ChipTo, DatesTyped, Dates!TypeOK
  <2>5. ASSUME NEW a \in Accounts, NEW cell \in Dates!Cells, NEW z \in -MaxOffset..MaxOffset,
               Dates!Drop(a, cell, z)
        PROVE  DatesTyped'
    <3>1. /\ due' \in [Accounts -> Dates!Instants \cup {Dates!Unset}]
          /\ stage' \in [Accounts -> Dates!Status] /\ planned' = Dates!Earliest(due')
      BY <1>2, <2>5 DEF Dates!Drop, Dates!Status
    <3>2. planned' \in Dates!Instants \cup {Dates!Unset}
      BY <3>1, EarliestFacts
    <3> QED BY <1>2, <2>1, <2>5, <3>1, <3>2 DEF Dates!Drop, DatesTyped, Dates!TypeOK
  <2>6. ASSUME NEW a \in Accounts, NEW d \in 0..(Week - 1), Dates!ToggleDay(a, d) PROVE DatesTyped'
    <3>1. PICK day \in SUBSET Slots, on \in BOOLEAN :
            /\ \A s \in day : slot[s] # Nil
            /\ slot' = [s \in Slots |-> IF s \in day THEN [slot[s] EXCEPT !.active = on] ELSE slot[s]]
      BY <2>6 DEF Dates!ToggleDay
    <3>2. \A s \in Slots : slot'[s] \in Dates!Slot \cup {Nil}
      BY <1>2, <3>1 DEF Dates!Slot
    <3>3. slot' \in [Slots -> Dates!Slot \cup {Nil}]
      BY <3>1, <3>2
    <3> QED BY <1>2, <2>1, <2>6, <3>3 DEF Dates!ToggleDay, DatesTyped, Dates!TypeOK
  <2>7. ASSUME NEW s \in Slots,
               NEW row \in [account : Accounts, day : 0..(Week - 1), hour : 0..(Hours - 1), active : {TRUE}],
               Dates!SaveSlot(s, row)
        PROVE  DatesTyped'
    <3>1. row \in Dates!Slot
      BY DEF Dates!Slot
    <3>2. slot' \in [Slots -> Dates!Slot \cup {Nil}]
      BY <1>2, <2>7, <3>1 DEF Dates!SaveSlot
    <3> QED BY <1>2, <2>1, <2>7, <3>2 DEF Dates!SaveSlot, DatesTyped, Dates!TypeOK
  <2>8. ASSUME NEW s \in Slots, Dates!DeleteSlot(s) PROVE DatesTyped'
    BY <1>2, <2>1, <2>8 DEF Dates!DeleteSlot, DatesTyped, Dates!TypeOK
  <2>9. ASSUME NEW s \in Slots, NEW h \in 0..(Hours - 1), Dates!MoveSlot(s, h) PROVE DatesTyped'
    <3>1. slot[s] \in Dates!Slot /\ slot' = [slot EXCEPT ![s].hour = h]
      BY <1>2, <2>9 DEF Dates!MoveSlot
    <3>2. [slot[s] EXCEPT !.hour = h] \in Dates!Slot
      BY <3>1 DEF Dates!Slot
    <3>3. slot' = [slot EXCEPT ![s] = [slot[s] EXCEPT !.hour = h]]
      BY <1>2, <3>1
    <3>4. slot' \in [Slots -> Dates!Slot \cup {Nil}]
      BY <1>2, <3>2, <3>3
    <3> QED BY <1>2, <2>1, <2>9, <3>4 DEF Dates!MoveSlot, DatesTyped, Dates!TypeOK
  <2> QED BY <1>7, <2>2, <2>3, <2>4, <2>5, <2>6, <2>7, <2>8, <2>9 DEF Dates!Edit
<1> QED BY <1>1, <1>3, <1>4, <1>5, <1>6, <1>7 DEF Dates!Next

\* NumDays and hours: what a division by the length of a day gives.
LEMMA Division ==
  ASSUME NEW t \in Int, NEW h \in Nat, h > 0
  PROVE  t \div h \in Int /\ t % h \in 0..(h - 1) /\ t = (t \div h) * h + (t % h)
OBVIOUS

LEMMA Multiple ==
  ASSUME NEW x \in Int, NEW y \in Int, NEW h \in Nat, h > 0
  PROVE  /\ x < y => x * h + h <= y * h
         /\ (x + y) * h = x * h + y * h /\ (x - y) * h = x * h - y * h
         /\ x * h \in Int /\ y * h \in Int
<1>1. (x + y) * h = x * h + y * h /\ (x - y) * h = x * h - y * h /\ x * h \in Int /\ y * h \in Int
  OBVIOUS
<1>2. ASSUME x < y PROVE x * h + h <= y * h
  <2>1. (y - x - 1) * h >= 0
    BY <1>2
  <2>2. (y - x - 1) * h = y * h - x * h - h
    OBVIOUS
  <2> QED BY <1>1, <2>1, <2>2
<1> QED BY <1>1, <1>2

LEMMA Division1 ==
  ASSUME NEW h \in Nat, h > 0, NEW q \in Int, NEW r \in 0..(h - 1)
  PROVE  (q * h + r) \div h = q /\ (q * h + r) % h = r
<1> DEFINE t == q * h + r
           p == t \div h
           s == t % h
<1>1. t \in Int /\ q * h \in Int
  OBVIOUS
<1>2. p \in Int /\ s \in 0..(h - 1) /\ t = p * h + s
  BY <1>1, Division
<1>3. p * h \in Int /\ q * h + r = p * h + s
  BY <1>2
<1> HIDE DEF p, s
<1>4. ~(p < q)
  <2> SUFFICES ASSUME p < q PROVE FALSE
    OBVIOUS
  <2>1. p * h + h <= q * h
    BY <1>2, Multiple
  <2> QED BY <1>1, <1>2, <1>3, <2>1
<1>5. ~(q < p)
  <2> SUFFICES ASSUME q < p PROVE FALSE
    OBVIOUS
  <2>1. q * h + h <= p * h
    BY <1>2, Multiple
  <2> QED BY <1>1, <1>2, <1>3, <2>1
<1>6. p = q
  BY <1>2, <1>4, <1>5
<1>7. s = r
  BY <1>1, <1>2, <1>3, <1>6
<1> QED BY <1>6, <1>7 DEF p, s

LEMMA DivisionGrows ==
  ASSUME NEW h \in Nat, h > 0, NEW t \in Int, NEW u \in Int
  PROVE  /\ t <= u => t \div h <= u \div h
         /\ t - h <= u => t \div h - 1 <= u \div h
<1>1. /\ t \div h \in Int /\ t % h \in 0..(h - 1) /\ t = (t \div h) * h + (t % h)
      /\ u \div h \in Int /\ u % h \in 0..(h - 1) /\ u = (u \div h) * h + (u % h)
  BY Division
<1> DEFINE x == t \div h
           y == u \div h
           v == t % h
           w == u % h
<1> HIDE DEF x, y, v, w
<1>2. x \in Int /\ y \in Int /\ v \in 0..(h - 1) /\ w \in 0..(h - 1) /\ t = x * h + v /\ u = y * h + w
  BY <1>1 DEF x, y, v, w
<1>3. x * h \in Int /\ y * h \in Int /\ (x - 1) * h = x * h - h
  BY <1>2
<1>4. ASSUME t <= u PROVE x <= y
  <2>1. y < x => y * h + h <= x * h
    BY <1>2, Multiple
  <2> QED BY <1>2, <1>3, <1>4, <2>1
<1>5. ASSUME t - h <= u PROVE x - 1 <= y
  <2>1. y < x - 1 => y * h + h <= (x - 1) * h
    BY <1>2, Multiple
  <2> QED BY <1>2, <1>3, <1>5, <2>1
<1> QED BY <1>4, <1>5 DEF x, y

LEMMA ZoneFacts ==
  /\ -MaxOffset..MaxOffset \subseteq Int
  /\ \A z \in -MaxOffset..MaxOffset : -Hours < z /\ z < Hours
BY DatesFacts

\* An instant and its date and hour in a zone are the same thing.
LEMMA WallFacts ==
  ASSUME NEW t \in Int, NEW z \in Int
  PROVE  /\ Dates!Date(t, z) \in Int /\ (t + z) % Hours \in 0..(Hours - 1)
         /\ Dates!Cell(t, z) = <<Dates!Date(t, z), (t + z) % Hours>>
         /\ Dates!Instant(Dates!Cell(t, z), z) = t
<1>1. Hours \in Nat /\ Hours > 0 /\ t + z \in Int
  BY DatesFacts
<1>2. /\ (t + z) \div Hours \in Int /\ (t + z) % Hours \in 0..(Hours - 1)
      /\ t + z = ((t + z) \div Hours) * Hours + ((t + z) % Hours)
  BY <1>1, Division
<1>3. Dates!Cell(t, z) = <<(t + z) \div Hours, (t + z) % Hours>>
  BY DEF Dates!Cell, Dates!Date
<1>4. Dates!Instant(Dates!Cell(t, z), z) = ((t + z) \div Hours) * Hours + ((t + z) % Hours) - z
  BY <1>3 DEF Dates!Instant
<1> QED BY <1>1, <1>2, <1>3, <1>4 DEF Dates!Date

LEMMA SameCell ==
  ASSUME NEW t \in Int, NEW u \in Int, NEW z \in Int, Dates!Cell(t, z) = Dates!Cell(u, z)
  PROVE  t = u
BY WallFacts

LEMMA CellFacts ==
  ASSUME NEW d \in Int, NEW h \in 0..(Hours - 1), NEW z \in Int
  PROVE  /\ Dates!Instant(<<d, h>>, z) \in Int
         /\ Dates!Cell(Dates!Instant(<<d, h>>, z), z) = <<d, h>>
         /\ Dates!Date(Dates!Instant(<<d, h>>, z), z) = d
<1>1. Hours \in Nat /\ Hours > 0
  BY DatesFacts
<1>2. d * Hours \in Int /\ h \in Int
  BY <1>1
<1>3. Dates!Instant(<<d, h>>, z) = d * Hours + h - z
  BY DEF Dates!Instant
<1>4. Dates!Instant(<<d, h>>, z) \in Int /\ Dates!Instant(<<d, h>>, z) + z = d * Hours + h
  BY <1>2, <1>3
<1>5. (d * Hours + h) \div Hours = d /\ (d * Hours + h) % Hours = h
  BY <1>1, Division1
<1> QED BY <1>4, <1>5 DEF Dates!Cell, Dates!Date

\* A day earlier or later at most, in zones a day apart at most.
LEMMA DateMoves ==
  ASSUME NEW t \in Int, NEW y \in Int, NEW z \in Int, y - z \in -Hours..Hours
  PROVE  Dates!Date(t, z) \in (Dates!Date(t, y) - 1)..(Dates!Date(t, y) + 1)
<1>1. Hours \in Nat /\ Hours > 0 /\ t + y \in Int /\ t + z \in Int
  BY DatesFacts
<1>2. t + y - Hours <= t + z /\ t + z - Hours <= t + y
  BY <1>1
<1>3. (t + y) \div Hours - 1 <= (t + z) \div Hours /\ (t + z) \div Hours - 1 <= (t + y) \div Hours
  BY <1>1, <1>2, DivisionGrows
<1>4. (t + y) \div Hours \in Int /\ (t + z) \div Hours \in Int
  BY <1>1, Division
<1> QED BY <1>3, <1>4 DEF Dates!Date

\* A window is the days from its first to its last, within the horizon.
WindowOf(W, first, last) ==
  /\ first \in Int /\ last \in Int /\ first <= last /\ W = first..last
  /\ Dates!FirstDay(W) = first /\ Dates!LastDay(W) = last

LEMMA WindowMade ==
  ASSUME NEW first \in Int, NEW last \in Int, first <= last
  PROVE  WindowOf(first..last, first, last)
<1> DEFINE W == first..last
<1>1. first \in W /\ last \in W /\ (\A d \in W : first <= d) /\ (\A d \in W : d <= last) /\ W \subseteq Int
  OBVIOUS
<1> HIDE DEF W
<1>2. \A d \in W : (\A e \in W : d <= e) => d = first
  BY <1>1
<1>3. \A d \in W : (\A e \in W : e <= d) => d = last
  BY <1>1
<1>4. Dates!FirstDay(W) = first
  BY <1>1, <1>2 DEF Dates!FirstDay, Dates!Least
<1>5. Dates!LastDay(W) = last
  BY <1>1, <1>3 DEF Dates!LastDay
<1> QED BY <1>4, <1>5 DEF WindowOf, W

LEMMA RunsFacts ==
  ASSUME NEW d \in Int, NEW n \in Nat, n > 0
  PROVE  (d \div n) * n \in Int /\ (d \div n) * n <= d /\ d < (d \div n) * n + n
<1>1. d \div n \in Int /\ d % n \in 0..(n - 1) /\ d = (d \div n) * n + (d % n)
  BY Division
<1>2. (d \div n) * n \in Int
  BY <1>1
<1> QED BY <1>1, <1>2

LEMMA WindowFacts ==
  ASSUME NEW W \in Dates!Windows
  PROVE  \E first, last \in Int :
           WindowOf(W, first, last) /\ first < NumDays /\ last + 1 <= Dates!Horizon
<1>1. PICK d \in -1..(NumDays - 1) : W \in {Dates!DayView(d), Dates!WeekView(d), Dates!MonthView(d)}
  BY DEF Dates!Windows
<1>2. d \in Int /\ d < NumDays /\ NumDays \in Nat /\ Week \in Nat /\ Week > 0 /\ 2 * Week \in Nat /\ 2 * Week > 0
  BY DatesFacts
<1>3. Dates!Horizon = NumDays + 2 * Week
  BY DEF Dates!Horizon
<1>4. CASE W = Dates!DayView(d)
  <2>1. W = d..d
    BY <1>2, <1>4 DEF Dates!DayView
  <2>2. WindowOf(W, d, d)
    BY <1>2, <2>1, WindowMade
  <2>3. d + 1 <= Dates!Horizon
    BY <1>2, <1>3
  <2> QED BY <1>2, <2>2, <2>3
<1>5. CASE W = Dates!WeekView(d)
  <2> DEFINE first == (d \div Week) * Week
             last == first + Week - 1
  <2>1. first \in Int /\ first <= d
    BY <1>2, RunsFacts
  <2>2. W = first..last
    BY <1>5 DEF Dates!WeekView
  <2> HIDE DEF first
  <2>3. last \in Int /\ first < NumDays /\ first <= last /\ last + 1 <= Dates!Horizon
    BY <1>2, <1>3, <2>1
  <2> HIDE DEF last
  <2>4. WindowOf(W, first, last)
    BY <2>1, <2>2, <2>3, WindowMade
  <2> QED BY <2>1, <2>3, <2>4
<1>6. CASE W = Dates!MonthView(d)
  <2> DEFINE first == (d \div (2 * Week)) * 2 * Week
             last == first + 2 * Week - 1
  <2>1. d \div (2 * Week) \in Int
    BY <1>2, Division
  <2>2. first = (d \div (2 * Week)) * (2 * Week)
    BY <1>2, <2>1
  <2>3. first \in Int /\ first <= d
    BY <1>2, <2>2, RunsFacts
  <2>4. W = first..last
    BY <1>6 DEF Dates!MonthView
  <2> HIDE DEF first
  <2>5. last \in Int /\ first < NumDays /\ first <= last /\ last + 1 <= Dates!Horizon
    BY <1>2, <1>3, <2>3
  <2> HIDE DEF last
  <2>6. WindowOf(W, first, last)
    BY <2>3, <2>4, <2>5, WindowMade
  <2> QED BY <2>3, <2>5, <2>6
<1> QED BY <1>1, <1>4, <1>5, <1>6

LEMMA EffectiveFacts ==
  ASSUME DatesTyped, NEW a \in Accounts
  PROVE  /\ Dates!Effective(a) \in Dates!Instants \cup {Dates!Unset}
         /\ Dates!Effective(a) # Dates!Unset => Dates!Effective(a) \in Nat
<1>1. due[a] \in Dates!Instants \cup {Dates!Unset} /\ planned \in Dates!Instants \cup {Dates!Unset}
  BY DEF DatesTyped, Dates!TypeOK
<1> QED BY <1>1, DatesFacts DEF Dates!Effective

\* A grid shows a child on the day it is due, in any zone.
LEMMA GridChips ==
  ASSUME DatesTyped, NEW W \in Dates!Windows, NEW z \in -MaxOffset..MaxOffset, NEW a \in Accounts
  PROVE  /\ (a \in Dates!Chips(W, z))
              = (Dates!Effective(a) # Dates!Unset /\ Dates!Date(Dates!Effective(a), z) \in W)
         /\ Dates!Effective(a) # Dates!Unset /\ Dates!Date(Dates!Effective(a), z) \in W
              => a \in Dates!Fetched(W)
         /\ a \in Dates!Fetched(W) => Dates!Effective(a) # Dates!Unset
<1>1. PICK first, last \in Int : WindowOf(W, first, last)
  BY WindowFacts
<1>2. ASSUME Dates!Effective(a) # Dates!Unset, Dates!Date(Dates!Effective(a), z) \in W
      PROVE  a \in Dates!Fetched(W)
  <2> DEFINE t == Dates!Effective(a)
  <2>1. t \in Int
    BY <1>2, EffectiveFacts
  <2> HIDE DEF t
  <2>2. z \in Int /\ z - Dates!UTC \in -Hours..Hours /\ Dates!UTC \in Int
    BY ZoneFacts, DatesFacts DEF Dates!UTC
  <2>3. Dates!Date(t, Dates!UTC) \in (Dates!Date(t, z) - 1)..(Dates!Date(t, z) + 1)
    BY <2>1, <2>2, DateMoves
  <2>4. Dates!Date(t, z) \in first..last /\ Dates!Date(t, z) \in Int
    BY <1>1, <1>2, <2>1, <2>2, WallFacts DEF WindowOf, t
  <2>5. Dates!Date(t, Dates!UTC) \in (first - 1)..(last + 1)
    BY <1>1, <2>3, <2>4
  <2> QED BY <1>1, <1>2, <2>5 DEF Dates!Fetched, WindowOf, t
<1> QED BY <1>2 DEF Dates!Chips, Dates!Fetched

\* A slot comes round at an instant: on its day and at its hour.
Comes(a, t) ==
  \E s \in Slots :
    /\ slot[s] # Nil /\ slot[s].account = a /\ slot[s].active
    /\ slot[s].day = Dates!Date(t, zone) % Week
    /\ slot[s].hour = (t + zone) % Hours

LEMMA OccurrenceFacts ==
  ASSUME DatesTyped, NEW a \in Accounts, NEW dates1 \in SUBSET Int
  PROVE  Dates!Occurrences(a, dates1) = {t \in Nat : Dates!Date(t, zone) \in dates1 /\ Comes(a, t)}
<1> DEFINE on(d) == {s \in Slots : /\ slot[s] # Nil
                                   /\ slot[s].account = a /\ slot[s].active
                                   /\ slot[s].day = d % Week}
<1>1. \A t : t \in Dates!Occurrences(a, dates1)
               <=> /\ t \in Nat
                   /\ \E d \in dates1 : \E s \in on(d) : t = Dates!Instant(<<d, slot[s].hour>>, zone)
  <2> DEFINE at(d) == {Dates!Instant(<<d, slot[s].hour>>, zone) : s \in on(d)}
  <2>1. Dates!Occurrences(a, dates1) = (UNION {at(d) : d \in dates1}) \cap Nat
    BY DEF Dates!Occurrences
  <2>2. \A d, t : t \in at(d) <=> \E s \in on(d) : t = Dates!Instant(<<d, slot[s].hour>>, zone)
    OBVIOUS
  <2> HIDE DEF at
  <2>3. \A t : t \in UNION {at(d) : d \in dates1} <=> \E d \in dates1 : t \in at(d)
    BY Zenon
  <2>4. \A t : t \in Dates!Occurrences(a, dates1) <=> t \in Nat /\ \E d \in dates1 : t \in at(d)
    BY <2>1, <2>3, Zenon
  <2> QED BY <2>2, <2>4
<1>2. zone \in Int
  BY ZoneFacts DEF DatesTyped, Dates!TypeOK
<1>3. \A s \in Slots : slot[s] # Nil => slot[s].hour \in 0..(Hours - 1)
  BY DEF DatesTyped, Dates!TypeOK, Dates!Slot
<1>4. ASSUME NEW t \in Dates!Occurrences(a, dates1)
      PROVE  t \in Nat /\ Dates!Date(t, zone) \in dates1 /\ Comes(a, t)
  <2>5. PICK d \in dates1 : \E s \in on(d) : t = Dates!Instant(<<d, slot[s].hour>>, zone) /\ t \in Nat
    BY <1>1, <1>4
  <2>1. PICK s \in on(d) : t = Dates!Instant(<<d, slot[s].hour>>, zone) /\ t \in Nat
    BY <2>5
  <2>2. slot[s].hour \in 0..(Hours - 1) /\ d \in Int
    BY <1>3
  <2>3. Dates!Cell(t, zone) = <<d, slot[s].hour>> /\ Dates!Date(t, zone) = d
    BY <1>2, <2>1, <2>2, CellFacts
  <2>4. (t + zone) % Hours = slot[s].hour
    BY <2>3 DEF Dates!Cell
  <2> QED BY <2>1, <2>3, <2>4 DEF Comes
<1>5. ASSUME NEW t \in Nat, Dates!Date(t, zone) \in dates1, Comes(a, t)
      PROVE  t \in Dates!Occurrences(a, dates1)
  <2> DEFINE d == Dates!Date(t, zone)
  <2>1. PICK s \in on(d) : slot[s].hour = (t + zone) % Hours
    BY <1>5 DEF Comes
  <2>3. t \in Int
    OBVIOUS
  <2>4. Dates!Cell(t, zone) = <<d, (t + zone) % Hours>> /\ Dates!Instant(Dates!Cell(t, zone), zone) = t
    BY <1>2, <2>3, WallFacts
  <2>2. t = Dates!Instant(<<d, slot[s].hour>>, zone)
    BY <2>1, <2>4
  <2> QED BY <1>1, <1>5, <2>1, <2>2
<1> QED BY <1>4, <1>5

\* No date of an instant lies before the day before the first.
LEMMA FirstDates ==
  ASSUME DatesTyped, NEW t \in Nat
  PROVE  Dates!Date(t, zone) \in Int /\ -1 <= Dates!Date(t, zone)
<1>1. zone \in Int /\ -Hours < zone /\ t + zone \in Int /\ Hours \in Nat /\ Hours > 0
  BY ZoneFacts, DatesFacts DEF DatesTyped, Dates!TypeOK
<1>2. 0 \div Hours = 0 /\ 0 - Hours <= t + zone
  BY <1>1
<1>3. 0 \div Hours - 1 <= (t + zone) \div Hours
  BY <1>1, <1>2, DivisionGrows
<1>4. (t + zone) \div Hours \in Int
  BY <1>1, Division
<1> QED BY <1>2, <1>3, <1>4 DEF Dates!Date

\* The open slots of a window are the instants its account's slots come round
\* at on its days, except that of the account's child.
LEMMA OpenSlotFacts ==
  ASSUME DatesTyped, NEW W \in Dates!Windows, NEW z \in -MaxOffset..MaxOffset, NEW a \in Accounts,
         zone - z \in -Hours..Hours
  PROVE  Dates!OpenSlots(W, z, a)
           = {t \in Nat : Dates!Date(t, z) \in W /\ Comes(a, t) /\ t # Dates!Effective(a)}
<1>1. PICK first, last \in Int : WindowOf(W, first, last)
  BY WindowFacts
<1>2. zone \in Int /\ z \in Int
  BY ZoneFacts DEF DatesTyped, Dates!TypeOK
<1> DEFINE span == (first - 1)..(last + 1)
           taken == {Dates!Cell(Dates!Effective(c), z) : c \in Dates!Fetched(W) \cap {a}}
<1>3. Dates!OpenSlots(W, z, a)
        = {t \in Dates!Occurrences(a, span) : Dates!Date(t, z) \in W /\ Dates!Cell(t, z) \notin taken}
  BY <1>1 DEF Dates!OpenSlots, WindowOf
<1>4. Dates!Occurrences(a, span) = {t \in Nat : Dates!Date(t, zone) \in span /\ Comes(a, t)}
  <2>1. span \in SUBSET Int
    OBVIOUS
  <2> HIDE DEF span
  <2> QED BY <2>1, OccurrenceFacts
<1>5. ASSUME NEW t \in Nat, Dates!Date(t, z) \in W PROVE Dates!Date(t, zone) \in span
  <2>1. z - zone \in -Hours..Hours
    BY <1>2, DatesFacts
  <2>2. Dates!Date(t, zone) \in (Dates!Date(t, z) - 1)..(Dates!Date(t, z) + 1) /\ Dates!Date(t, z) \in Int
    <3>1. t \in Int
      OBVIOUS
    <3>2. Dates!Date(t, zone) \in (Dates!Date(t, z) - 1)..(Dates!Date(t, z) + 1)
      BY <1>2, <2>1, <3>1, DateMoves
    <3> QED BY <1>2, <3>1, <3>2, WallFacts
  <2>3. Dates!Date(t, z) \in first..last
    BY <1>1, <1>5 DEF WindowOf
  <2> QED BY <1>1, <2>2, <2>3
<1>6. ASSUME NEW t \in Nat, Dates!Date(t, z) \in W
      PROVE  Dates!Cell(t, z) \notin taken <=> t # Dates!Effective(a)
  <2>1. ASSUME t = Dates!Effective(a) PROVE Dates!Cell(t, z) \in taken
    <3>1. t # Dates!Unset
      BY DatesFacts
    <3>2. a \in Dates!Fetched(W)
      BY <1>6, <2>1, <3>1, GridChips
    <3> QED BY <2>1, <3>2
  <2>2. ASSUME Dates!Cell(t, z) \in taken PROVE t = Dates!Effective(a)
    <3>1. a \in Dates!Fetched(W) /\ Dates!Cell(t, z) = Dates!Cell(Dates!Effective(a), z)
      BY <2>2
    <3>2. Dates!Effective(a) \in Int
      BY <3>1, GridChips, EffectiveFacts
    <3> QED BY <1>2, <3>1, <3>2, SameCell
  <2> QED BY <2>1, <2>2
<1> QED BY <1>3, <1>4, <1>5, <1>6

LEMMA GridsHold == DatesTyped => Dates!GridsAreComplete
<1> SUFFICES ASSUME DatesTyped PROVE Dates!GridsAreComplete
  OBVIOUS
<1> SUFFICES ASSUME NEW W \in Dates!Windows, NEW z \in -MaxOffset..MaxOffset, zone - z \in -Hours..Hours,
                    NEW a \in Accounts
             PROVE  Dates!OpenSlots(W, z, a) =
                      {t \in Dates!Occurrences(a, -1..Dates!Horizon) :
                         Dates!Date(t, z) \in W /\ t # Dates!Effective(a)}
  BY GridChips DEF Dates!GridsAreComplete
<1>1. PICK first, last \in Int : WindowOf(W, first, last) /\ last + 1 <= Dates!Horizon
  BY WindowFacts
<1>2. Dates!Horizon \in Int /\ -1..Dates!Horizon \in SUBSET Int
  BY DatesFacts DEF Dates!Horizon
<1>3. Dates!Occurrences(a, -1..Dates!Horizon)
        = {t \in Nat : Dates!Date(t, zone) \in -1..Dates!Horizon /\ Comes(a, t)}
  BY <1>2, OccurrenceFacts
<1>4. ASSUME NEW t \in Nat, Dates!Date(t, z) \in W PROVE Dates!Date(t, zone) \in -1..Dates!Horizon
  <2>1. zone \in Int /\ z \in Int /\ z - zone \in -Hours..Hours
    BY ZoneFacts, DatesFacts DEF DatesTyped, Dates!TypeOK
  <2>2. Dates!Date(t, zone) \in (Dates!Date(t, z) - 1)..(Dates!Date(t, z) + 1) /\ Dates!Date(t, z) \in Int
    <3>1. t \in Int
      OBVIOUS
    <3>2. Dates!Date(t, zone) \in (Dates!Date(t, z) - 1)..(Dates!Date(t, z) + 1)
      BY <2>1, <3>1, DateMoves
    <3> QED BY <2>1, <3>1, <3>2, WallFacts
  <2>3. Dates!Date(t, z) <= last
    BY <1>1, <1>4 DEF WindowOf
  <2>4. -1 <= Dates!Date(t, zone) /\ Dates!Date(t, zone) \in Int
    BY FirstDates
  <2> QED BY <1>1, <1>2, <2>2, <2>3, <2>4
<1> QED BY <1>3, <1>4, OpenSlotFacts

LEMMA DatesCount == ASSUME NEW S PROVE Dates!Cardinality(S) = Cardinality(S)
BY SMT DEF Dates!Cardinality, Cardinality

\* An account's slots after now, as the queue looks for them.
LEMMA QueueHolds == DatesTyped => Dates!QueueOffersTheFirstOpen
<1> SUFFICES ASSUME DatesTyped, NEW a \in Accounts, due[a] # Dates!Unset \/ planned = Dates!Unset,
                    stage[a] \notin Dates!Protected
             PROVE  LET open == {t \in UNION {Dates!OpenSlots(W, zone, a) : W \in Dates!Windows} : t > now}
                    IN open # {} => Dates!NextAvailable(a) = Dates!Least(open)
  BY DEF Dates!QueueOffersTheFirstOpen
<1> DEFINE open == {t \in UNION {Dates!OpenSlots(W, zone, a) : W \in Dates!Windows} : t > now}
           m == Dates!Least(open)
           today1 == Dates!Date(now, zone)
           after == {t \in Dates!Occurrences(a, today1..(today1 + Dates!Horizon)) : t > now}
           seen == {t \in after :
                      Dates!Cardinality({u \in after : u < t}) < Dates!Cardinality(Dates!Occupied(a)) + 1}
           free == seen \ Dates!Occupied(a)
<1>1. /\ now \in Nat /\ zone \in -MaxOffset..MaxOffset /\ zone \in Int /\ zone - zone \in -Hours..Hours
      /\ due[a] \in Int
  <2>1. now \in 0..MaxTime /\ zone \in -MaxOffset..MaxOffset /\ due[a] \in Dates!Instants \cup {Dates!Unset}
    BY DEF DatesTyped, Dates!TypeOK
  <2>2. zone \in Int
    BY <2>1, ZoneFacts
  <2>3. zone - zone \in -Hours..Hours
    <3>1. zone - zone = 0
      BY <2>2
    <3> QED BY <3>1, DatesFacts
  <2>4. due[a] \in Int
    <3>1. Dates!Instants \subseteq Nat /\ Dates!Unset = -1
      BY DatesFacts
    <3>2. due[a] \in Dates!Instants => due[a] \in Nat
      BY <3>1
    <3>3. due[a] = Dates!Unset => due[a] = -1
      BY <3>1
    <3> QED BY <2>1, <3>2, <3>3
  <2> QED BY <2>1, <2>2, <2>3, <2>4, DatesFacts
<1>2. Dates!Effective(a) = due[a]
  BY DEF Dates!Effective
<1>3. Dates!Occupied(a) = IF due[a] > now THEN {due[a]} ELSE {}
  BY DEF Dates!Occupied
<1>4. \A t : t \in open <=>
        /\ t \in Nat /\ t > now /\ Comes(a, t) /\ t # due[a]
        /\ \E W \in Dates!Windows : Dates!Date(t, zone) \in W
  <2> DEFINE shown(W) == Dates!OpenSlots(W, zone, a)
  <2>1. \A t : t \in UNION {shown(W) : W \in Dates!Windows}
                 <=> \E W \in Dates!Windows : t \in shown(W)
    BY Zenon
  <2>2. \A W \in Dates!Windows :
          shown(W) = {t \in Nat : Dates!Date(t, zone) \in W /\ Comes(a, t) /\ t # due[a]}
    BY <1>1, <1>2, OpenSlotFacts
  <2> HIDE DEF shown
  <2>3. \A t, W : W \in Dates!Windows =>
          (t \in shown(W) <=> t \in Nat /\ Dates!Date(t, zone) \in W /\ Comes(a, t) /\ t # due[a])
    BY <2>2
  <2>4. \A t : t \in open <=> t > now /\ \E W \in Dates!Windows : t \in shown(W)
    BY <2>1, Zenon DEF shown
  <2> HIDE DEF open
  <2> QED BY <2>3, <2>4
<1>5. /\ today1 \in Int /\ -1 <= today1 /\ Dates!Horizon \in Nat /\ NumDays \in Int
      /\ Dates!Horizon = NumDays + 2 * Week /\ NumDays \in Nat
  BY <1>1, FirstDates, DatesFacts DEF Dates!Horizon
<1>6. \A t : t \in after <=>
        t \in Nat /\ t > now /\ Comes(a, t) /\ Dates!Date(t, zone) \in today1..(today1 + Dates!Horizon)
  <2>1. today1..(today1 + Dates!Horizon) \in SUBSET Int
    BY <1>5
  <2> HIDE DEF today1
  <2> QED BY <2>1, OccurrenceFacts
<1>7. ASSUME NEW t \in Nat, t > now PROVE Dates!Date(t, zone) \in Int /\ today1 <= Dates!Date(t, zone)
  <2>1. now + zone \in Int /\ t + zone \in Int /\ now + zone <= t + zone /\ Hours \in Nat /\ Hours > 0
    BY <1>1, <1>7, DatesFacts
  <2>2. (now + zone) \div Hours <= (t + zone) \div Hours
    BY <2>1, DivisionGrows
  <2> QED BY <1>1, <1>7, <2>2, FirstDates DEF Dates!Date
\* What is open is after now, and what comes round before an open slot is open.
<1>8. open \subseteq after
  <2> SUFFICES ASSUME NEW t \in open PROVE t \in after
    OBVIOUS
  <2>1. PICK W \in Dates!Windows : Dates!Date(t, zone) \in W
    BY <1>4
  <2>2. PICK first, last \in Int : WindowOf(W, first, last) /\ last + 1 <= Dates!Horizon
    BY WindowFacts
  <2>3. t \in Nat /\ t > now /\ Comes(a, t)
    BY <1>4
  <2>4. Dates!Date(t, zone) \in Int /\ today1 <= Dates!Date(t, zone)
    BY <1>7, <2>3
  <2>5. Dates!Date(t, zone) <= last
    BY <2>1, <2>2 DEF WindowOf
  <2> HIDE DEF today1, open, after
  <2>6. Dates!Date(t, zone) \in today1..(today1 + Dates!Horizon)
    BY <1>5, <2>2, <2>4, <2>5
  <2> QED BY <1>6, <2>3, <2>6
<1>9. ASSUME NEW t \in open, NEW u \in after, u < t, u # due[a] PROVE u \in open
  <2>1. PICK W \in Dates!Windows : Dates!Date(t, zone) \in W
    BY <1>4
  <2>2. PICK first, last \in Int : WindowOf(W, first, last) /\ first < NumDays
    BY WindowFacts
  <2>3. t \in Nat /\ u \in Nat /\ u > now /\ Comes(a, u)
    BY <1>4, <1>6
  <2>4. Dates!Date(u, zone) \in Int /\ -1 <= Dates!Date(u, zone)
    BY <2>3, FirstDates
  <2>5. Dates!Date(u, zone) <= Dates!Date(t, zone)
    <3>1. u + zone \in Int /\ t + zone \in Int /\ u + zone <= t + zone /\ Hours \in Nat /\ Hours > 0
      BY <1>1, <1>9, <2>3, DatesFacts
    <3> QED BY <3>1, DivisionGrows DEF Dates!Date
  <2>6. Dates!Date(t, zone) \in first..last
    BY <2>1, <2>2 DEF WindowOf
  <2>7. \E V \in Dates!Windows : Dates!Date(u, zone) \in V
    <3>1. CASE Dates!Date(u, zone) < NumDays
      <4>1. Dates!Date(u, zone) \in -1..(NumDays - 1)
        BY <1>5, <2>4, <3>1
      <4>2. Dates!DayView(Dates!Date(u, zone)) \in Dates!Windows
        BY <4>1 DEF Dates!Windows
      <4> QED BY <4>2 DEF Dates!DayView
    <3>2. CASE ~(Dates!Date(u, zone) < NumDays)
      <4>1. Dates!Date(u, zone) \in first..last
        BY <1>5, <2>2, <2>4, <2>5, <2>6, <3>2
      <4> QED BY <2>2, <4>1 DEF WindowOf
    <3> QED BY <3>1, <3>2
  <2> HIDE DEF open, after
  <2> QED BY <1>4, <1>9, <2>3, <2>7
<1> SUFFICES ASSUME open # {} PROVE Dates!NextAvailable(a) = m
  OBVIOUS
<1>10. m \in open /\ \A t \in open : m <= t
  <2>1. open \in SUBSET Nat
    BY <1>4
  <2> HIDE DEF open
  <2> QED BY <2>1, DatesLeast
<1> HIDE DEF open, m, after
<1>11. m \in after /\ m \in Nat /\ m # due[a] /\ m \notin Dates!Occupied(a)
  BY <1>3, <1>4, <1>8, <1>10
<1>12. m \in seen
  <2> DEFINE before == {u \in after : u < m}
  <2>1. before \subseteq Dates!Occupied(a)
    <3> SUFFICES ASSUME NEW u \in after, u < m PROVE u \in Dates!Occupied(a)
      OBVIOUS
    <3>1. u \in Nat /\ u > now
      BY <1>6
    <3>2. u = due[a]
      BY <1>9, <1>10, <1>11, <3>1
    <3> QED BY <1>3, <3>1, <3>2
  <2> HIDE DEF before
  <2>2. IsFiniteSet(Dates!Occupied(a))
    BY <1>3, FS_Singleton, FS_EmptySet
  <2>3. Cardinality(before) <= Cardinality(Dates!Occupied(a)) /\ IsFiniteSet(before)
    BY <2>1, <2>2, FS_Subset
  <2>4. Cardinality(before) \in Nat /\ Cardinality(Dates!Occupied(a)) \in Nat
    BY <2>2, <2>3, FS_CardinalityType
  <2>5. Dates!Cardinality(before) < Dates!Cardinality(Dates!Occupied(a)) + 1
    BY <2>3, <2>4, DatesCount
  <2> QED BY <1>11, <2>5 DEF before
<1>13. m \in free
  BY <1>11, <1>12
<1>14. ASSUME NEW u \in free PROVE u \in Nat /\ m <= u
  <2>1. u \in after /\ u \notin Dates!Occupied(a)
    BY <1>14
  <2>2. u \in Nat /\ u > now
    BY <1>6, <2>1
  <2>3. u # due[a]
    BY <1>3, <2>1, <2>2
  <2>4. ~(u < m)
    BY <1>9, <1>10, <1>11, <2>1, <2>2, <2>3
  <2> QED BY <1>11, <2>2, <2>4
<1>15. Dates!NextAvailable(a) = IF free = {} THEN Dates!Unset ELSE Dates!Least(free)
  BY DEF Dates!NextAvailable, after
<1> HIDE DEF free
<1>16. Dates!Least(free) = m
  <2>1. free \in SUBSET Nat /\ free # {}
    BY <1>13, <1>14
  <2>2. Dates!Least(free) \in free /\ \A k \in free : Dates!Least(free) <= k
    BY <2>1, DatesLeast
  <2> QED BY <1>11, <1>13, <1>14, <2>2
<1> QED BY <1>13, <1>15, <1>16

\* A child has one of the statuses the tabs are for.
LEMMA TabsHold == DatesTyped => Dates!EveryChildHasItsTab
<1> SUFFICES ASSUME DatesTyped, NEW a \in Accounts PROVE Dates!Cardinality(Dates!TabsOf(a)) = 1
  BY DEF Dates!EveryChildHasItsTab
<1>1. stage[a] \in {"draft", "pending_review", "scheduled", "published", "failed"}
  BY DEF DatesTyped, Dates!TypeOK, Dates!Status
<1>2. /\ DOMAIN Dates!TabStatus = {"queue", "drafts", "sent", "approvals"}
      /\ Dates!TabStatus["queue"] = {"scheduled"} /\ Dates!TabStatus["drafts"] = {"draft"}
      /\ Dates!TabStatus["sent"] = {"published", "failed"}
      /\ Dates!TabStatus["approvals"] = {"pending_review"}
  BY DEF Dates!TabStatus
<1>3. \E tab \in DOMAIN Dates!TabStatus : Dates!TabsOf(a) = {tab}
  <2>1. CASE stage[a] = "draft"
    <3>1. Dates!TabsOf(a) = {"drafts"}
      BY <1>2, <2>1 DEF Dates!TabsOf
    <3> QED BY <1>2, <3>1
  <2>2. CASE stage[a] = "pending_review"
    <3>1. Dates!TabsOf(a) = {"approvals"}
      BY <1>2, <2>2 DEF Dates!TabsOf
    <3> QED BY <1>2, <3>1
  <2>3. CASE stage[a] = "scheduled"
    <3>1. Dates!TabsOf(a) = {"queue"}
      BY <1>2, <2>3 DEF Dates!TabsOf
    <3> QED BY <1>2, <3>1
  <2>4. CASE stage[a] \in {"published", "failed"}
    <3>1. Dates!TabsOf(a) = {"sent"}
      BY <1>2, <2>4 DEF Dates!TabsOf
    <3> QED BY <1>2, <3>1
  <2> QED BY <1>1, <2>1, <2>2, <2>3, <2>4
<1> QED BY <1>3, FS_Singleton, DatesCount

\* A drop's two conversions, to the workspace's clock and back, lose nothing.
LEMMA DropLands ==
  ASSUME DatesTyped, NEW a \in Accounts, NEW cell \in Dates!Cells, NEW z \in -MaxOffset..MaxOffset,
         Dates!Drop(a, cell, z)
  PROVE  Dates!Cell(due'[a], z) = cell
<1>1. PICK d \in 0..(NumDays - 1), h \in 0..(Hours - 1) : cell = <<d, h>>
  BY DEF Dates!Cells
<1>2. d \in Int /\ z \in Int /\ zone \in Int
  BY ZoneFacts, DatesFacts DEF DatesTyped, Dates!TypeOK
<1> DEFINE t == Dates!Instant(cell, z)
<1>3. t \in Int /\ Dates!Cell(t, z) = cell
  BY <1>1, <1>2, CellFacts
<1>4. Dates!Instant(Dates!ComposeParams(cell, z), zone) = t
  <2>1. Dates!ComposeParams(cell, z) = Dates!Cell(t, zone)
    BY DEF Dates!ComposeParams
  <2> HIDE DEF t
  <2> QED BY <1>2, <1>3, <2>1, WallFacts
<1>5. due'[a] = Dates!Instant(Dates!ComposeParams(cell, z), zone)
  <2>1. due \in [Accounts -> Dates!Instants \cup {Dates!Unset}]
    BY DEF DatesTyped, Dates!TypeOK
  <2> QED BY <2>1 DEF Dates!Drop
<1> QED BY <1>3, <1>4, <1>5

\* A post has a time of its own whenever one of its children has.
Follows == \A a \in Accounts : due[a] # Dates!Unset => planned # Dates!Unset

LEMMA EarliestFollows ==
  ASSUME NEW times \in [Accounts -> Dates!Instants \cup {Dates!Unset}], NEW a \in Accounts,
         times[a] # Dates!Unset
  PROVE  Dates!Earliest(times) # Dates!Unset
<1> DEFINE set == {times[c] : c \in Accounts} \ {Dates!Unset}
<1>1. set \in SUBSET Dates!Instants /\ set # {}
  OBVIOUS
<1>2. Dates!Earliest(times) = Dates!Least(set)
  BY <1>1 DEF Dates!Earliest
<1> HIDE DEF set
<1>3. set \in SUBSET Nat
  BY <1>1, DatesFacts
<1>4. Dates!Least(set) \in set
  BY <1>1, <1>3, DatesLeast
<1> QED BY <1>1, <1>2, <1>4, DatesFacts

DatesInv == DatesTyped /\ Follows

LEMMA DatesStarts == Dates!Init => DatesInv
<1> SUFFICES ASSUME Dates!Init PROVE DatesInv
  OBVIOUS
<1>1. DatesTyped /\ planned = Dates!Earliest(due)
  BY DatesInit DEF Dates!Init
<1>2. due \in [Accounts -> Dates!Instants \cup {Dates!Unset}]
  BY <1>1 DEF DatesTyped, Dates!TypeOK
<1> QED BY <1>1, <1>2, EarliestFollows DEF DatesInv, Follows

LEMMA DatesStays ==
  ASSUME DatesInv, [Dates!Next]_dates
  PROVE  DatesInv'
<1>1. DatesTyped /\ DatesTyped' /\ Follows
  BY DatesNext DEF DatesInv
<1>2. due' \in [Accounts -> Dates!Instants \cup {Dates!Unset}]
  BY <1>1 DEF DatesTyped, Dates!TypeOK
<1>3. CASE planned' = Dates!Earliest(due')
  <2> SUFFICES ASSUME NEW a \in Accounts, due'[a] # Dates!Unset PROVE planned' # Dates!Unset
    BY <1>1 DEF DatesInv, Follows
  <2> QED BY <1>2, <1>3, EarliestFollows
<1>4. CASE due' = due /\ planned' = planned
  <2> SUFFICES ASSUME NEW a \in Accounts, due'[a] # Dates!Unset PROVE planned' # Dates!Unset
    BY <1>1 DEF DatesInv, Follows
  <2> QED BY <1>1, <1>4 DEF Follows
<1>5. ASSUME NEW scope, NEW t \in Dates!Instants, Dates!Save(scope, t) PROVE Follows'
  BY <1>5, DatesFacts DEF Dates!Save, Follows
<1>6. \/ planned' = Dates!Earliest(due')
      \/ due' = due /\ planned' = planned
      \/ \E scope \in SUBSET Accounts, t \in Dates!Instants : Dates!Save(scope, t)
  <2>1. CASE UNCHANGED dates
    BY <2>1 DEF dates
  <2>2. CASE Dates!Edit
    BY <2>2 DEF Dates!Edit, Dates!Queue, Dates!ChipTo, Dates!Drop, Dates!ToggleDay, Dates!SaveSlot,
                Dates!DeleteSlot, Dates!MoveSlot
  <2>3. CASE Dates!Repair
    BY <2>3 DEF Dates!Repair
  <2>4. CASE Dates!Scan \/ Dates!Tick \/ \E a \in Accounts : Dates!Publish(a)
    BY <2>4 DEF Dates!Scan, Dates!Tick, Dates!Publish
  <2> QED BY <2>1, <2>2, <2>3, <2>4 DEF Dates!Next
<1> QED BY <1>1, <1>3, <1>4, <1>5, <1>6 DEF DatesInv

LEMMA RepairKeeps ==
  ASSUME DatesInv, [Dates!Next]_dates, scanned # {}, scanned' = {}, NEW a \in Accounts,
         stage[a] = "scheduled"
  PROVE  Dates!Effective(a)' = Dates!Effective(a)
<1>1. Dates!Repair
  <2>1. scanned' # scanned
    OBVIOUS
  <2>2. ~Dates!Scan
    BY DEF Dates!Scan
  <2>3. Dates!Edit => scanned' = scanned
    BY DEF Dates!Edit, Dates!Save, Dates!Queue, Dates!ChipTo, Dates!Drop, Dates!ToggleDay,
           Dates!SaveSlot, Dates!DeleteSlot, Dates!MoveSlot
  <2>4. Dates!Tick \/ (\E c \in Accounts : Dates!Publish(c)) \/ UNCHANGED dates => scanned' = scanned
    BY DEF Dates!Tick, Dates!Publish, dates
  <2> QED BY <2>1, <2>2, <2>3, <2>4 DEF Dates!Next
<1>2. /\ due \in [Accounts -> Dates!Instants \cup {Dates!Unset}]
      /\ planned \in Dates!Instants \cup {Dates!Unset} /\ Follows
      /\ \A c \in Dates!Pushed : published[c] # Dates!Unset /\ due[c] # Dates!Unset
  BY DEF DatesInv, DatesTyped, Dates!TypeOK, Dates!Pushed
<1>3. /\ due' = [c \in Accounts |-> IF c \in Dates!Pushed THEN published[c]
                                    ELSE IF stage[c] = "scheduled" /\ due[c] = Dates!Unset
                                      THEN planned ELSE due[c]]
      /\ planned' = Dates!Earliest(due')
  BY <1>1 DEF Dates!Repair
<1>4. a \notin Dates!Pushed
  BY DEF Dates!Pushed
<1>5. CASE due[a] # Dates!Unset
  <2>1. due'[a] = due[a]
    BY <1>3, <1>4, <1>5
  <2> QED BY <1>5, <2>1 DEF Dates!Effective
<1>6. CASE due[a] = Dates!Unset
  <2>1. due'[a] = planned /\ Dates!Effective(a) = planned
    BY <1>3, <1>4, <1>6 DEF Dates!Effective
  <2>2. CASE planned # Dates!Unset
    BY <2>1, <2>2 DEF Dates!Effective
  <2>3. CASE planned = Dates!Unset
    <3>1. \A c \in Accounts : due[c] = Dates!Unset
      BY <1>2, <2>3 DEF Follows
    <3>2. \A c \in Accounts : due'[c] = Dates!Unset
      BY <1>2, <1>3, <2>3, <3>1
    <3>3. {due'[c] : c \in Accounts} \ {Dates!Unset} = {}
      BY <3>2
    <3>4. planned' = Dates!Unset
      BY <1>3, <3>3 DEF Dates!Earliest
    <3> QED BY <2>1, <2>3, <3>4 DEF Dates!Effective
  <2> QED BY <2>2, <2>3
<1> QED BY <1>5, <1>6

-----------------------------------------------------------------------------
(* The figures of the posts (Insights).                                     *)

FiguresTyped == Figures!TypeOK

LEMMA FiguresMax == ASSUME NEW n \in Int PROVE Figures!Max({0, n}) \in Nat
<1>1. \E m \in {0, n} : \A k \in {0, n} : m >= k
  <2>1. CASE n >= 0
    BY <2>1
  <2>2. CASE ~(n >= 0)
    BY <2>2
  <2> QED BY <2>1, <2>2
<1>2. Figures!Max({0, n}) \in {0, n} /\ \A k \in {0, n} : Figures!Max({0, n}) >= k
  BY <1>1 DEF Figures!Max
<1> QED BY <1>2

LEMMA FiguresInit == Figures!Init => FiguresTyped
<1> SUFFICES ASSUME Figures!Init PROVE FiguresTyped
  OBVIOUS
<1>1. 1 \in Figures!Days /\ 0 \in Figures!Counts /\ 0 \in 0..MaxDays
  BY BoundAssumption DEF Figures!Days, Figures!Counts
<1> QED BY <1>1 DEF Figures!Init, FiguresTyped, Figures!TypeOK

LEMMA FiguresNext ==
  ASSUME FiguresTyped, [Figures!Next]_figures
  PROVE  FiguresTyped'
<1>1. CASE UNCHANGED figures
  BY <1>1 DEF figures, FiguresTyped, Figures!TypeOK
<1>2. MaxDays \in Nat /\ MaxCount \in Nat /\ Figures!Days \subseteq 0..MaxDays /\ 0 \in Figures!Counts
      /\ Figures!Counts \subseteq Int
  BY BoundAssumption DEF Figures!Days, Figures!Counts
<1>3. ASSUME NEW n \in Int, Figures!Rise(n) PROVE brought' \in [Figures!Days -> Nat]
  BY <1>3, FiguresMax DEF Figures!Rise, FiguresTyped, Figures!TypeOK
<1>4. CASE Figures!Day
  BY <1>2, <1>4 DEF Figures!Day, FiguresTyped, Figures!TypeOK, Figures!Days
<1>5. CASE Figures!Followed
  <2>1. PICK n \in Figures!Counts : fans' = n /\ Figures!Rise(n - fans)
    BY <1>5 DEF Figures!Followed
  <2>2. n \in Int /\ fans \in Int
    BY <1>2 DEF FiguresTyped, Figures!TypeOK
  <2>4. n - fans \in Int
    BY <2>2
  <2>3. brought' \in [Figures!Days -> Nat]
    BY <1>3, <2>1, <2>4
  <2> QED BY <1>5, <2>1, <2>3 DEF Figures!Followed, FiguresTyped, Figures!TypeOK
<1>6. CASE Figures!SyncTotal
  BY <1>6 DEF Figures!SyncTotal, FiguresTyped, Figures!TypeOK
<1>7. ASSUME NEW p \in Measured, Figures!Publish(p) PROVE FiguresTyped'
  BY <1>2, <1>7 DEF Figures!Publish, FiguresTyped, Figures!TypeOK
<1>8. ASSUME NEW p \in Measured, Figures!PublishAgain(p) PROVE FiguresTyped'
  BY <1>2, <1>8 DEF Figures!PublishAgain, FiguresTyped, Figures!TypeOK
<1>9. ASSUME NEW p \in Measured, Figures!Counted(p) PROVE FiguresTyped'
  <2>1. PICK n \in Figures!Counts : count' = [count EXCEPT ![p] = n] /\ Figures!Rise(n - count[p])
    BY <1>9 DEF Figures!Counted
  <2>4. n \in Int /\ count[p] \in Int
    BY <1>2, <2>1 DEF FiguresTyped, Figures!TypeOK
  <2>2. n - count[p] \in Int
    BY <2>4
  <2>3. brought' \in [Figures!Days -> Nat]
    BY <1>3, <2>1, <2>2
  <2> QED BY <1>9, <2>1, <2>3 DEF Figures!Counted, FiguresTyped, Figures!TypeOK
<1>10. ASSUME NEW p \in Measured, Figures!SyncPost(p) PROVE FiguresTyped'
  <2>1. PICK on \in Figures!Days : snapshot' = [snapshot EXCEPT ![p][on] = count[p]]
    BY <1>10 DEF Figures!SyncPost
  <2>2. snapshot' \in [Measured -> [Figures!Days -> {Figures!None} \cup Figures!Counts]]
    BY <2>1 DEF FiguresTyped, Figures!TypeOK
  <2> QED BY <1>10, <2>2 DEF Figures!SyncPost, FiguresTyped, Figures!TypeOK
<1> QED BY <1>1, <1>4, <1>5, <1>6, <1>7, <1>8, <1>9, <1>10 DEF Figures!Next

-----------------------------------------------------------------------------
(* The parts together: whichever is at work, the others wait.               *)

\* A step of the whole is one of each part, or leaves it alone.
LEMMA EachPart ==
  ASSUME [Next]_vars
  PROVE  /\ [Writing!Next]_writing /\ [Board!Next]_board /\ [News!Next]_news
         /\ [Import!Next]_Import!vars /\ [Dates!Next]_dates /\ [Tree!Next]_tree
         /\ [Figures!Next]_figures /\ desk' = desk
<1>1. CASE Next
  BY <1>1, SMTT(30) DEF Next, Only, import, Import!vars
<1>2. CASE UNCHANGED vars
  BY <1>2 DEF vars, import, Import!vars
<1> QED BY <1>1, <1>2

KeptInv == DraftInv /\ BoardInv /\ CsvInv /\ TreeInv

LEMMA KeptHolds == Spec => []KeptInv
<1>1. Init => KeptInv
  BY DraftInit, BoardInit, CsvInit, TreeInit DEF Init, KeptInv
<1>2. KeptInv /\ [Next]_vars => KeptInv'
  BY EachPart, DraftNext, BoardNext, CsvNext, TreeNext DEF KeptInv
<1> QED BY <1>1, <1>2, PTL DEF Spec

\* A page whose first save was answered before the next makes one draft, and
\* what is picked on it is on its post in the order it was picked in, however
\* saves, autosaves and uploads overlap; the media of an idea are those of one
\* edit and its cover their first, no request undoes what another acknowledged,
\* a draft made of an idea has one edit's media, and columns share no place
\* unless two were added at once; a file's rows become posts once and as its
\* preview showed; folders are three levels deep unless a deletion moved some
\* to the parent it had read before, and a deletion destroys nothing that was
\* in the folder in time.
THEOREM WorkStaysKept == Spec => []WorkIsKept
<1>1. KeptInv => WorkIsKept
  BY DraftKeeps, BoardKeeps, TreeKeeps DEF KeptInv, CsvInv, WorkIsKept
<1> QED BY <1>1, KeptHolds, PTL

SeenInv == NewsInv /\ DatesInv /\ FiguresTyped

LEMMA SeenHolds == Spec => []SeenInv
<1>1. Init => SeenInv
  BY NewsInit, DatesStarts, FiguresInit DEF Init, SeenInv
<1>2. SeenInv /\ [Next]_vars => SeenInv'
  BY EachPart, NewsNext, DatesStays, FiguresNext DEF SeenInv
<1> QED BY <1>1, <1>2, PTL DEF Spec

\* What a feed shows is of the subscriptions the request read and as new as the
\* caches' time allows, whichever worker kept it; the calendar's grids show
\* what falls on their days in any time zones a day apart, the queue offers
\* the first slot they show open, a chip dropped on an hour is shown there, and
\* the repair of old rows moves no child that is still to be published.
THEOREM ViewsStayTrue == Spec => ViewsAreTrue
<1>1. SeenInv => /\ desk = "news" => News!EventsAreSubscribed /\ News!EventsAreRecent
                 /\ desk = "dates" => /\ Dates!GridsAreComplete /\ Dates!QueueOffersTheFirstOpen
                                      /\ Dates!EveryChildHasItsTab
  BY NewsKeeps, GridsHold, QueueHolds, TabsHold DEF SeenInv, DatesInv
<1>2. ASSUME SeenInv, [Next]_vars
      PROVE  [edits' > edits =>
                \A a \in Accounts, cell \in Dates!Cells, z \in -MaxOffset..MaxOffset :
                  Dates!Drop(a, cell, z) => Dates!Cell(due'[a], z) = cell]_Dates!vars
  BY <1>2, DropLands DEF SeenInv, DatesInv
<1>3. ASSUME SeenInv, [Next]_vars
      PROVE  [scanned # {} /\ scanned' = {} =>
                \A a \in Accounts : stage[a] = "scheduled" =>
                  Dates!Effective(a)' = Dates!Effective(a)]_Dates!vars
  BY <1>3, EachPart, RepairKeeps DEF SeenInv
<1> QED BY <1>1, <1>2, <1>3, SeenHolds, PTL
        DEF Spec, ViewsAreTrue, Dates!ChipsLandWhereDropped, Dates!RepairMovesNothingPending

LEMMA CsvKeeps == CsvInv => Import!TypeOK
<1> SUFFICES ASSUME CsvInv PROVE Import!TypeOK
  OBVIOUS
<1>1. Import!Sessions = Sessions
  BY DEF Import!Sessions, Sessions
<1>2. /\ waiting \in Sessions /\ uploaded \subseteq Sheets /\ mixed \subseteq Sheets
      /\ \A r \in Requests : importing[r] \in CsvCalls
      /\ \A n \in DOMAIN imported : imported[n] \in Rows
      /\ confirms \in 0..MaxConfirms
  BY CsvTypes
<1>3. ASSUME NEW r \in Requests
      PROVE  importing[r].session \in Sessions /\ importing[r].row \in 0..(NumRows + 1)
  BY <1>2 DEF CsvCalls
<1>4. ASSUME NEW n \in DOMAIN imported PROVE imported[n].row \in 1..NumRows
  BY <1>2 DEF Rows
<1> QED BY <1>1, <1>2, <1>3, <1>4 DEF Import!TypeOK

\* Posts and their media, ideas, columns, feeds, sessions, dates, slots,
\* folders, figures and what the requests hold of them have their types.
THEOREM StudioTypes == Spec => []TypeOK
<1>1. KeptInv => Writing!TypeOK /\ Board!TypeOK /\ Import!TypeOK /\ Tree!TypeOK
  BY DraftKeeps, BoardKeeps, CsvKeeps, TreeKeeps DEF KeptInv
<1>2. SeenInv => News!TypeOK /\ Dates!TypeOK /\ Figures!TypeOK
  BY NewsKeeps DEF SeenInv, DatesInv, DatesTyped, FiguresTyped
<1>3. KeptInv /\ SeenInv => TypeOK
  BY <1>1, <1>2 DEF TypeOK
<1> QED BY <1>3, KeptHolds, SeenHolds, PTL
=============================================================================
