-------------------------- MODULE AdministrationProofs --------------------------
(***************************************************************************)
(* Proofs about the administration of a tenant, without the bounds of the  *)
(* run: Catalog for any records with any parents and contents, Publication *)
(* for any papers and drafts, each for any number of requests.             *)
(***************************************************************************)
EXTENDS Publication, Catalog, SequenceTheorems, FiniteSetTheorems, SumProofs, TLAPS

USE DEF catalogVars, publicationTables, publicationVars

----------------------------------------------------------------------------
(* The records of the catalog.                                             *)

LEMMA RowFields ==
  \A s, x, n : LET row == Row(s, x, n)
               IN  row.status = s /\ row.content = x /\ row.updatedAt = n
BY DEF Row

LEMMA CatalogRowTypes ==
  /\ \A s \in Status, x \in Contents, n \in Nat : Row(s, x, n) \in CatalogRow
  /\ Blank \in CatalogRow /\ Blank.updatedAt = 0
  /\ \A row \in CatalogRow : /\ row.status \in Status /\ row.content \in Contents
                             /\ row.updatedAt \in Nat
<1>1. (CHOOSE x \in Contents : TRUE) \in Contents
  BY ContentsAssumption
<1> QED
  BY <1>1 DEF Row, Blank, CatalogRow, Status

EditPhases == {"idle", "create", "found"}
EditOps == {"none", "CREATE", "UPDATE", "STATUS_CHANGE"}

LEMMA EditFields ==
  \A ph, op, r, n, row :
    LET t == Doing(ph, op, r, n, row)
    IN  /\ t.phase = ph /\ t.op = op /\ t.record = r /\ t.expected = n
        /\ t.existing = row
BY DEF Doing

LEMMA EditTypes ==
  \A ph \in EditPhases, op \in EditOps, r \in Records \cup {NoRecord}, n \in Nat,
     row \in CatalogRow : Doing(ph, op, r, n, row) \in Edit
BY DEF Doing, Edit, EditPhases, EditOps

----------------------------------------------------------------------------
(* The inductive invariant.                                                 *)

\* What a request remembers of a record is what the record was when it was
\* last written at that moment.
TrueEdit(t, table) ==
  /\ t \in Edit
  /\ t.phase = "create" =>
       /\ t.record \in Records
       /\ \A parent \in Parents[t.record] : table[parent].updatedAt > 0
  /\ t.phase = "found" =>
       /\ t.record \in Records /\ t.op \in {"UPDATE", "STATUS_CHANGE"}
       /\ t.expected \in 1..t.existing.updatedAt
       /\ t.existing.updatedAt <= table[t.record].updatedAt
       /\ t.existing.updatedAt = table[t.record].updatedAt =>
            t.existing = table[t.record]
EditsAreTrue == \A e \in Editors : TrueEdit(edit[e], rows)

\* A record without a row has no history, and an account has always a row.
AbsentHasNoHistory ==
  \A r \in Records : /\ rows[r].updatedAt = 0 => catalogAudit[r] = <<>>
                     /\ r \in Accounts => rows[r].updatedAt > 0

\* HistoryIsGapless, for one record.
Story(log, row, account) ==
  IF log = <<>> THEN (row.updatedAt > 0 => account) /\ Shows(row) = Shows(Blank)
  ELSE /\ (log[1].action = "CREATE") = (~account)
       /\ Shows(log[1].before) = Shows(Blank)
       /\ \A k \in 2..Len(log) : /\ log[k].action # "CREATE"
                                 /\ Shows(log[k].before) = Shows(log[k - 1].after)
       /\ Shows(log[Len(log)].after) = Shows(row)

CatalogInv == /\ CatalogTypeOK /\ EditsAreTrue /\ AbsentHasNoHistory
       /\ HistoryIsGapless /\ ParentsExist

LEMMA GaplessIsStory ==
  HistoryIsGapless <=> \A r \in Records : Story(catalogAudit[r], rows[r], r \in Accounts)
BY DEF HistoryIsGapless, Story, Exists

LEMMA ShowsBoth ==
  ASSUME NEW a, NEW b, a.status = b.status, a.content = b.content
  PROVE  Shows(a) = Shows(b)
BY DEF Shows

----------------------------------------------------------------------------
(* What a log and a row tell after a step.                                  *)

LEMMA StoryOfTouched ==
  ASSUME NEW log, NEW row, NEW newRow, NEW account \in BOOLEAN,
         Story(log, row, account), Shows(newRow) = Shows(row),
         newRow.updatedAt > 0 => row.updatedAt > 0
  PROVE  Story(log, newRow, account)
BY DEF Story

LEMMA StoryBegins ==
  ASSUME NEW row, NEW image, image.action = "CREATE",
         Shows(image.before) = Shows(Blank), image.after = row
  PROVE  Story(<<image>>, row, FALSE)
<1>1. /\ <<image>> # <<>> /\ Len(<<image>>) = 1 /\ <<image>>[1] = image
  OBVIOUS
<1>2. 2..1 = {}
  OBVIOUS
<1> QED
  BY <1>1, <1>2 DEF Story

LEMMA StoryGoesOn ==
  ASSUME NEW log \in Seq(Image), NEW row, NEW newRow, NEW account \in BOOLEAN,
         Story(log, row, account), row.updatedAt > 0,
         NEW image \in Image, image.action # "CREATE", image.before = row,
         image.after = newRow,
         NEW newLog, newLog = Append(log, image)
  PROVE  Story(newLog, newRow, account)
<1>1. /\ Len(log) \in Nat /\ Len(newLog) = Len(log) + 1 /\ newLog # <<>>
      /\ newLog[Len(log) + 1] = image
      /\ \A k \in 1..Len(log) : newLog[k] = log[k]
  BY AppendProperties
<1>2. CASE log = <<>>
  <2>1. Len(log) = 0 /\ Len(newLog) = 1 /\ newLog[1] = image
    BY <1>1, <1>2
  <2>2. account /\ Shows(row) = Shows(Blank)
    BY <1>2 DEF Story
  <2>3. 2..1 = {}
    OBVIOUS
  <2> QED BY <1>1, <2>1, <2>2, <2>3 DEF Story
<1>3. CASE log # <<>>
  <2>1. Len(log) >= 1 /\ newLog[1] = log[1] /\ newLog[Len(log)] = log[Len(log)]
    <3>1. Len(log) # 0
      BY <1>3, EmptySeq
    <3> QED BY <1>1, <3>1
  <2>2. /\ (log[1].action = "CREATE") = (~account)
        /\ Shows(log[1].before) = Shows(Blank)
        /\ \A k \in 2..Len(log) : /\ log[k].action # "CREATE"
                                  /\ Shows(log[k].before) = Shows(log[k - 1].after)
        /\ Shows(log[Len(log)].after) = Shows(row)
    BY <1>3 DEF Story
  <2>3. ASSUME NEW k \in 2..Len(newLog)
        PROVE  /\ newLog[k].action # "CREATE"
               /\ Shows(newLog[k].before) = Shows(newLog[k - 1].after)
    <3>1. CASE k \in 2..Len(log)
      <4>1. newLog[k] = log[k] /\ newLog[k - 1] = log[k - 1]
        BY <1>1, <3>1
      <4> QED BY <2>2, <3>1, <4>1
    <3>2. CASE k = Len(log) + 1
      <4>1. newLog[k] = image /\ k - 1 = Len(log) /\ newLog[k - 1] = log[Len(log)]
        BY <1>1, <2>1, <3>2
      <4> QED BY <2>2, <4>1
    <3> QED BY <1>1, <3>1, <3>2
  <2>4. Shows(newLog[Len(newLog)].after) = Shows(newRow)
    BY <1>1
  <2> QED BY <1>1, <2>1, <2>2, <2>3, <2>4 DEF Story
<1> QED
  BY <1>2, <1>3

----------------------------------------------------------------------------
(* What each write does to the record it writes.                            *)

\* A row that is new, or was written once more.
Advances(r, row) ==
  /\ row \in CatalogRow /\ row.updatedAt = rows[r].updatedAt + 1
  /\ rows' = [rows EXCEPT ![r] = row]

LEMMA RecordIsCreated ==
  ASSUME CatalogInv, NEW e \in Editors, CreateRecord(e)
  PROVE  \E row :
           LET r == edit[e].record
               image == [action |-> "CREATE", before |-> Blank, after |-> row]
           IN  /\ r \in Records /\ rows[r].updatedAt = 0 /\ Advances(r, row)
               /\ \A parent \in Parents[r] : rows[parent].updatedAt > 0
               /\ image \in Image
               /\ catalogAudit' = [catalogAudit EXCEPT ![r] = Append(catalogAudit[r], image)]
<1> DEFINE r == edit[e].record
<1>1. r \in Records /\ \A parent \in Parents[r] : rows[parent].updatedAt > 0
  BY DEF CatalogInv, EditsAreTrue, TrueEdit, CreateRecord
<1>2. rows[r] \in CatalogRow /\ ~(rows[r].updatedAt > 0)
  BY <1>1 DEF CreateRecord, Exists, CatalogInv, CatalogTypeOK
<1>3. rows[r].updatedAt = 0
  BY <1>2, CatalogRowTypes
<1>4. PICK x \in Contents :
        /\ rows' = [rows EXCEPT ![r] = Row("ACTIVE", x, 1)]
        /\ Recorded(r, "CREATE", Blank, Row("ACTIVE", x, 1))
  BY DEF CreateRecord, Put
<1> DEFINE row == Row("ACTIVE", x, 1)
           image == [action |-> "CREATE", before |-> Blank, after |-> row]
<1>5. row \in CatalogRow /\ row.updatedAt = 1
  BY CatalogRowTypes, RowFields DEF Status
<1>6. image \in Image
  BY <1>5, CatalogRowTypes DEF Image
<1>7. catalogAudit' = [catalogAudit EXCEPT ![r] = Append(catalogAudit[r], image)]
  BY <1>1, <1>4 DEF Recorded, CatalogInv, CatalogTypeOK
<1>8. Advances(r, row)
  BY <1>3, <1>4, <1>5 DEF Advances
<1> HIDE DEF row
<1> QED
  BY <1>1, <1>3, <1>6, <1>7, <1>8

LEMMA RewrittenRow ==
  ASSUME NEW row \in CatalogRow, NEW op, NEW newRow \in Rewritten(row, op)
  PROVE  newRow \in CatalogRow /\ newRow.updatedAt = row.updatedAt + 1
<1>1. /\ row.status \in Status /\ row.content \in Contents
      /\ row.updatedAt + 1 \in Nat
  BY CatalogRowTypes
<1>2. \E s \in Status, x \in Contents : newRow = Row(s, x, row.updatedAt + 1)
  BY <1>1 DEF Rewritten
<1> QED
  BY <1>1, <1>2, CatalogRowTypes, RowFields

LEMMA RecordIsWritten ==
  ASSUME CatalogInv, NEW e \in Editors, WriteRecord(e)
  PROVE  \E row :
           LET r == edit[e].record
               image == [action |-> edit[e].op, before |-> rows[r], after |-> row]
           IN  /\ r \in Records /\ rows[r].updatedAt > 0 /\ Advances(r, row)
               /\ image \in Image /\ image.action # "CREATE"
               /\ catalogAudit' = [catalogAudit EXCEPT ![r] = Append(catalogAudit[r], image)]
<1> DEFINE t == edit[e]
           r == t.record
<1>1. /\ r \in Records /\ t.op \in {"UPDATE", "STATUS_CHANGE"}
      /\ t.expected \in 1..t.existing.updatedAt
      /\ t.existing.updatedAt <= rows[r].updatedAt
      /\ t.existing.updatedAt = rows[r].updatedAt => t.existing = rows[r]
      /\ t \in Edit
  BY DEF CatalogInv, EditsAreTrue, TrueEdit, WriteRecord
<1>2. rows[r] \in CatalogRow /\ t.existing \in CatalogRow
  BY <1>1 DEF CatalogInv, CatalogTypeOK, Edit
<1>3. rows[r].updatedAt = t.expected
  BY DEF WriteRecord, StillAsSeen
<1>4. rows[r].updatedAt \in Nat /\ t.existing.updatedAt \in Nat
  BY <1>2, CatalogRowTypes
<1>5. t.existing = rows[r] /\ rows[r].updatedAt > 0
  BY <1>1, <1>3, <1>4
<1>6. PICK row \in Rewritten(rows[r], t.op) :
        /\ rows' = [rows EXCEPT ![r] = row]
        /\ Recorded(r, t.op, t.existing, row)
  BY DEF WriteRecord, Put
<1>7. row \in CatalogRow /\ row.updatedAt = rows[r].updatedAt + 1
  BY <1>2, RewrittenRow
<1> DEFINE image == [action |-> t.op, before |-> rows[r], after |-> row]
<1>8. image \in Image /\ image.action # "CREATE"
  BY <1>1, <1>2, <1>7 DEF Image
<1>9. catalogAudit' = [catalogAudit EXCEPT ![r] = Append(catalogAudit[r], image)]
  BY <1>1, <1>5, <1>6 DEF Recorded, CatalogInv, CatalogTypeOK
<1>10. Advances(r, row)
  BY <1>6, <1>7 DEF Advances
<1> QED
  BY <1>1, <1>5, <1>8, <1>9, <1>10

LEMMA AccountIsTouched ==
  ASSUME CatalogInv, NEW r \in Records, TouchAccount(r)
  PROVE  \E row : /\ rows[r].updatedAt > 0 /\ Advances(r, row)
                  /\ Shows(row) = Shows(rows[r])
                  /\ catalogAudit' = catalogAudit /\ edit' = edit
<1> DEFINE row == Row(rows[r].status, rows[r].content, rows[r].updatedAt + 1)
<1>1. rows[r] \in CatalogRow
  BY DEF CatalogInv, CatalogTypeOK
<1>2. /\ rows[r].updatedAt + 1 \in Nat
      /\ row \in CatalogRow /\ row.updatedAt = rows[r].updatedAt + 1
      /\ row.status = rows[r].status /\ row.content = rows[r].content
  BY <1>1, CatalogRowTypes, RowFields
<1>3. Shows(row) = Shows(rows[r])
  BY <1>2, ShowsBoth
<1> HIDE DEF row
<1>4. rows' = [rows EXCEPT ![r] = row] /\ rows[r].updatedAt > 0
  BY DEF TouchAccount, Put, Exists, row
<1> QED
  BY <1>2, <1>3, <1>4 DEF Advances, TouchAccount

----------------------------------------------------------------------------
(* The invariant is inductive.                                              *)

LEMMA Advanced ==
  ASSUME CatalogInv, NEW r \in Records, NEW row, Advances(r, row)
  PROVE  /\ rows' \in [Records -> CatalogRow] /\ rows'[r] = row
         /\ \A q \in Records \ {r} : rows'[q] = rows[q]
         /\ \A q \in Records : /\ rows[q].updatedAt \in Nat /\ rows'[q].updatedAt \in Nat
                               /\ rows[q].updatedAt <= rows'[q].updatedAt
         /\ row.updatedAt = rows[r].updatedAt + 1
<1>1. /\ rows' \in [Records -> CatalogRow] /\ rows'[r] = row
      /\ \A q \in Records \ {r} : rows'[q] = rows[q]
  BY DEF Advances, CatalogInv, CatalogTypeOK
<1>2. row.updatedAt = rows[r].updatedAt + 1
  BY DEF Advances
<1>3. \A q \in Records : rows[q].updatedAt \in Nat /\ rows'[q].updatedAt \in Nat
  BY <1>1, CatalogRowTypes DEF CatalogInv, CatalogTypeOK
<1> QED
  BY <1>1, <1>2, <1>3

\* Whichever record is written, what other requests remember stays true: a
\* write changes updatedAt, so nothing older is taken for the present.
LEMMA EditSurvives ==
  ASSUME CatalogInv, NEW r \in Records, NEW row, Advances(r, row), NEW t, TrueEdit(t, rows)
  PROVE  TrueEdit(t, rows')
<1>1. CASE t.phase = "create"
  <2>1. t.record \in Records /\ Parents[t.record] \subseteq Records
    BY <1>1, ParentsAssumption DEF TrueEdit
  <2>2. \A q \in Parents[t.record] : rows[q].updatedAt > 0
    BY <1>1 DEF TrueEdit
  <2>3. \A q \in Parents[t.record] : rows'[q].updatedAt > 0
    <3>1. ASSUME NEW q \in Parents[t.record] PROVE rows'[q].updatedAt > 0
      <4>1. q \in Records
        BY <2>1
      <4>2. /\ rows[q].updatedAt \in Nat /\ rows'[q].updatedAt \in Nat
            /\ rows[q].updatedAt <= rows'[q].updatedAt
        BY <4>1, Advanced
      <4> QED BY <2>2, <4>2
    <3> QED BY <3>1
  <2> QED BY <1>1, <2>1, <2>3 DEF TrueEdit
<1>2. CASE t.phase = "found"
  <2>1. /\ t \in Edit
        /\ t.record \in Records /\ t.op \in {"UPDATE", "STATUS_CHANGE"}
        /\ t.expected \in 1..t.existing.updatedAt
        /\ t.existing.updatedAt <= rows[t.record].updatedAt
        /\ t.existing.updatedAt = rows[t.record].updatedAt =>
             t.existing = rows[t.record]
    BY <1>2 DEF TrueEdit
  <2>2. t.existing.updatedAt \in Nat
    BY <2>1, CatalogRowTypes DEF Edit
  <2>3. CASE t.record = r
    <3>1. /\ rows[r].updatedAt \in Nat /\ rows'[r].updatedAt = rows[r].updatedAt + 1
      BY Advanced
    <3> QED BY <1>2, <2>1, <2>2, <2>3, <3>1 DEF TrueEdit
  <2>4. CASE t.record # r
    <3>1. rows'[t.record] = rows[t.record]
      BY <2>1, <2>4, Advanced
    <3> QED BY <1>2, <2>1, <3>1 DEF TrueEdit
  <2> QED BY <2>3, <2>4
<1> QED
  BY <1>1, <1>2 DEF TrueEdit

LEMMA NoEditIsTrue == \A table : TrueEdit(NoEdit, table)
<1>1. NoEdit \in Edit
  BY EditTypes, CatalogRowTypes DEF NoEdit, EditPhases, EditOps
<1>2. NoEdit.phase = "idle"
  BY EditFields DEF NoEdit
<1> QED
  BY <1>1, <1>2 DEF TrueEdit

LEMMA EditsBegin ==
  ASSUME CatalogInv, NEW e \in Editors, CheckCreate(e) \/ FindRecord(e)
  PROVE  /\ rows' = rows /\ catalogAudit' = catalogAudit
         /\ \E t : TrueEdit(t, rows) /\ edit' = [edit EXCEPT ![e] = t]
<1>1. CASE CheckCreate(e)
  <2>1. PICK r \in Records :
          /\ ParentsFound(r)
          /\ edit' = [edit EXCEPT ![e] = Doing("create", "CREATE", r, 0, Blank)]
    BY <1>1 DEF CheckCreate
  <2> DEFINE t == Doing("create", "CREATE", r, 0, Blank)
  <2>2. t \in Edit
    BY EditTypes, CatalogRowTypes DEF EditPhases, EditOps
  <2>3. t.phase = "create" /\ t.record = r
    BY EditFields
  <2>4. \A parent \in Parents[r] : rows[parent].updatedAt > 0
    BY <2>1 DEF ParentsFound, Exists
  <2> HIDE DEF t
  <2>5. TrueEdit(t, rows)
    BY <2>2, <2>3, <2>4 DEF TrueEdit
  <2> QED BY <1>1, <2>1, <2>5 DEF CheckCreate, t
<1>2. CASE FindRecord(e)
  <2>0. PICK r \in Records, op \in {"UPDATE", "STATUS_CHANGE"} :
          \E seen \in 1..rows[r].updatedAt :
            edit' = [edit EXCEPT ![e] = Doing("found", op, r, seen, rows[r])]
    BY <1>2 DEF FindRecord
  <2>1. PICK seen \in 1..rows[r].updatedAt :
          edit' = [edit EXCEPT ![e] = Doing("found", op, r, seen, rows[r])]
    BY <2>0
  <2> DEFINE t == Doing("found", op, r, seen, rows[r])
  <2>2. rows[r] \in CatalogRow /\ rows[r].updatedAt \in Nat /\ seen \in Nat
    BY CatalogRowTypes DEF CatalogInv, CatalogTypeOK
  <2>3. t \in Edit
    BY <2>2, EditTypes DEF EditPhases, EditOps
  <2>4. /\ t.phase = "found" /\ t.record = r /\ t.op = op /\ t.expected = seen
        /\ t.existing = rows[r]
    BY EditFields
  <2> HIDE DEF t
  <2>5. TrueEdit(t, rows)
    BY <2>2, <2>3, <2>4 DEF TrueEdit
  <2> QED BY <1>2, <2>1, <2>5 DEF FindRecord, t
<1> QED
  BY <1>1, <1>2

LEMMA EditsStayTyped ==
  ASSUME CatalogInv, NEW table, \A e \in Editors : TrueEdit(edit[e], table),
         NEW e \in Editors, NEW t, TrueEdit(t, table), edit' = [edit EXCEPT ![e] = t]
  PROVE  /\ edit' \in [Editors -> Edit]
         /\ \A d \in Editors : TrueEdit(edit'[d], table)
<1>1. edit \in [Editors -> Edit] /\ t \in Edit
  BY DEF CatalogInv, CatalogTypeOK, TrueEdit
<1>2. edit' \in [Editors -> Edit]
  BY <1>1
<1>3. ASSUME NEW d \in Editors PROVE TrueEdit(edit'[d], table)
  <2>1. edit'[d] = IF d = e THEN t ELSE edit[d]
    BY <1>1
  <2> QED BY <2>1
<1> QED
  BY <1>2, <1>3

\* The cases of a step: what it writes, if anything, and what it leaves.
Quiet == rows' = rows /\ catalogAudit' = catalogAudit
Creates(r, row) ==
  LET image == [action |-> "CREATE", before |-> Blank, after |-> row]
  IN  /\ rows[r].updatedAt = 0 /\ Advances(r, row)
      /\ \A parent \in Parents[r] : rows[parent].updatedAt > 0
      /\ image \in Image
      /\ catalogAudit' = [catalogAudit EXCEPT ![r] = Append(catalogAudit[r], image)]
Rewrites(r, row, op) ==
  LET image == [action |-> op, before |-> rows[r], after |-> row]
  IN  /\ rows[r].updatedAt > 0 /\ Advances(r, row)
      /\ image \in Image /\ image.action # "CREATE"
      /\ catalogAudit' = [catalogAudit EXCEPT ![r] = Append(catalogAudit[r], image)]
Touches(r, row) ==
  /\ rows[r].updatedAt > 0 /\ Advances(r, row) /\ Shows(row) = Shows(rows[r])
  /\ catalogAudit' = catalogAudit

LEMMA StepCases ==
  ASSUME CatalogInv, [CatalogNext]_catalogVars
  PROVE  /\ \/ Quiet
            \/ \E r \in Records : \E row : Creates(r, row) \/ Touches(r, row)
            \/ \E r \in Records : \E row, op : Rewrites(r, row, op)
         /\ \/ edit' = edit
            \/ \E e \in Editors : \E t : /\ edit' = [edit EXCEPT ![e] = t]
                                    /\ TrueEdit(t, rows) /\ (Quiet \/ t = NoEdit)
<1> DEFINE Goal ==
        /\ \/ Quiet
           \/ \E r \in Records : \E row : Creates(r, row) \/ Touches(r, row)
           \/ \E r \in Records : \E row, op : Rewrites(r, row, op)
        /\ \/ edit' = edit
           \/ \E e \in Editors : \E t : /\ edit' = [edit EXCEPT ![e] = t]
                                   /\ TrueEdit(t, rows) /\ (Quiet \/ t = NoEdit)
<1>1. ASSUME NEW e \in Editors, CheckCreate(e) \/ FindRecord(e) PROVE Goal
  BY <1>1, EditsBegin DEF Quiet
<1>2. ASSUME NEW e \in Editors, CreateRecord(e) PROVE Goal
  <2>1. \E r \in Records : \E row : Creates(r, row)
    BY <1>2, RecordIsCreated DEF Creates
  <2> QED BY <1>2, <2>1, NoEditIsTrue DEF CreateRecord, Closed
<1>3. ASSUME NEW e \in Editors, WriteRecord(e) PROVE Goal
  <2>1. \E r \in Records : \E row, op : Rewrites(r, row, op)
    BY <1>3, RecordIsWritten DEF Rewrites
  <2> QED BY <1>3, <2>1, NoEditIsTrue DEF WriteRecord, Closed
<1>4. ASSUME NEW e \in Editors, RefuseEdit(e) PROVE Goal
  BY <1>4, NoEditIsTrue DEF RefuseEdit, Closed, Quiet
<1>5. ASSUME NEW r \in Records, TouchAccount(r) PROVE Goal
  <2>1. \E row : Touches(r, row) /\ edit' = edit
    BY <1>5, AccountIsTouched DEF Touches
  <2> QED BY <2>1
<1>6. ASSUME UNCHANGED catalogVars PROVE Goal
  BY <1>6 DEF Quiet
<1> HIDE DEF Goal
<1>7. Goal
  BY <1>1, <1>2, <1>3, <1>4, <1>5, <1>6 DEF CatalogNext
<1> QED
  BY <1>7 DEF Goal

LEMMA StepAdvances ==
  ASSUME CatalogInv, [CatalogNext]_catalogVars
  PROVE  Quiet \/ \E r \in Records : \E row : Advances(r, row)
BY StepCases DEF Creates, Touches, Rewrites

LEMMA EditsStayTrue ==
  ASSUME CatalogInv, [CatalogNext]_catalogVars
  PROVE  edit' \in [Editors -> Edit] /\ EditsAreTrue'
<1>1. \A e \in Editors : TrueEdit(edit[e], rows)
  BY DEF CatalogInv, EditsAreTrue
<1>2. edit \in [Editors -> Edit]
  BY DEF CatalogInv, CatalogTypeOK
<1>3. \A t : TrueEdit(t, rows) => TrueEdit(t, rows')
  BY StepAdvances, EditSurvives DEF Quiet
<1>4. \A e \in Editors : TrueEdit(edit[e], rows')
  BY <1>1, <1>3
<1>5. /\ edit' \in [Editors -> Edit]
      /\ \A e \in Editors : TrueEdit(edit'[e], rows')
  <2>1. CASE edit' = edit
    BY <1>2, <1>4, <2>1
  <2>2. ASSUME NEW e \in Editors, NEW t, edit' = [edit EXCEPT ![e] = t], TrueEdit(t, rows)
        PROVE  /\ edit' \in [Editors -> Edit]
               /\ \A d \in Editors : TrueEdit(edit'[d], rows')
    <3>1. TrueEdit(t, rows')
      BY <1>3, <2>2
    <3> QED BY <1>4, <2>2, <3>1, EditsStayTyped
  <2> QED BY <2>1, <2>2, StepCases
<1>6. EditsAreTrue'
  BY <1>5 DEF EditsAreTrue
<1> QED
  BY <1>5, <1>6

LEMMA TablesStayTyped ==
  ASSUME CatalogInv, [CatalogNext]_catalogVars
  PROVE  rows' \in [Records -> CatalogRow] /\ catalogAudit' \in [Records -> Seq(Image)]
<1>1. rows \in [Records -> CatalogRow] /\ catalogAudit \in [Records -> Seq(Image)]
  BY DEF CatalogInv, CatalogTypeOK
<1>2. rows' \in [Records -> CatalogRow]
  BY <1>1, StepAdvances, Advanced DEF Quiet
<1>3. ASSUME NEW r \in Records, NEW image \in Image,
             catalogAudit' = [catalogAudit EXCEPT ![r] = Append(catalogAudit[r], image)]
      PROVE  catalogAudit' \in [Records -> Seq(Image)]
  <2>1. Append(catalogAudit[r], image) \in Seq(Image)
    BY <1>1, AppendProperties
  <2> QED BY <1>1, <1>3, <2>1
<1>4. catalogAudit' \in [Records -> Seq(Image)]
  BY <1>1, <1>3, StepCases DEF Quiet, Creates, Touches, Rewrites
<1> QED
  BY <1>2, <1>4

\* The log of the record that is written goes on; the others are not touched.
LEMMA StoriesGoOn ==
  ASSUME CatalogInv, [CatalogNext]_catalogVars
  PROVE  HistoryIsGapless' /\ AbsentHasNoHistory'
<1> DEFINE Told(r) ==
        /\ Story(catalogAudit'[r], rows'[r], r \in Accounts)
        /\ rows'[r].updatedAt = 0 => catalogAudit'[r] = <<>>
        /\ r \in Accounts => rows'[r].updatedAt > 0
<1>1. \A r \in Records : /\ Story(catalogAudit[r], rows[r], r \in Accounts)
                         /\ rows[r].updatedAt = 0 => catalogAudit[r] = <<>>
                         /\ r \in Accounts => rows[r].updatedAt > 0
  BY GaplessIsStory DEF CatalogInv, AbsentHasNoHistory
<1>2. /\ catalogAudit \in [Records -> Seq(Image)]
      /\ \A r \in Records : rows[r] \in CatalogRow /\ rows[r].updatedAt \in Nat
  BY CatalogRowTypes DEF CatalogInv, CatalogTypeOK
<1>3. ASSUME Quiet PROVE \A q \in Records : Told(q)
  BY <1>1, <1>3 DEF Quiet
<1>4. ASSUME NEW r \in Records, NEW row, Advances(r, row),
             catalogAudit' = [catalogAudit EXCEPT ![r] = catalogAudit'[r]]
             \/ catalogAudit' = catalogAudit,
             Story(catalogAudit'[r], row, r \in Accounts)
      PROVE  \A q \in Records : Told(q)
  <2>1. rows'[r] = row /\ rows'[r].updatedAt > 0
    BY <1>2, <1>4, Advanced
  <2>2. Told(r)
    BY <1>4, <2>1
  <2>3. ASSUME NEW q \in Records \ {r} PROVE Told(q)
    <3>1. rows'[q] = rows[q]
      BY <1>4, Advanced
    <3>2. catalogAudit'[q] = catalogAudit[q]
      BY <1>2, <1>4
    <3> QED BY <1>1, <3>1, <3>2
  <2> HIDE DEF Told
  <2> QED BY <2>2, <2>3
<1>5. ASSUME NEW r \in Records, NEW row, Creates(r, row) PROVE \A q \in Records : Told(q)
  <2> DEFINE image == [action |-> "CREATE", before |-> Blank, after |-> row]
  <2>1. /\ rows[r].updatedAt = 0 /\ Advances(r, row) /\ image \in Image
        /\ catalogAudit' = [catalogAudit EXCEPT ![r] = Append(catalogAudit[r], image)]
    BY <1>5 DEF Creates
  <2>2. catalogAudit[r] = <<>> /\ r \notin Accounts
    BY <1>1, <2>1
  <2>3. catalogAudit'[r] = <<image>>
    BY <1>2, <2>1, <2>2
  <2>4. Story(<<image>>, row, FALSE)
    BY StoryBegins
  <2>5. catalogAudit' = [catalogAudit EXCEPT ![r] = catalogAudit'[r]]
    BY <1>2, <2>1
  <2>6. (r \in Accounts) = FALSE
    BY <2>2
  <2> HIDE DEF image
  <2> QED BY <1>4, <2>1, <2>3, <2>4, <2>5, <2>6
<1>6. ASSUME NEW r \in Records, NEW row, NEW op, Rewrites(r, row, op)
      PROVE  \A q \in Records : Told(q)
  <2> DEFINE image == [action |-> op, before |-> rows[r], after |-> row]
             log == catalogAudit[r]
  <2>1. /\ rows[r].updatedAt > 0 /\ Advances(r, row) /\ image \in Image
        /\ image.action # "CREATE"
        /\ catalogAudit' = [catalogAudit EXCEPT ![r] = Append(log, image)]
    BY <1>6 DEF Rewrites
  <2>2. image.before = rows[r] /\ image.after = row
    OBVIOUS
  <2>3. log \in Seq(Image) /\ catalogAudit'[r] = Append(log, image)
    BY <1>2, <2>1
  <2>4. Story(log, rows[r], r \in Accounts) /\ (r \in Accounts) \in BOOLEAN
    BY <1>1
  <2> HIDE DEF image, log
  <2>5. Story(catalogAudit'[r], row, r \in Accounts)
    BY <2>1, <2>2, <2>3, <2>4, StoryGoesOn
  <2>6. catalogAudit' = [catalogAudit EXCEPT ![r] = catalogAudit'[r]]
    BY <1>2, <2>1
  <2> QED BY <1>4, <2>1, <2>5, <2>6
<1>7. ASSUME NEW r \in Records, NEW row, Touches(r, row) PROVE \A q \in Records : Told(q)
  <2>1. /\ rows[r].updatedAt > 0 /\ Advances(r, row) /\ Shows(row) = Shows(rows[r])
        /\ catalogAudit' = catalogAudit
    BY <1>7 DEF Touches
  <2>2. Story(catalogAudit[r], rows[r], r \in Accounts) /\ (r \in Accounts) \in BOOLEAN
    BY <1>1
  <2>3. Story(catalogAudit[r], row, r \in Accounts)
    BY <2>1, <2>2, StoryOfTouched
  <2> QED BY <1>4, <2>1, <2>3
<1>8. \A q \in Records : Told(q)
  <2> HIDE DEF Told
  <2> QED BY <1>3, <1>5, <1>6, <1>7, StepCases
<1>9. HistoryIsGapless'
  BY <1>8 DEF HistoryIsGapless, Story, Exists, Shows
<1>10. AbsentHasNoHistory'
  BY <1>8 DEF AbsentHasNoHistory
<1> QED
  BY <1>9, <1>10

LEMMA ParentsStay ==
  ASSUME CatalogInv, [CatalogNext]_catalogVars
  PROVE  ParentsExist'
<1>1. \A r, parent \in Records :
        rows[r].updatedAt > 0 /\ parent \in Parents[r] => rows[parent].updatedAt > 0
  BY DEF CatalogInv, ParentsExist, Exists
<1>2. \A q \in Records : rows[q].updatedAt \in Nat
  BY CatalogRowTypes DEF CatalogInv, CatalogTypeOK
<1> DEFINE Goal == \A q, parent \in Records :
        rows'[q].updatedAt > 0 /\ parent \in Parents[q] => rows'[parent].updatedAt > 0
<1>3. ASSUME Quiet PROVE Goal
  BY <1>1, <1>3 DEF Quiet
<1>4. ASSUME NEW r \in Records, NEW row, Advances(r, row),
             \A parent \in Parents[r] : rows[parent].updatedAt > 0
      PROVE  Goal
  <2>1. \A q \in Records : rows'[q].updatedAt \in Nat /\ rows[q].updatedAt <= rows'[q].updatedAt
    BY <1>4, Advanced
  <2>2. \A q \in Records \ {r} : rows'[q] = rows[q]
    BY <1>4, Advanced
  <2>3. ASSUME NEW q \in Records, NEW parent \in Records, rows'[q].updatedAt > 0,
               parent \in Parents[q]
        PROVE  rows[parent].updatedAt > 0
    BY <1>1, <1>4, <2>2, <2>3
  <2>4. ASSUME NEW parent \in Records, rows[parent].updatedAt > 0
        PROVE  rows'[parent].updatedAt > 0
    BY <1>2, <2>1, <2>4
  <2> QED BY <2>3, <2>4
<1>5. ASSUME NEW r \in Records, rows[r].updatedAt > 0
      PROVE  \A parent \in Parents[r] : rows[parent].updatedAt > 0
  BY <1>1, <1>5, ParentsAssumption
<1>6. Goal
  <2> HIDE DEF Goal
  <2> QED BY <1>3, <1>4, <1>5, StepCases DEF Creates, Touches, Rewrites
<1> QED
  BY <1>6 DEF ParentsExist, Exists

LEMMA CatalogInvAtInit == CatalogInit => CatalogInv
<1> SUFFICES ASSUME CatalogInit PROVE CatalogInv
  OBVIOUS
<1> DEFINE seeded == Row(Blank.status, Blank.content, 1)
<1>1. /\ Blank \in CatalogRow /\ Blank.updatedAt = 0
      /\ seeded \in CatalogRow /\ seeded.updatedAt = 1
      /\ seeded.status = Blank.status /\ seeded.content = Blank.content
  BY CatalogRowTypes, RowFields
<1>2. Shows(seeded) = Shows(Blank)
  BY <1>1, ShowsBoth
<1>3. /\ rows = [r \in Records |-> IF r \in Accounts THEN seeded ELSE Blank]
      /\ edit = [e \in Editors |-> NoEdit]
      /\ catalogAudit = [r \in Records |-> <<>>]
  BY DEF CatalogInit
<1> HIDE DEF seeded
<1>4. rows \in [Records -> CatalogRow] /\ catalogAudit \in [Records -> Seq(Image)]
  BY <1>1, <1>3
<1>5. EditsAreTrue /\ edit \in [Editors -> Edit]
  BY <1>3, NoEditIsTrue DEF EditsAreTrue, TrueEdit
<1>6. AbsentHasNoHistory
  BY <1>1, <1>3 DEF AbsentHasNoHistory
<1>7. HistoryIsGapless
  BY <1>1, <1>2, <1>3 DEF HistoryIsGapless, Exists
<1>8. ParentsExist
  <2>1. \A r \in Records : rows[r].updatedAt > 0 => Parents[r] = {}
    BY <1>1, <1>3, AccountsAssumption
  <2> QED BY <2>1 DEF ParentsExist, Exists
<1> QED
  BY <1>4, <1>5, <1>6, <1>7, <1>8 DEF CatalogInv, CatalogTypeOK

LEMMA CatalogInvInductive == CatalogInv /\ [CatalogNext]_catalogVars => CatalogInv'
BY TablesStayTyped, EditsStayTrue, StoriesGoOn, ParentsStay DEF CatalogInv, CatalogTypeOK

----------------------------------------------------------------------------
(* The theorems.                                                            *)

LEMMA CatalogInvAlways == CatalogSpec => []CatalogInv
BY CatalogInvAtInit, CatalogInvInductive, PTL DEF CatalogSpec

\* A record's row, its history and what requests remember of it are typed.
THEOREM CatalogIsTyped == CatalogSpec => []CatalogTypeOK
<1>1. CatalogInv => CatalogTypeOK
  BY DEF CatalogInv
<1> QED BY <1>1, CatalogInvAlways, PTL

\* The before-image that update and status record was read without a lock,
\* and yet it is what the row was when they wrote it: the history of every
\* record goes from its creation, or its seed, to what it holds now.
THEOREM HistoriesAreGapless == CatalogSpec => []HistoryIsGapless
<1>1. CatalogInv => HistoryIsGapless
  BY DEF CatalogInv
<1> QED BY <1>1, CatalogInvAlways, PTL

\* create looked for the parents before it wrote the record; they are there.
THEOREM RecordsHaveParents == CatalogSpec => []ParentsExist
<1>1. CatalogInv => ParentsExist
  BY DEF CatalogInv
<1> QED BY <1>1, CatalogInvAlways, PTL

----------------------------------------------------------------------------
(* The versions of papers and schemes.                                     *)

Reads(c) ==
  \/ ReadPaperVersions(c) \/ ReadSchemeVersions(c) \/ FindDraftScheme(c)
  \/ FindDraftPaper(c) \/ FindCapturePair(c) \/ DropTask(c)

LEMMA StepsOfNext ==
  ASSUME PublicationNext
  PROVE  \E c \in Clerks :
           \/ Reads(c) \/ CreatePaperVersion(c) \/ CreateSchemeVersion(c)
           \/ PublishScheme(c) \/ PublishPaper(c) \/ CreateCapture(c)
BY DEF PublicationNext, Reads

LEMMA ReadsKeepTables ==
  ASSUME NEW c \in Clerks, Reads(c)
  PROVE  UNCHANGED publicationTables
BY DEF Reads, ReadPaperVersions, ReadSchemeVersions, FindDraftScheme, FindDraftPaper,
   FindCapturePair, DropTask, Begin

----------------------------------------------------------------------------
(* Rows and tasks.                                                         *)

LEMMA VersionRowTypes ==
  /\ \A v \in Nat, x \in Papers :
       [version |-> v, status |-> "DRAFT", publishedAt |-> 0, shape |-> x,
        bound |-> 0] \in PaperVersion
  /\ \A v, p \in Nat, d \in Drafts :
       [version |-> v, status |-> "DRAFT", publishedAt |-> 0, paper |-> p,
        draft |-> d] \in SchemeVersion
  /\ \A row \in PaperVersion, n \in Nat :
       [row EXCEPT !.status = "PUBLISHED", !.publishedAt = n] \in PaperVersion
  /\ \A row \in SchemeVersion, n \in Nat :
       [row EXCEPT !.status = "PUBLISHED", !.publishedAt = n] \in SchemeVersion
BY DEF PaperVersion, SchemeVersion, VersionStatus, StoredDrafts

TaskPhases == {"idle", "draftPaper", "draftScheme", "publishPaper", "publishScheme",
           "capture"}

LEMMA TaskTypes ==
  /\ NoTask \in Clerk
  /\ \A ph \in TaskPhases, v, p, s \in Nat, d \in Drafts :
       Task(ph, v, p, s, d) \in Clerk
<1>1. AnyDraft \in Drafts
  BY DraftsAssumption DEF AnyDraft
<1> QED
  BY <1>1 DEF NoTask, Task, Clerk, TaskPhases

LEMMA AnyDraftIsDraft == AnyDraft \in Drafts
BY DraftsAssumption DEF AnyDraft

\* Rows that are numbered in the order of commit: the largest number is the last.
LEMMA LargestIsLast ==
  ASSUME NEW versions, NEW n \in Nat, DOMAIN versions = 1..n, (versions = <<>>) <=> (n = 0),
         \A k \in 1..n : versions[k].version = k
  PROVE  LargestVersion(versions) = n
<1>1. CASE n = 0
  BY <1>1 DEF LargestVersion
<1>2. CASE n # 0
  <2> DEFINE Top(v) == \A k \in DOMAIN versions : versions[k].version <= v
  <2>1. {versions[k].version : k \in DOMAIN versions} = 1..n
    OBVIOUS
  <2>2. n \in 1..n /\ Top(n)
    BY <1>2
  <2>3. ASSUME NEW v \in 1..n, Top(v) PROVE v = n
    <3>1. n \in DOMAIN versions /\ versions[n].version = n
      BY <1>2
    <3>2. n <= v
      BY <2>3, <3>1
    <3> HIDE DEF Top
    <3> QED BY <3>2
  <2>4. LargestVersion(versions) = CHOOSE v \in 1..n : Top(v)
    BY <1>2, <2>1 DEF LargestVersion
  <2> HIDE DEF Top
  <2> QED BY <2>2, <2>3, <2>4
<1> QED
  BY <1>1, <1>2

----------------------------------------------------------------------------
(* The inductive invariant: what is stored, and what the requests in        *)
(* flight still hold true of it.                                           *)

TasksAreTrue ==
  \A c \in Clerks :
    LET t == clerk[c]
    IN  /\ t.phase = "draftPaper" => t.version \in 1..(Len(papers) + 1)
        /\ t.phase = "draftScheme" => t.version \in 1..(Len(schemes) + 1)
        /\ t.phase = "publishPaper" => t.paper \in DOMAIN papers /\ HasPublishedScheme(t.paper)
        /\ t.phase = "publishScheme" => t.scheme \in DOMAIN schemes
        /\ t.phase = "capture" => BoundPair(t.paper, t.scheme)

Stored ==
  /\ PublicationTypeOK
  /\ VersionsAreNumbered
  /\ PublishedPaperHasScheme
  /\ CapturesAreBound
PublicationInv == Stored /\ TasksAreTrue

LEMMA SequencesAreTyped ==
  ASSUME PublicationTypeOK
  PROVE  /\ Len(papers) \in Nat /\ DOMAIN papers = 1..Len(papers)
         /\ \A k \in 1..Len(papers) : papers[k] \in PaperVersion
         /\ Len(schemes) \in Nat /\ DOMAIN schemes = 1..Len(schemes)
         /\ \A k \in 1..Len(schemes) : schemes[k] \in SchemeVersion
         /\ Len(captures) \in Nat /\ DOMAIN captures = 1..Len(captures)
         /\ Len(minutes) \in Nat /\ DOMAIN minutes = 1..Len(minutes)
BY LenProperties, ElementOfSeq DEF PublicationTypeOK

LEMMA NextNumbers ==
  ASSUME PublicationTypeOK, VersionsAreNumbered
  PROVE  LargestVersion(papers) = Len(papers) /\ LargestVersion(schemes) = Len(schemes)
<1> USE SequencesAreTyped
<1>1. /\ (papers = <<>>) <=> (Len(papers) = 0)
      /\ (schemes = <<>>) <=> (Len(schemes) = 0)
  BY EmptySeq DEF PublicationTypeOK
<1>2. LargestVersion(papers) = Len(papers)
  BY <1>1, LargestIsLast DEF VersionsAreNumbered
<1>3. LargestVersion(schemes) = Len(schemes)
  BY <1>1, LargestIsLast DEF VersionsAreNumbered
<1> QED
  BY <1>2, <1>3

----------------------------------------------------------------------------
(* What each write does, in terms of the rows.                             *)

Grows ==
  /\ Len(papers') \in Nat /\ Len(papers) <= Len(papers') /\ DOMAIN papers' = 1..Len(papers')
  /\ Len(schemes') \in Nat /\ Len(schemes) <= Len(schemes') /\ DOMAIN schemes' = 1..Len(schemes')
  /\ Kept(papers, papers') /\ Kept(schemes, schemes')

\* One row is added, as a draft with the next number.
Adds(versions, newOnes) ==
  /\ Len(newOnes) = Len(versions) + 1 /\ DOMAIN newOnes = 1..Len(newOnes)
  /\ \A k \in DOMAIN versions : newOnes[k] = versions[k]
  /\ newOnes[Len(newOnes)].status = "DRAFT"
  /\ newOnes[Len(newOnes)].version = Len(newOnes)

\* One row that is no longer a draft, everything else as it was.
Publishes(versions, newOnes, id) ==
  /\ Len(newOnes) = Len(versions) /\ DOMAIN newOnes = DOMAIN versions
  /\ id \in DOMAIN versions /\ versions[id].status = "DRAFT"
  /\ \A k \in DOMAIN versions \ {id} : newOnes[k] = versions[k]
  /\ newOnes[id].status = "PUBLISHED" /\ newOnes[id].version = versions[id].version

LEMMA PaperIsCreated ==
  ASSUME PublicationInv, NEW c \in Clerks, CreatePaperVersion(c)
  PROVE  /\ Adds(papers, papers') /\ papers' \in Seq(PaperVersion)
         /\ UNCHANGED <<schemes, captures>>
<1> USE SequencesAreTyped DEF PublicationInv, Stored
<1>1. PICK shape \in Papers :
        papers' = Append(papers, [version |-> clerk[c].version, status |-> "DRAFT",
                                  publishedAt |-> 0, shape |-> shape, bound |-> 0])
  BY DEF CreatePaperVersion
<1> DEFINE row == [version |-> clerk[c].version, status |-> "DRAFT",
                   publishedAt |-> 0, shape |-> shape, bound |-> 0]
<1>2. clerk[c].version = Len(papers) + 1
  <2>1. clerk[c].version \in 1..(Len(papers) + 1)
    BY DEF CreatePaperVersion, Performing, TasksAreTrue
  <2>2. \A k \in 1..Len(papers) : k # clerk[c].version
    BY DEF CreatePaperVersion, UnusedNumber, VersionsAreNumbered
  <2> QED BY <2>1, <2>2
<1>3. row \in PaperVersion /\ row.status = "DRAFT" /\ row.version = Len(papers) + 1
  <2>1. Len(papers) + 1 \in Nat
    OBVIOUS
  <2>2. row \in PaperVersion
    BY <1>2, <2>1, VersionRowTypes
  <2> QED BY <1>2, <2>2
<1>4. papers' = Append(papers, row)
  BY <1>1
<1> HIDE DEF row
<1>5. /\ papers' \in Seq(PaperVersion)
      /\ Len(papers') = Len(papers) + 1
      /\ \A k \in 1..Len(papers) : papers'[k] = papers[k]
      /\ papers'[Len(papers) + 1] = row
  BY <1>3, <1>4, AppendProperties DEF PublicationTypeOK
<1>6. DOMAIN papers' = 1..Len(papers')
  BY <1>5, LenProperties
<1>7. UNCHANGED <<schemes, captures>>
  BY DEF CreatePaperVersion
<1> QED
  BY <1>3, <1>5, <1>6, <1>7 DEF Adds

LEMMA SchemeIsCreated ==
  ASSUME PublicationInv, NEW c \in Clerks, CreateSchemeVersion(c)
  PROVE  /\ Adds(schemes, schemes') /\ schemes' \in Seq(SchemeVersion)
         /\ UNCHANGED <<papers, captures>>
<1> USE SequencesAreTyped DEF PublicationInv, Stored
<1> DEFINE row == [version |-> clerk[c].version, status |-> "DRAFT",
                   publishedAt |-> 0, paper |-> clerk[c].paper,
                   draft |-> clerk[c].draft]
<1>1. schemes' = Append(schemes, row)
  BY DEF CreateSchemeVersion
<1>2. clerk[c].version = Len(schemes) + 1
  <2>1. clerk[c].version \in 1..(Len(schemes) + 1)
    BY DEF CreateSchemeVersion, Performing, TasksAreTrue
  <2>2. \A k \in 1..Len(schemes) : k # clerk[c].version
    BY DEF CreateSchemeVersion, UnusedNumber, VersionsAreNumbered
  <2> QED BY <2>1, <2>2
<1>3. row \in SchemeVersion /\ row.status = "DRAFT" /\ row.version = Len(schemes) + 1
  <2>1. Len(schemes) + 1 \in Nat
    OBVIOUS
  <2>2. clerk[c].paper \in Nat /\ clerk[c].draft \in Drafts
    BY DEF PublicationTypeOK, Clerk
  <2>3. row \in SchemeVersion
    BY <1>2, <2>1, <2>2, VersionRowTypes
  <2> QED BY <1>2, <2>3
<1> HIDE DEF row
<1>4. /\ schemes' \in Seq(SchemeVersion)
      /\ Len(schemes') = Len(schemes) + 1
      /\ \A k \in 1..Len(schemes) : schemes'[k] = schemes[k]
      /\ schemes'[Len(schemes) + 1] = row
  BY <1>1, <1>3, AppendProperties DEF PublicationTypeOK
<1>5. DOMAIN schemes' = 1..Len(schemes')
  BY <1>4, LenProperties
<1>6. UNCHANGED <<papers, captures>>
  BY DEF CreateSchemeVersion
<1> QED
  BY <1>3, <1>4, <1>5, <1>6 DEF Adds

LEMMA PublishedRow ==
  ASSUME NEW T, NEW versions \in Seq(T), NEW id \in 1..Len(versions), NEW row \in T
  PROVE  /\ [versions EXCEPT ![id] = row] \in Seq(T)
         /\ Len([versions EXCEPT ![id] = row]) = Len(versions)
         /\ DOMAIN [versions EXCEPT ![id] = row] = 1..Len(versions)
BY ExceptSeq, LenProperties

LEMMA SchemeIsPublished ==
  ASSUME PublicationInv, NEW c \in Clerks, PublishScheme(c)
  PROVE  /\ Publishes(schemes, schemes', clerk[c].scheme)
         /\ schemes' \in Seq(SchemeVersion)
         /\ \A k \in DOMAIN schemes : schemes'[k].paper = schemes[k].paper
         /\ UNCHANGED <<papers, captures>>
<1> USE SequencesAreTyped DEF PublicationInv, Stored
<1> DEFINE s == clerk[c].scheme
           row == [schemes[s] EXCEPT !.status = "PUBLISHED",
                                     !.publishedAt = Len(minutes) + 1]
<1>1. s \in 1..Len(schemes)
  BY DEF PublishScheme, Performing, TasksAreTrue
<1>2. schemes' = [schemes EXCEPT ![s] = row] /\ schemes[s].status # "PUBLISHED"
  BY DEF PublishScheme, Changeable
<1>3. schemes[s] \in SchemeVersion /\ Len(minutes) + 1 \in Nat
  BY <1>1
<1>4. row \in SchemeVersion
  BY <1>3, VersionRowTypes
<1>5. /\ row.status = "PUBLISHED" /\ row.version = schemes[s].version
      /\ row.paper = schemes[s].paper /\ schemes[s].status = "DRAFT"
  BY <1>2, <1>3 DEF SchemeVersion, VersionStatus
<1>6. UNCHANGED <<papers, captures>>
  BY DEF PublishScheme
<1> HIDE DEF row, s
<1>7. /\ schemes' \in Seq(SchemeVersion) /\ Len(schemes') = Len(schemes)
      /\ DOMAIN schemes' = 1..Len(schemes)
  BY <1>1, <1>2, <1>4, PublishedRow DEF PublicationTypeOK
<1>8. schemes'[s] = row /\ \A k \in DOMAIN schemes \ {s} : schemes'[k] = schemes[k]
  BY <1>1, <1>2
<1> QED
  BY <1>1, <1>5, <1>6, <1>7, <1>8 DEF Publishes, s

LEMMA PaperIsPublished ==
  ASSUME PublicationInv, NEW c \in Clerks, PublishPaper(c)
  PROVE  /\ Publishes(papers, papers', clerk[c].paper)
         /\ papers' \in Seq(PaperVersion)
         /\ HasPublishedScheme(clerk[c].paper)
         /\ UNCHANGED <<schemes, captures>>
<1> USE SequencesAreTyped DEF PublicationInv, Stored
<1> DEFINE p == clerk[c].paper
           row == [papers[p] EXCEPT !.status = "PUBLISHED",
                                    !.publishedAt = Len(minutes) + 1]
<1>1. p \in 1..Len(papers) /\ HasPublishedScheme(p)
  BY DEF PublishPaper, Performing, TasksAreTrue
<1>2. papers' = [papers EXCEPT ![p] = row] /\ papers[p].status # "PUBLISHED"
  BY DEF PublishPaper, Changeable
<1>3. papers[p] \in PaperVersion /\ Len(minutes) + 1 \in Nat
  BY <1>1
<1>4. row \in PaperVersion
  BY <1>3, VersionRowTypes
<1>5. /\ row.status = "PUBLISHED" /\ row.version = papers[p].version
      /\ papers[p].status = "DRAFT"
  BY <1>2, <1>3 DEF PaperVersion, VersionStatus
<1>6. UNCHANGED <<schemes, captures>>
  BY DEF PublishPaper
<1> HIDE DEF row, p
<1>7. /\ papers' \in Seq(PaperVersion) /\ Len(papers') = Len(papers)
      /\ DOMAIN papers' = 1..Len(papers)
  BY <1>1, <1>2, <1>4, PublishedRow DEF PublicationTypeOK
<1>8. papers'[p] = row /\ \A k \in DOMAIN papers \ {p} : papers'[k] = papers[k]
  BY <1>1, <1>2
<1> QED
  BY <1>1, <1>5, <1>6, <1>7, <1>8 DEF Publishes, p

LEMMA CaptureIsCreated ==
  ASSUME PublicationInv, NEW c \in Clerks, CreateCapture(c)
  PROVE  /\ BoundPair(clerk[c].paper, clerk[c].scheme)
         /\ captures' = Append(captures, [paper |-> clerk[c].paper,
                                          scheme |-> clerk[c].scheme])
         /\ UNCHANGED <<papers, schemes>>
BY DEF CreateCapture, Performing, PublicationInv, TasksAreTrue

LEMMA KeptBySame == \A versions : Kept(versions, versions)
BY DEF Kept

LEMMA KeptByAdds ==
  ASSUME NEW versions, NEW newOnes, Len(versions) \in Nat, DOMAIN versions = 1..Len(versions),
         Adds(versions, newOnes)
  PROVE  /\ Kept(versions, newOnes)
         /\ (\A k \in DOMAIN versions : versions[k].version = k) =>
              \A k \in DOMAIN newOnes : newOnes[k].version = k
BY DEF Adds, Kept

LEMMA KeptByPublishes ==
  ASSUME NEW versions, NEW newOnes, NEW id, Publishes(versions, newOnes, id)
  PROVE  /\ Kept(versions, newOnes)
         /\ (\A k \in DOMAIN versions : versions[k].version = k) =>
              \A k \in DOMAIN newOnes : newOnes[k].version = k
BY DEF Publishes, Kept

\* Whatever a step does, versions are only added, and drafts published.
LEMMA StepGrows ==
  ASSUME PublicationInv, [PublicationNext]_publicationVars
  PROVE  Grows /\ VersionsAreNumbered'
<1> USE SequencesAreTyped DEF PublicationInv, Stored
<1>1. ASSUME UNCHANGED <<papers, schemes>> PROVE Grows /\ VersionsAreNumbered'
  BY <1>1, KeptBySame DEF Grows, VersionsAreNumbered
<1>2. ASSUME NEW c \in Clerks, CreatePaperVersion(c) PROVE Grows /\ VersionsAreNumbered'
  <2>1. /\ Adds(papers, papers') /\ schemes' = schemes
    BY <1>2, PaperIsCreated
  <2>2. /\ Len(papers') = Len(papers) + 1 /\ DOMAIN papers' = 1..Len(papers')
    BY <2>1 DEF Adds
  <2>3. /\ Kept(papers, papers') /\ \A k \in DOMAIN papers' : papers'[k].version = k
    BY <2>1, KeptByAdds DEF VersionsAreNumbered
  <2> QED BY <2>1, <2>2, <2>3, KeptBySame DEF Grows, VersionsAreNumbered
<1>3. ASSUME NEW c \in Clerks, CreateSchemeVersion(c) PROVE Grows /\ VersionsAreNumbered'
  <2>1. /\ Adds(schemes, schemes') /\ papers' = papers
    BY <1>3, SchemeIsCreated
  <2>2. /\ Len(schemes') = Len(schemes) + 1 /\ DOMAIN schemes' = 1..Len(schemes')
    BY <2>1 DEF Adds
  <2>3. /\ Kept(schemes, schemes') /\ \A k \in DOMAIN schemes' : schemes'[k].version = k
    BY <2>1, KeptByAdds DEF VersionsAreNumbered
  <2> QED BY <2>1, <2>2, <2>3, KeptBySame DEF Grows, VersionsAreNumbered
<1>4. ASSUME NEW c \in Clerks, PublishScheme(c) PROVE Grows /\ VersionsAreNumbered'
  <2>1. /\ Publishes(schemes, schemes', clerk[c].scheme) /\ papers' = papers
    BY <1>4, SchemeIsPublished
  <2>2. /\ Len(schemes') = Len(schemes) /\ DOMAIN schemes' = 1..Len(schemes')
    BY <2>1 DEF Publishes
  <2>3. /\ Kept(schemes, schemes') /\ \A k \in DOMAIN schemes' : schemes'[k].version = k
    BY <2>1, KeptByPublishes DEF VersionsAreNumbered
  <2> QED BY <2>1, <2>2, <2>3, KeptBySame DEF Grows, VersionsAreNumbered
<1>5. ASSUME NEW c \in Clerks, PublishPaper(c) PROVE Grows /\ VersionsAreNumbered'
  <2>1. /\ Publishes(papers, papers', clerk[c].paper) /\ schemes' = schemes
    BY <1>5, PaperIsPublished
  <2>2. /\ Len(papers') = Len(papers) /\ DOMAIN papers' = 1..Len(papers')
    BY <2>1 DEF Publishes
  <2>3. /\ Kept(papers, papers') /\ \A k \in DOMAIN papers' : papers'[k].version = k
    BY <2>1, KeptByPublishes DEF VersionsAreNumbered
  <2> QED BY <2>1, <2>2, <2>3, KeptBySame DEF Grows, VersionsAreNumbered
<1>6. ASSUME NEW c \in Clerks, Reads(c) \/ CreateCapture(c)
      PROVE  Grows /\ VersionsAreNumbered'
  BY <1>1, <1>6, ReadsKeepTables, CaptureIsCreated
<1> QED
  BY <1>1, <1>2, <1>3, <1>4, <1>5, <1>6, StepsOfNext

\* What is published stays published, and so do the pairs.
LEMMA GrowthKeepsFacts ==
  ASSUME PublicationInv, Grows
  PROVE  /\ \A p : HasPublishedScheme(p) => HasPublishedScheme(p)'
         /\ \A p, s : BoundPair(p, s) => BoundPair(p, s)'
BY DEF Grows, Kept, HasPublishedScheme, BoundPair

----------------------------------------------------------------------------
(* The invariant is inductive.                                             *)

\* A task that a read begins is typed, and true of what was read.
TrueTask(t) ==
  /\ t \in Clerk
  /\ t.phase = "draftPaper" => t.version \in 1..(Len(papers) + 1)
  /\ t.phase = "draftScheme" => t.version \in 1..(Len(schemes) + 1)
  /\ t.phase = "publishPaper" => t.paper \in DOMAIN papers /\ HasPublishedScheme(t.paper)
  /\ t.phase = "publishScheme" => t.scheme \in DOMAIN schemes
  /\ t.phase = "capture" => BoundPair(t.paper, t.scheme)

LEMMA NoTaskIsTrue == TrueTask(NoTask)
<1>1. NoTask \in Clerk
  BY TaskTypes
<1>2. NoTask.phase = "idle"
  BY DEF NoTask, Task
<1> QED
  BY <1>1, <1>2 DEF TrueTask

LEMMA TaskIsTrue ==
  ASSUME NEW ph \in TaskPhases, NEW v \in Nat, NEW p \in Nat, NEW s \in Nat, NEW d \in Drafts,
         ph = "draftPaper" => v \in 1..(Len(papers) + 1),
         ph = "draftScheme" => v \in 1..(Len(schemes) + 1),
         ph = "publishPaper" => p \in DOMAIN papers /\ HasPublishedScheme(p),
         ph = "publishScheme" => s \in DOMAIN schemes,
         ph = "capture" => BoundPair(p, s)
  PROVE  TrueTask(Task(ph, v, p, s, d))
<1>1. Task(ph, v, p, s, d) \in Clerk
  BY TaskTypes DEF Task
<1>2. LET t == Task(ph, v, p, s, d)
      IN  t.phase = ph /\ t.version = v /\ t.paper = p /\ t.scheme = s
  BY DEF Task
<1> QED
  BY <1>1, <1>2 DEF TrueTask

LEMMA TasksBegin ==
  ASSUME PublicationInv, NEW c \in Clerks, Reads(c)
  PROVE  \E t : TrueTask(t) /\ clerk' = [clerk EXCEPT ![c] = t]
<1>1. /\ Len(papers) \in Nat /\ DOMAIN papers = 1..Len(papers)
      /\ Len(schemes) \in Nat /\ DOMAIN schemes = 1..Len(schemes)
      /\ LargestVersion(papers) = Len(papers) /\ LargestVersion(schemes) = Len(schemes)
  BY SequencesAreTyped, NextNumbers DEF PublicationInv, Stored
<1>2. {"draftPaper", "draftScheme", "publishScheme", "publishPaper", "capture"}
        \subseteq TaskPhases
  BY DEF TaskPhases
<1>3. CASE ReadPaperVersions(c)
  <2>1. clerk' = [clerk EXCEPT ![c] = Task("draftPaper", Len(papers) + 1, 0, 0, AnyDraft)]
    BY <1>1, <1>3 DEF ReadPaperVersions, Begin
  <2>2. TrueTask(Task("draftPaper", Len(papers) + 1, 0, 0, AnyDraft))
    BY <1>1, <1>2, TaskIsTrue, AnyDraftIsDraft
  <2> QED BY <2>1, <2>2
<1>4. CASE ReadSchemeVersions(c)
  <2>1. PICK p \in DOMAIN papers, d \in Drafts :
          clerk' = [clerk EXCEPT ![c] = Task("draftScheme", Len(schemes) + 1, p, 0, d)]
    BY <1>1, <1>4 DEF ReadSchemeVersions, Begin
  <2>2. TrueTask(Task("draftScheme", Len(schemes) + 1, p, 0, d))
    BY <1>1, <1>2, TaskIsTrue
  <2> QED BY <2>1, <2>2
<1>5. CASE FindDraftScheme(c)
  <2>1. PICK s \in DOMAIN schemes :
          clerk' = [clerk EXCEPT ![c] = Task("publishScheme", 0, 0, s, AnyDraft)]
    BY <1>5 DEF FindDraftScheme, Begin
  <2>2. TrueTask(Task("publishScheme", 0, 0, s, AnyDraft))
    BY <1>1, <1>2, TaskIsTrue, AnyDraftIsDraft
  <2> QED BY <2>1, <2>2
<1>6. CASE FindDraftPaper(c)
  <2>1. PICK p \in DOMAIN papers :
          /\ HasPublishedScheme(p)
          /\ clerk' = [clerk EXCEPT ![c] = Task("publishPaper", 0, p, 0, AnyDraft)]
    BY <1>6 DEF FindDraftPaper, Begin
  <2>2. TrueTask(Task("publishPaper", 0, p, 0, AnyDraft))
    BY <1>1, <1>2, <2>1, TaskIsTrue, AnyDraftIsDraft
  <2> QED BY <2>1, <2>2
<1>7. CASE FindCapturePair(c)
  <2>1. PICK p \in DOMAIN papers, s \in DOMAIN schemes :
          /\ papers[p].status = "PUBLISHED" /\ schemes[s].status = "PUBLISHED"
          /\ Bound(p, s)
          /\ clerk' = [clerk EXCEPT ![c] = Task("capture", 0, p, s, AnyDraft)]
    BY <1>7 DEF FindCapturePair, Begin
  <2>2. BoundPair(p, s)
    BY <2>1 DEF Bound, BoundPair
  <2>3. TrueTask(Task("capture", 0, p, s, AnyDraft))
    BY <1>1, <1>2, <2>2, TaskIsTrue, AnyDraftIsDraft
  <2> QED BY <2>1, <2>3
<1>8. CASE DropTask(c)
  BY <1>8, NoTaskIsTrue DEF DropTask
<1> QED
  BY <1>3, <1>4, <1>5, <1>6, <1>7, <1>8 DEF Reads

LEMMA ClerksProceed ==
  ASSUME PublicationInv, [PublicationNext]_publicationVars
  PROVE  clerk' = clerk \/ \E c \in Clerks : \E t : TrueTask(t) /\ clerk' = [clerk EXCEPT ![c] = t]
BY StepsOfNext, TasksBegin, NoTaskIsTrue
   DEF CreatePaperVersion, CreateSchemeVersion, PublishScheme, PublishPaper,
       CreateCapture, Performing

LEMMA ClerksStayTrue ==
  ASSUME PublicationInv, [PublicationNext]_publicationVars
  PROVE  clerk' \in [Clerks -> Clerk] /\ TasksAreTrue'
<1> USE SequencesAreTyped DEF PublicationInv, Stored
<1>1. clerk \in [Clerks -> Clerk] /\ \A c \in Clerks : TrueTask(clerk[c])
  BY DEF PublicationTypeOK, TasksAreTrue, TrueTask
<1>2. /\ clerk' \in [Clerks -> Clerk]
      /\ \A c \in Clerks : TrueTask(clerk'[c])
  <2>1. CASE clerk' = clerk
    BY <1>1, <2>1
  <2>2. ASSUME NEW c \in Clerks, NEW t, TrueTask(t), clerk' = [clerk EXCEPT ![c] = t]
        PROVE  /\ clerk' \in [Clerks -> Clerk]
               /\ \A d \in Clerks : TrueTask(clerk'[d])
    <3>1. t \in Clerk
      BY <2>2 DEF TrueTask
    <3>2. clerk' \in [Clerks -> Clerk]
      BY <1>1, <2>2, <3>1
    <3>3. ASSUME NEW d \in Clerks PROVE TrueTask(clerk'[d])
      <4>1. clerk'[d] = IF d = c THEN t ELSE clerk[d]
        BY <1>1, <2>2
      <4> QED BY <1>1, <2>2, <4>1
    <3> QED BY <3>2, <3>3
  <2> QED
    BY <2>1, <2>2, ClerksProceed
<1>3. Grows
  BY StepGrows
<1>4. /\ \A p : HasPublishedScheme(p) => HasPublishedScheme(p)'
      /\ \A p, s : BoundPair(p, s) => BoundPair(p, s)'
  BY <1>3, GrowthKeepsFacts
<1>5. ASSUME NEW c \in Clerks
      PROVE  LET t == clerk'[c]
             IN  /\ t.phase = "draftPaper" => t.version \in 1..(Len(papers') + 1)
                 /\ t.phase = "draftScheme" => t.version \in 1..(Len(schemes') + 1)
                 /\ t.phase = "publishPaper" =>
                      t.paper \in DOMAIN papers' /\ \E p : p = t.paper /\ HasPublishedScheme(p)'
                 /\ t.phase = "publishScheme" => t.scheme \in DOMAIN schemes'
                 /\ t.phase = "capture" =>
                      \E p, s : p = t.paper /\ s = t.scheme /\ BoundPair(p, s)'
  <2>1. TrueTask(clerk'[c])
    BY <1>2
  <2> QED BY <1>3, <1>4, <2>1 DEF TrueTask, Grows
<1>6. TasksAreTrue'
  BY <1>5 DEF TasksAreTrue, HasPublishedScheme, BoundPair
<1> QED
  BY <1>2, <1>6

----------------------------------------------------------------------------
(* The beginning, and the other tables.                                     *)

LEMMA SeedIsPublished ==
  ASSUME NEW shape \in Papers, NEW draft \in Drafts, Seeded(shape, draft)
  PROVE  /\ papers \in Seq(PaperVersion) /\ DOMAIN papers = {1}
         /\ papers[1].version = 1
         /\ schemes \in Seq(SchemeVersion) /\ DOMAIN schemes = {1}
         /\ schemes[1].version = 1
         /\ BoundPair(1, 1)
<1>0. PICK stored \in {draft, TotalsOnly(draft)} :
        schemes = <<[version |-> 1, status |-> "PUBLISHED", publishedAt |-> 0,
                     paper |-> 1, draft |-> stored]>>
  BY DEF Seeded
<1> DEFINE p == [version |-> 1, status |-> "PUBLISHED", publishedAt |-> 0,
                 shape |-> shape, bound |-> 1]
           s == [version |-> 1, status |-> "PUBLISHED", publishedAt |-> 0,
                 paper |-> 1, draft |-> stored]
<1>1. papers = <<p>> /\ schemes = <<s>>
  BY <1>0 DEF Seeded
<1>2. p \in PaperVersion /\ s \in SchemeVersion
  BY DEF PaperVersion, SchemeVersion, VersionStatus, StoredDrafts
<1>3. /\ p.version = 1 /\ p.status = "PUBLISHED" /\ p.bound = 1
      /\ s.version = 1 /\ s.status = "PUBLISHED" /\ s.paper = 1
  OBVIOUS
<1> HIDE DEF p, s
<1>4. /\ papers \in Seq(PaperVersion) /\ DOMAIN papers = {1} /\ papers[1] = p
      /\ schemes \in Seq(SchemeVersion) /\ DOMAIN schemes = {1} /\ schemes[1] = s
  BY <1>1, <1>2
<1> QED
  BY <1>3, <1>4 DEF BoundPair

LEMMA PublicationInvAtInit == PublicationInit => PublicationInv
<1> SUFFICES ASSUME PublicationInit PROVE PublicationInv
  OBVIOUS
<1>1. /\ captures = <<>> /\ minutes = <<>> /\ clerk = [c \in Clerks |-> NoTask]
  BY DEF PublicationInit
<1>2. /\ captures \in Seq(Capture) /\ DOMAIN captures = {} /\ minutes \in Seq(Minute)
  BY <1>1
<1>3. clerk \in [Clerks -> Clerk]
  BY <1>1, TaskTypes
<1>4. TasksAreTrue
  BY <1>1 DEF TasksAreTrue, NoTask, Task
<1> DEFINE Begun == /\ papers \in Seq(PaperVersion) /\ schemes \in Seq(SchemeVersion)
                    /\ VersionsAreNumbered /\ PublishedPaperHasScheme
<1>5. Begun
  <2>1. ASSUME NEW shape \in Papers, NEW draft \in Drafts, Seeded(shape, draft)
        PROVE  Begun
    BY <2>1, SeedIsPublished DEF VersionsAreNumbered, PublishedPaperHasScheme, BoundPair
  <2>2. ASSUME papers = <<>>, schemes = <<>>
        PROVE  Begun
    <3>1. DOMAIN papers = {} /\ DOMAIN schemes = {}
      BY <2>2
    <3> QED BY <2>2, <3>1 DEF VersionsAreNumbered, PublishedPaperHasScheme
  <2> QED BY <2>1, <2>2 DEF PublicationInit
<1> QED
  BY <1>2, <1>3, <1>4, <1>5 DEF PublicationInv, Stored, PublicationTypeOK, CapturesAreBound

\* The rows of the audit log: what is added is typed.
LEMMA MinutesGrow ==
  ASSUME PublicationInv, [PublicationNext]_publicationVars
  PROVE  minutes' \in Seq(Minute)
<1> USE SequencesAreTyped DEF PublicationInv, Stored
<1>1. ASSUME NEW action \in {"CREATE_VERSION", "PUBLISH"},
             NEW table \in {"paper", "scheme"}, NEW id \in Nat,
             Minuted(action, table, id)
      PROVE  minutes' \in Seq(Minute)
  <2>1. [action |-> action, table |-> table, id |-> id] \in Minute
    BY DEF Minute
  <2> QED BY <1>1, <2>1, AppendProperties DEF Minuted, PublicationTypeOK
<1>2. minutes \in Seq(Minute)
  BY DEF PublicationTypeOK
<1>3. ASSUME NEW c \in Clerks PROVE clerk[c].paper \in Nat /\ clerk[c].scheme \in Nat
  BY DEF PublicationTypeOK, Clerk
<1>4. Len(papers) + 1 \in Nat /\ Len(schemes) + 1 \in Nat
  OBVIOUS
<1>5. ASSUME NEW c \in Clerks, CreatePaperVersion(c) PROVE minutes' \in Seq(Minute)
  BY <1>1, <1>4, <1>5 DEF CreatePaperVersion
<1>6. ASSUME NEW c \in Clerks, CreateSchemeVersion(c) PROVE minutes' \in Seq(Minute)
  BY <1>1, <1>4, <1>6 DEF CreateSchemeVersion
<1>7. ASSUME NEW c \in Clerks, PublishScheme(c) PROVE minutes' \in Seq(Minute)
  BY <1>1, <1>3, <1>7 DEF PublishScheme
<1>8. ASSUME NEW c \in Clerks, PublishPaper(c) PROVE minutes' \in Seq(Minute)
  BY <1>1, <1>3, <1>8 DEF PublishPaper
<1>9. ASSUME NEW c \in Clerks, Reads(c) \/ CreateCapture(c) PROVE minutes' = minutes
  BY <1>9, ReadsKeepTables DEF CreateCapture
<1> QED
  BY <1>2, <1>5, <1>6, <1>7, <1>8, <1>9, StepsOfNext

LEMMA CapturesStayBound ==
  ASSUME PublicationInv, [PublicationNext]_publicationVars
  PROVE  captures' \in Seq(Capture) /\ CapturesAreBound'
<1> USE SequencesAreTyped DEF PublicationInv, Stored
<1>1. /\ Grows
      /\ \A p, s : BoundPair(p, s) => BoundPair(p, s)'
  BY StepGrows, GrowthKeepsFacts
<1> DEFINE AllBound == /\ captures' \in Seq(Capture)
                      /\ \A k \in DOMAIN captures' :
                           BoundPair(captures'[k].paper, captures'[k].scheme)
<1>2. AllBound
  <2>1. CASE captures' = captures
    BY <2>1 DEF PublicationTypeOK, CapturesAreBound
  <2>2. ASSUME NEW c \in Clerks, CreateCapture(c) PROVE AllBound
    <3> DEFINE row == [paper |-> clerk[c].paper, scheme |-> clerk[c].scheme]
    <3>1. captures' = Append(captures, row) /\ BoundPair(row.paper, row.scheme)
      BY <2>2, CaptureIsCreated
    <3>2. row \in Capture
      BY DEF Capture, PublicationTypeOK, Clerk
    <3> HIDE DEF row
    <3>3. /\ captures' \in Seq(Capture)
          /\ Len(captures') = Len(captures) + 1
          /\ \A k \in 1..Len(captures) : captures'[k] = captures[k]
          /\ captures'[Len(captures) + 1] = row
      BY <3>1, <3>2, AppendProperties DEF PublicationTypeOK
    <3>4. DOMAIN captures' = 1..(Len(captures) + 1)
      BY <3>3, LenProperties
    <3>5. ASSUME NEW k \in DOMAIN captures'
          PROVE  BoundPair(captures'[k].paper, captures'[k].scheme)
      <4>1. CASE k \in 1..Len(captures)
        BY <3>3, <4>1 DEF CapturesAreBound
      <4>2. CASE k = Len(captures) + 1
        BY <3>1, <3>3, <4>2
      <4> QED BY <3>4, <4>1, <4>2
    <3> QED BY <3>3, <3>5
  <2>3. ASSUME NEW c \in Clerks,
               \/ Reads(c) \/ CreatePaperVersion(c) \/ CreateSchemeVersion(c)
               \/ PublishScheme(c) \/ PublishPaper(c)
        PROVE  captures' = captures
    BY <2>3, ReadsKeepTables
       DEF CreatePaperVersion, CreateSchemeVersion, PublishScheme, PublishPaper
  <2> QED BY <2>1, <2>2, <2>3, StepsOfNext
<1>3. ASSUME NEW k \in DOMAIN captures'
      PROVE  \E p, s : /\ p = captures'[k].paper /\ s = captures'[k].scheme
                       /\ BoundPair(p, s)'
  BY <1>1, <1>2
<1>4. CapturesAreBound'
  BY <1>3 DEF CapturesAreBound, BoundPair
<1> QED
  BY <1>2, <1>4

LEMMA PapersKeepSchemes ==
  ASSUME PublicationInv, [PublicationNext]_publicationVars
  PROVE  PublishedPaperHasScheme' /\ papers' \in Seq(PaperVersion)
         /\ schemes' \in Seq(SchemeVersion)
<1> USE SequencesAreTyped DEF PublicationInv, Stored
<1>1. /\ Grows
      /\ \A p : HasPublishedScheme(p) => HasPublishedScheme(p)'
  BY StepGrows, GrowthKeepsFacts
<1>2. \A p \in DOMAIN papers : papers[p].status = "PUBLISHED" => HasPublishedScheme(p)
  BY DEF PublishedPaperHasScheme, HasPublishedScheme
<1>3. /\ papers \in Seq(PaperVersion) /\ schemes \in Seq(SchemeVersion)
  BY DEF PublicationTypeOK
<1> DEFINE Goal == /\ papers' \in Seq(PaperVersion) /\ schemes' \in Seq(SchemeVersion)
                   /\ \A p \in DOMAIN papers' : papers'[p].status = "PUBLISHED" =>
                        HasPublishedScheme(p)
<1>4. ASSUME NEW c \in Clerks, CreatePaperVersion(c) PROVE Goal
  <2>1. /\ Adds(papers, papers') /\ papers' \in Seq(PaperVersion) /\ schemes' = schemes
    BY <1>4, PaperIsCreated
  <2>2. ASSUME NEW p \in DOMAIN papers', papers'[p].status = "PUBLISHED"
        PROVE  p \in DOMAIN papers /\ papers[p].status = "PUBLISHED"
    BY <2>1, <2>2 DEF Adds
  <2> QED BY <1>2, <1>3, <2>1, <2>2
<1>5. ASSUME NEW c \in Clerks, CreateSchemeVersion(c) PROVE Goal
  <2>1. schemes' \in Seq(SchemeVersion) /\ papers' = papers
    BY <1>5, SchemeIsCreated
  <2> QED BY <1>2, <1>3, <2>1
<1>6. ASSUME NEW c \in Clerks, PublishScheme(c) PROVE Goal
  <2>1. schemes' \in Seq(SchemeVersion) /\ papers' = papers
    BY <1>6, SchemeIsPublished
  <2> QED BY <1>2, <1>3, <2>1
<1>7. ASSUME NEW c \in Clerks, PublishPaper(c) PROVE Goal
  <2>1. /\ Publishes(papers, papers', clerk[c].paper) /\ papers' \in Seq(PaperVersion)
        /\ schemes' = schemes /\ HasPublishedScheme(clerk[c].paper)
    BY <1>7, PaperIsPublished
  <2>2. ASSUME NEW p \in DOMAIN papers', papers'[p].status = "PUBLISHED"
        PROVE  HasPublishedScheme(p)
    <3>1. p = clerk[c].paper \/ (p \in DOMAIN papers /\ papers[p].status = "PUBLISHED")
      BY <2>1, <2>2 DEF Publishes
    <3> QED BY <1>2, <2>1, <3>1
  <2> QED BY <1>3, <2>1, <2>2
<1>8. ASSUME NEW c \in Clerks, Reads(c) \/ CreateCapture(c) PROVE Goal
  BY <1>2, <1>3, <1>8, ReadsKeepTables, CaptureIsCreated
<1>9. Goal
  <2>1. CASE UNCHANGED publicationVars
    BY <1>2, <1>3, <2>1
  <2> HIDE DEF Goal
  <2> QED BY <1>4, <1>5, <1>6, <1>7, <1>8, <2>1, StepsOfNext
<1>10. ASSUME NEW p \in DOMAIN papers', papers'[p].status = "PUBLISHED"
       PROVE  HasPublishedScheme(p)'
  BY <1>1, <1>9, <1>10
<1>11. PublishedPaperHasScheme'
  BY <1>10 DEF PublishedPaperHasScheme, HasPublishedScheme
<1> QED
  BY <1>9, <1>11

LEMMA PublicationInvInductive == PublicationInv /\ [PublicationNext]_publicationVars => PublicationInv'
BY StepGrows, PapersKeepSchemes, CapturesStayBound, MinutesGrow, ClerksStayTrue
   DEF PublicationInv, Stored, PublicationTypeOK

----------------------------------------------------------------------------
(* The audit log.                                                           *)

Extended(newLog, log, m) == newLog = Append(log, m)
Of(log, action, table, id) ==
  {k \in DOMAIN log : log[k] = [action |-> action, table |-> table, id |-> id]}
Told(log, table, id, status) ==
  LET created == Of(log, "CREATE_VERSION", table, id)
      published == Of(log, "PUBLISH", table, id)
  IN  /\ Cardinality(created) <= 1
      /\ status = "DRAFT" => created # {} /\ published = {}
      /\ status = "PUBLISHED" =>
           \/ created = {} /\ published = {}
           \/ /\ Cardinality(published) = 1
              /\ \E k \in created, n \in published : k < n

\* A row of the log is about a version that exists, so a new version has none.
NamesRows(log, paperRows, schemeRows) ==
  \A k \in DOMAIN log :
    /\ log[k].table = "paper" => log[k].id \in DOMAIN paperRows
    /\ log[k].table = "scheme" => log[k].id \in DOMAIN schemeRows
AllTold(log, table, versions) == \A k \in DOMAIN versions : Told(log, table, k, versions[k].status)

LogIsTrue ==
  /\ NamesRows(minutes, papers, schemes)
  /\ AllTold(minutes, "paper", papers) /\ AllTold(minutes, "scheme", schemes)

LEMMA LogTellsOnce == LogIsTrue => PublishedOnce
BY DEF LogIsTrue, AllTold, Told, Of, PublishedOnce, ToldOnce, MinutesOf

LEMMA LogAppended ==
  ASSUME NEW log \in Seq(Minute), NEW m \in Minute, NEW newLog, Extended(newLog, log, m)
  PROVE  /\ Len(log) \in Nat /\ DOMAIN log = 1..Len(log)
         /\ DOMAIN newLog = 1..(Len(log) + 1)
         /\ \A k \in 1..Len(log) : newLog[k] = log[k]
         /\ newLog[Len(log) + 1] = m
BY AppendProperties, LenProperties DEF Extended

LEMMA OfAppended ==
  ASSUME NEW log \in Seq(Minute), NEW m \in Minute, NEW newLog, Extended(newLog, log, m),
         NEW action, NEW table, NEW id
  PROVE  /\ m # [action |-> action, table |-> table, id |-> id] =>
              Of(newLog, action, table, id) = Of(log, action, table, id)
         /\ m = [action |-> action, table |-> table, id |-> id] =>
              Of(newLog, action, table, id) =
                Of(log, action, table, id) \cup {Len(log) + 1}
<1> DEFINE row == [action |-> action, table |-> table, id |-> id]
<1>1. /\ Of(newLog, action, table, id) = {k \in DOMAIN newLog : newLog[k] = row}
      /\ Of(log, action, table, id) = {k \in DOMAIN log : log[k] = row}
  BY DEF Of
<1> HIDE DEF row
<1>2. m # row =>
        {k \in DOMAIN newLog : newLog[k] = row} = {k \in DOMAIN log : log[k] = row}
  BY LogAppended
<1>3. m = row =>
        {k \in DOMAIN newLog : newLog[k] = row} =
          {k \in DOMAIN log : log[k] = row} \cup {Len(log) + 1}
  BY LogAppended
<1> QED
  BY <1>1, <1>2, <1>3 DEF row

\* A row about another version leaves what is told of this one.
LEMMA OthersAreTold ==
  ASSUME NEW log \in Seq(Minute), NEW m \in Minute, NEW newLog, Extended(newLog, log, m),
         NEW table, NEW id, NEW status, m.table # table \/ m.id # id,
         Told(log, table, id, status)
  PROVE  Told(newLog, table, id, status)
<1>1. ASSUME NEW action PROVE m # [action |-> action, table |-> table, id |-> id]
  OBVIOUS
<1>2. ASSUME NEW action PROVE Of(newLog, action, table, id) = Of(log, action, table, id)
  <2>1. m # [action |-> action, table |-> table, id |-> id]
    BY <1>1
  <2> QED BY <2>1, OfAppended
<1> QED
  BY <1>2 DEF Told

LEMMA CreationIsTold ==
  ASSUME NEW log \in Seq(Minute), NEW table \in {"paper", "scheme"}, NEW id \in Nat,
         NEW m, m = [action |-> "CREATE_VERSION", table |-> table, id |-> id],
         NEW newLog, Extended(newLog, log, m),
         \A k \in DOMAIN log : log[k].table = table => log[k].id # id
  PROVE  Told(newLog, table, id, "DRAFT")
<1>1. m \in Minute /\ m # [action |-> "PUBLISH", table |-> table, id |-> id]
  BY DEF Minute
<1>2. ASSUME NEW action PROVE Of(log, action, table, id) = {}
  BY DEF Of
<1>3. Of(newLog, "CREATE_VERSION", table, id) =
        Of(log, "CREATE_VERSION", table, id) \cup {Len(log) + 1}
  BY <1>1, OfAppended
<1>4. Of(newLog, "PUBLISH", table, id) = Of(log, "PUBLISH", table, id)
  BY <1>1, OfAppended
<1> DEFINE n == Len(log) + 1
<1>5. /\ Of(newLog, "CREATE_VERSION", table, id) = {n}
      /\ Of(newLog, "PUBLISH", table, id) = {}
  BY <1>2, <1>3, <1>4
<1>6. Cardinality(Of(newLog, "CREATE_VERSION", table, id)) <= 1
  <2>1. Cardinality({n}) = 1
    BY FS_Singleton
  <2>2. Cardinality(Of(newLog, "CREATE_VERSION", table, id)) = Cardinality({n})
    BY <1>5
  <2> HIDE DEF n
  <2> QED BY <2>1, <2>2
<1>7. Of(newLog, "CREATE_VERSION", table, id) # {}
  BY <1>5
<1> QED
  BY <1>5, <1>6, <1>7 DEF Told

LEMMA PublicationIsTold ==
  ASSUME NEW log \in Seq(Minute), NEW table \in {"paper", "scheme"}, NEW id \in Nat,
         NEW m, m = [action |-> "PUBLISH", table |-> table, id |-> id],
         NEW newLog, Extended(newLog, log, m),
         Told(log, table, id, "DRAFT")
  PROVE  Told(newLog, table, id, "PUBLISHED")
<1> DEFINE created == Of(log, "CREATE_VERSION", table, id)
           n == Len(log) + 1
<1>1. m \in Minute /\ m # [action |-> "CREATE_VERSION", table |-> table, id |-> id]
  BY DEF Minute
<1>2. /\ created # {} /\ Cardinality(created) <= 1
      /\ Of(log, "PUBLISH", table, id) = {}
  BY DEF Told
<1>3. Of(newLog, "CREATE_VERSION", table, id) = created
  BY <1>1, OfAppended
<1>4. Of(newLog, "PUBLISH", table, id) = Of(log, "PUBLISH", table, id) \cup {n}
  BY <1>1, OfAppended
<1>5. Of(newLog, "PUBLISH", table, id) = {n}
  BY <1>2, <1>4
<1>6. Cardinality({n}) = 1
  BY FS_Singleton
<1>7. \A k \in created : k < n
  <2>1. Len(log) \in Nat /\ created \subseteq 1..Len(log)
    BY LenProperties DEF Of
  <2> QED BY <2>1
<1> HIDE DEF created, n
<1> QED
  BY <1>2, <1>3, <1>5, <1>6, <1>7 DEF Told

\* A version is added to one table, and the log says so.
LEMMA CreationKeepsLog ==
  ASSUME NEW log \in Seq(Minute), NEW table \in {"paper", "scheme"}, NEW versions, NEW newOnes,
         Len(versions) \in Nat, DOMAIN versions = 1..Len(versions), Adds(versions, newOnes),
         NEW m, m = [action |-> "CREATE_VERSION", table |-> table, id |-> Len(versions) + 1],
         NEW newLog, Extended(newLog, log, m),
         \A k \in DOMAIN log : log[k].table = table => log[k].id \in DOMAIN versions,
         AllTold(log, table, versions)
  PROVE  AllTold(newLog, table, newOnes)
<1>1. m \in Minute /\ m.id = Len(versions) + 1
  BY DEF Minute
<1>2. ASSUME NEW k \in DOMAIN versions PROVE Told(newLog, table, k, newOnes[k].status)
  <2>1. newOnes[k] = versions[k] /\ m.id # k
    BY <1>1 DEF Adds
  <2>2. Told(log, table, k, versions[k].status)
    BY DEF AllTold
  <2> QED BY <1>1, <2>1, <2>2, OthersAreTold
<1>3. Told(newLog, table, Len(versions) + 1, "DRAFT")
  <2>1. \A k \in DOMAIN log : log[k].table = table => log[k].id # Len(versions) + 1
    OBVIOUS
  <2> QED BY <2>1, CreationIsTold
<1>4. /\ DOMAIN newOnes = 1..(Len(versions) + 1)
      /\ newOnes[Len(versions) + 1].status = "DRAFT"
  BY DEF Adds
<1> QED
  BY <1>2, <1>3, <1>4 DEF AllTold

LEMMA PublicationKeepsLog ==
  ASSUME NEW log \in Seq(Minute), NEW table \in {"paper", "scheme"}, NEW versions, NEW newOnes,
         NEW id \in Nat, Publishes(versions, newOnes, id),
         NEW m, m = [action |-> "PUBLISH", table |-> table, id |-> id],
         NEW newLog, Extended(newLog, log, m),
         AllTold(log, table, versions)
  PROVE  AllTold(newLog, table, newOnes)
<1>1. m \in Minute /\ m.id = id
  BY DEF Minute
<1>2. ASSUME NEW k \in DOMAIN versions \ {id} PROVE Told(newLog, table, k, newOnes[k].status)
  <2>1. newOnes[k] = versions[k] /\ m.id # k
    BY <1>1 DEF Publishes
  <2>2. Told(log, table, k, versions[k].status)
    BY DEF AllTold
  <2> QED BY <1>1, <2>1, <2>2, OthersAreTold
<1>3. Told(newLog, table, id, "PUBLISHED")
  <2>1. Told(log, table, id, "DRAFT")
    BY DEF AllTold, Publishes
  <2> QED BY <2>1, PublicationIsTold
<1>4. /\ DOMAIN newOnes = DOMAIN versions
      /\ newOnes[id].status = "PUBLISHED"
  BY DEF Publishes
<1> QED
  BY <1>2, <1>3, <1>4 DEF AllTold

\* The other table is not touched, and no row of the log is about it.
LEMMA OtherTableIsTold ==
  ASSUME NEW log \in Seq(Minute), NEW m \in Minute, NEW newLog, Extended(newLog, log, m),
         NEW table, m.table # table, NEW versions, AllTold(log, table, versions)
  PROVE  AllTold(newLog, table, versions)
BY OthersAreTold DEF AllTold

LEMMA NamesStay ==
  ASSUME NEW log \in Seq(Minute), NEW m \in Minute, NEW newLog, Extended(newLog, log, m),
         NEW ps, NEW ss, NEW newPs, NEW newSs,
         DOMAIN ps \subseteq DOMAIN newPs, DOMAIN ss \subseteq DOMAIN newSs,
         m.table = "paper" => m.id \in DOMAIN newPs,
         m.table = "scheme" => m.id \in DOMAIN newSs,
         NamesRows(log, ps, ss)
  PROVE  NamesRows(newLog, newPs, newSs)
BY LogAppended DEF NamesRows

LEMMA LogAtInit == PublicationInit => LogIsTrue
<1> SUFFICES ASSUME PublicationInit PROVE LogIsTrue
  OBVIOUS
<1>1. minutes = <<>> /\ DOMAIN minutes = {}
  BY DEF PublicationInit
<1>2. \A table, id : Told(minutes, table, id, "PUBLISHED")
  BY <1>1, FS_EmptySet DEF Told, Of
<1>3. \A k \in DOMAIN papers : papers[k].status = "PUBLISHED"
  <2>1. ASSUME NEW shape \in Papers, NEW draft \in Drafts, Seeded(shape, draft)
        PROVE  <1>3
    BY <2>1, SeedIsPublished DEF BoundPair
  <2> QED BY <2>1 DEF PublicationInit
<1>4. \A k \in DOMAIN schemes : schemes[k].status = "PUBLISHED"
  <2>1. ASSUME NEW shape \in Papers, NEW draft \in Drafts, Seeded(shape, draft)
        PROVE  <1>4
    BY <2>1, SeedIsPublished DEF BoundPair
  <2> QED BY <2>1 DEF PublicationInit
<1> QED
  BY <1>1, <1>2, <1>3, <1>4 DEF LogIsTrue, NamesRows, AllTold

LEMMA LogInductive ==
  ASSUME PublicationInv, LogIsTrue, [PublicationNext]_publicationVars
  PROVE  LogIsTrue'
<1> USE SequencesAreTyped DEF PublicationInv, Stored
<1> DEFINE Goal == /\ NamesRows(minutes', papers', schemes')
                   /\ AllTold(minutes', "paper", papers')
                   /\ AllTold(minutes', "scheme", schemes')
<1>1. minutes \in Seq(Minute)
  BY DEF PublicationTypeOK
<1>2. ASSUME NEW c \in Clerks PROVE clerk[c].paper \in Nat /\ clerk[c].scheme \in Nat
  BY DEF PublicationTypeOK, Clerk
<1>3. ASSUME NEW c \in Clerks, CreatePaperVersion(c) PROVE Goal
  <2> DEFINE m == [action |-> "CREATE_VERSION", table |-> "paper", id |-> Len(papers) + 1]
  <2>1. /\ Adds(papers, papers') /\ schemes' = schemes /\ Extended(minutes', minutes, m)
    BY <1>3, PaperIsCreated DEF CreatePaperVersion, Minuted, Extended
  <2>2. m \in Minute /\ m.table = "paper" /\ m.id = Len(papers) + 1
    BY DEF Minute
  <2>3. DOMAIN papers \subseteq DOMAIN papers' /\ Len(papers) + 1 \in DOMAIN papers'
    BY <2>1 DEF Adds
  <2>4. AllTold(minutes', "paper", papers')
    BY <1>1, <2>1, CreationKeepsLog DEF LogIsTrue, NamesRows
  <2> HIDE DEF m
  <2>5. AllTold(minutes', "scheme", schemes)
    BY <1>1, <2>1, <2>2, OtherTableIsTold DEF LogIsTrue
  <2>6. NamesRows(minutes', papers', schemes)
    BY <1>1, <2>1, <2>2, <2>3, NamesStay DEF LogIsTrue
  <2> QED BY <2>1, <2>4, <2>5, <2>6
<1>4. ASSUME NEW c \in Clerks, CreateSchemeVersion(c) PROVE Goal
  <2> DEFINE m == [action |-> "CREATE_VERSION", table |-> "scheme", id |-> Len(schemes) + 1]
  <2>1. /\ Adds(schemes, schemes') /\ papers' = papers /\ Extended(minutes', minutes, m)
    BY <1>4, SchemeIsCreated DEF CreateSchemeVersion, Minuted, Extended
  <2>2. m \in Minute /\ m.table = "scheme" /\ m.id = Len(schemes) + 1
    BY DEF Minute
  <2>3. DOMAIN schemes \subseteq DOMAIN schemes' /\ Len(schemes) + 1 \in DOMAIN schemes'
    BY <2>1 DEF Adds
  <2>4. AllTold(minutes', "scheme", schemes')
    BY <1>1, <2>1, CreationKeepsLog DEF LogIsTrue, NamesRows
  <2> HIDE DEF m
  <2>5. AllTold(minutes', "paper", papers)
    BY <1>1, <2>1, <2>2, OtherTableIsTold DEF LogIsTrue
  <2>6. NamesRows(minutes', papers, schemes')
    BY <1>1, <2>1, <2>2, <2>3, NamesStay DEF LogIsTrue
  <2> QED BY <2>1, <2>4, <2>5, <2>6
<1>5. ASSUME NEW c \in Clerks, PublishScheme(c) PROVE Goal
  <2> DEFINE s == clerk[c].scheme
             m == [action |-> "PUBLISH", table |-> "scheme", id |-> s]
  <2>1. /\ Publishes(schemes, schemes', s) /\ papers' = papers
        /\ Extended(minutes', minutes, m)
    BY <1>5, SchemeIsPublished DEF PublishScheme, Minuted, Extended
  <2>2. s \in Nat /\ m \in Minute /\ m.table = "scheme" /\ m.id = s
    BY <1>2 DEF Minute
  <2>3. DOMAIN schemes' = DOMAIN schemes /\ s \in DOMAIN schemes
    BY <2>1 DEF Publishes
  <2>4. AllTold(minutes', "scheme", schemes')
    BY <1>1, <2>1, <2>2, PublicationKeepsLog DEF LogIsTrue
  <2> HIDE DEF m, s
  <2>5. AllTold(minutes', "paper", papers)
    BY <1>1, <2>1, <2>2, OtherTableIsTold DEF LogIsTrue
  <2>6. NamesRows(minutes', papers, schemes')
    BY <1>1, <2>1, <2>2, <2>3, NamesStay DEF LogIsTrue
  <2> QED BY <2>1, <2>4, <2>5, <2>6
<1>6. ASSUME NEW c \in Clerks, PublishPaper(c) PROVE Goal
  <2> DEFINE p == clerk[c].paper
             m == [action |-> "PUBLISH", table |-> "paper", id |-> p]
  <2>1. /\ Publishes(papers, papers', p) /\ schemes' = schemes
        /\ Extended(minutes', minutes, m)
    BY <1>6, PaperIsPublished DEF PublishPaper, Minuted, Extended
  <2>2. p \in Nat /\ m \in Minute /\ m.table = "paper" /\ m.id = p
    BY <1>2 DEF Minute
  <2>3. DOMAIN papers' = DOMAIN papers /\ p \in DOMAIN papers
    BY <2>1 DEF Publishes
  <2>4. AllTold(minutes', "paper", papers')
    BY <1>1, <2>1, <2>2, PublicationKeepsLog DEF LogIsTrue
  <2> HIDE DEF m, p
  <2>5. AllTold(minutes', "scheme", schemes)
    BY <1>1, <2>1, <2>2, OtherTableIsTold DEF LogIsTrue
  <2>6. NamesRows(minutes', papers', schemes)
    BY <1>1, <2>1, <2>2, <2>3, NamesStay DEF LogIsTrue
  <2> QED BY <2>1, <2>4, <2>5, <2>6
<1>7. ASSUME UNCHANGED <<papers, schemes, minutes>> PROVE Goal
  BY <1>7 DEF LogIsTrue
<1>8. ASSUME NEW c \in Clerks, Reads(c) \/ CreateCapture(c) PROVE Goal
  BY <1>7, <1>8, ReadsKeepTables DEF CreateCapture
<1>9. Goal
  <2> HIDE DEF Goal
  <2> QED BY <1>3, <1>4, <1>5, <1>6, <1>7, <1>8, StepsOfNext
<1> QED
  BY <1>9 DEF LogIsTrue, NamesRows, AllTold, Told, Of

----------------------------------------------------------------------------
(* What MarkingSchemeValidator and the indexes let through is complete.     *)

Marks(items) == [k \in DOMAIN items |-> items[k].maximum]

\* The drafts this is about: a paper's parts are not NULL.
Admissible(draft, paper) ==
  /\ IsDraft(draft) /\ Accepts(draft, paper) /\ Storable(draft.items)
  /\ \A q \in DOMAIN paper : NoPart \notin paper[q]

LEMMA DraftsAreFinite ==
  ASSUME NEW draft, IsDraft(draft)
  PROVE  LET items == draft.items
         IN  /\ Len(items) \in Nat /\ DOMAIN items = 1..Len(items)
             /\ \A T \in SUBSET (DOMAIN items) :
                  IsFiniteSet(T) /\ Naturally(Marks(items), T)
<1> DEFINE items == draft.items
<1>1. Len(items) \in Nat /\ DOMAIN items = 1..Len(items)
  BY LenProperties DEF IsDraft
<1>2. IsFiniteSet(1..Len(items))
  <2>1. 1 \in Int /\ Len(items) \in Int
    BY <1>1
  <2> QED BY <2>1, FS_Interval
<1>3. ASSUME NEW T \in SUBSET (DOMAIN items) PROVE IsFiniteSet(T)
  BY <1>1, <1>2, FS_Subset
<1>4. ASSUME NEW T \in SUBSET (DOMAIN items) PROVE Naturally(Marks(items), T)
  BY DEF Naturally, Marks, IsDraft
<1> QED
  BY <1>1, <1>3, <1>4

\* MarksOf is a sum.
LEMMA MarksAreTotals ==
  ASSUME NEW draft, IsDraft(draft), NEW T \in SUBSET (DOMAIN draft.items)
  PROVE  MarksOf(draft.items, T) = Total(Marks(draft.items), T)
<1>1. PICK items : items = draft.items
  OBVIOUS
<1>2. MarksOf(items, T) = Total([k \in T |-> items[k].maximum], T)
  BY DEF MarksOf, MapThenSumSet, MapThenFoldSet, Total, Sums, SumStep, Choice
<1>3. IsFiniteSet(T)
  BY DraftsAreFinite
<1>4. Total([k \in T |-> items[k].maximum], T) = Total(Marks(items), T)
  BY <1>1, <1>3, TotalsAgree DEF Marks
<1> QED
  BY <1>1, <1>2, <1>4

\* Of a question there is one root, and of a part one item, a child of it.
LEMMA QuestionIsCovered ==
  ASSUME NEW draft, NEW paper, Admissible(draft, paper), NEW root \in Roots(draft.items)
  PROVE  LET items == draft.items
             q == items[root].question
         IN  /\ root \in DOMAIN items /\ q \in DOMAIN paper
             /\ Roots(items) \cap ItemsOf(items, q) = {root}
             /\ paper[q] = {} => items[root].scorable /\ ItemsOf(items, q) = {root}
             /\ paper[q] # {} => PartsFit(items, root, paper[q])
<1>1. PICK items : items = draft.items
  OBVIOUS
<1>2. PICK q : q = items[root].question
  OBVIOUS
<1>3. root \in DOMAIN items /\ q \in DOMAIN paper
  BY <1>1, <1>2 DEF Roots, Admissible, Accepts, WellReferenced
<1>4. QuestionFits(items, q, paper[q])
  BY <1>1, <1>3 DEF Admissible, Accepts
<1>5. PICK r \in Roots(items) :
        /\ Roots(items) \cap ItemsOf(items, q) = {r}
        /\ IF paper[q] = {} THEN items[r].scorable /\ ItemsOf(items, q) = {r}
           ELSE PartsFit(items, r, paper[q])
  BY <1>4 DEF QuestionFits
<1>6. r = root
  BY <1>1, <1>2, <1>3, <1>5 DEF ItemsOf
<1> QED
  BY <1>1, <1>2, <1>3, <1>5, <1>6

LEMMA PartItemsAreChildren ==
  ASSUME NEW draft, NEW paper, Admissible(draft, paper), NEW root \in Roots(draft.items),
         NEW k \in DOMAIN draft.items,
         draft.items[k].question = draft.items[root].question,
         draft.items[k].part \in paper[draft.items[k].question]
  PROVE  k \in ChildrenOf(draft.items, root)
<1>1. PICK items : items = draft.items
  OBVIOUS
<1>2. PICK q : q = items[root].question
  OBVIOUS
<1>3. q \in DOMAIN paper /\ items[k].part \in paper[q] /\ items[k].part # NoPart
      /\ items[k].question = q
  BY <1>1, <1>2, QuestionIsCovered DEF Admissible
<1>4. PartsFit(items, root, paper[q])
  BY <1>1, <1>2, <1>3, QuestionIsCovered
<1> DEFINE C == {j \in ChildrenOf(items, root) : items[j].part = items[k].part}
<1>5. Cardinality(C) = 1
  BY <1>3, <1>4 DEF PartsFit
<1>6. C \in SUBSET (DOMAIN items) /\ IsFiniteSet(C)
  BY <1>1, DraftsAreFinite DEF Admissible, ChildrenOf, ItemsOf
<1>7. PICK j \in C : TRUE
  BY <1>5, <1>6, FS_Singleton
<1>8. /\ j \in ChildrenOf(items, root) /\ j \in DOMAIN items
      /\ items[j].part = items[k].part /\ items[j].question = q
  BY <1>2, <1>7 DEF ChildrenOf, ItemsOf
<1>9. j = k
  BY <1>1, <1>3, <1>8 DEF Admissible, Storable
<1> QED
  BY <1>1, <1>8, <1>9

\* The indexes leave no room for anything else: an item without a part is the
\* root, and one below a part would repeat the root or a part.
LEMMA ItemsOfQuestion ==
  ASSUME NEW draft, NEW paper, Admissible(draft, paper), NEW root \in Roots(draft.items),
         NEW k \in ItemsOf(draft.items, draft.items[root].question)
  PROVE  \/ k = root
         \/ /\ k \in ChildrenOf(draft.items, root)
            /\ draft.items[k].part \in paper[draft.items[root].question]
<1>1. PICK items : items = draft.items
  OBVIOUS
<1>2. PICK q : q = items[root].question
  OBVIOUS
<1>3. /\ k \in DOMAIN items /\ items[k].question = q
      /\ root \in DOMAIN items /\ items[root].part = NoPart
  BY <1>1, <1>2 DEF ItemsOf, Roots
<1>4. items[k].part \in paper[q] \cup {NoPart}
  BY <1>1, <1>3 DEF Admissible, Accepts, WellReferenced
<1>5. CASE items[k].part = NoPart
  BY <1>1, <1>2, <1>3, <1>5 DEF Admissible, Storable
<1>6. CASE items[k].part \in paper[q]
  BY <1>1, <1>2, <1>3, <1>6, PartItemsAreChildren
<1> QED
  BY <1>4, <1>5, <1>6

LEMMA ChildrenHaveParts ==
  ASSUME NEW draft, NEW paper, Admissible(draft, paper), NEW root \in Roots(draft.items),
         NEW k \in ChildrenOf(draft.items, root)
  PROVE  draft.items[k].part \in paper[draft.items[root].question]
<1>1. k \in ItemsOf(draft.items, draft.items[root].question)
  BY DEF ChildrenOf
<1>2. k # root
  BY DraftsAreFinite DEF ChildrenOf, ItemsOf, Roots, Admissible
<1> QED
  BY <1>1, <1>2, ItemsOfQuestion

\* What is marked of a question is its root or the root's children.
MarkedOf(items, paper, root) ==
  IF paper[items[root].question] = {} THEN {root} ELSE ChildrenOf(items, root)

LEMMA MarkedItems ==
  ASSUME NEW draft, NEW paper, Admissible(draft, paper), NEW root \in Roots(draft.items)
  PROVE  Scorable(draft.items) \cap ItemsOf(draft.items, draft.items[root].question)
           = MarkedOf(draft.items, paper, root)
<1>1. PICK items : items = draft.items
  OBVIOUS
<1>2. PICK q : q = items[root].question
  OBVIOUS
<1>3. /\ root \in DOMAIN items /\ q \in DOMAIN paper
      /\ Roots(items) \cap ItemsOf(items, q) = {root}
  BY <1>1, <1>2, QuestionIsCovered
<1>4. CASE paper[q] = {}
  <2>1. items[root].scorable /\ ItemsOf(items, q) = {root}
    BY <1>1, <1>2, <1>4, QuestionIsCovered
  <2> QED BY <1>1, <1>2, <1>3, <1>4, <2>1 DEF Scorable, MarkedOf
<1>5. CASE paper[q] # {}
  <2>1. PartsFit(items, root, paper[q])
    BY <1>1, <1>2, <1>5, QuestionIsCovered
  <2>2. /\ ~ items[root].scorable
        /\ \A k \in ChildrenOf(items, root) : items[k].scorable
    BY <2>1 DEF PartsFit
  <2>3. ChildrenOf(items, root) \subseteq Scorable(items) \cap ItemsOf(items, q)
    BY <1>2, <2>2 DEF ChildrenOf, ItemsOf, Scorable
  <2>4. \A k \in ItemsOf(items, q) : k = root \/ k \in ChildrenOf(items, root)
    BY <1>1, <1>2, ItemsOfQuestion
  <2>5. Scorable(items) \cap ItemsOf(items, q) \subseteq ChildrenOf(items, root)
    BY <2>2, <2>4 DEF Scorable
  <2> QED BY <1>1, <1>2, <1>5, <2>3, <2>5 DEF MarkedOf
<1> QED
  BY <1>4, <1>5

\* They make up the marks of the root.
LEMMA MarksOfMarked ==
  ASSUME NEW draft, NEW paper, Admissible(draft, paper), NEW root \in Roots(draft.items)
  PROVE  /\ MarkedOf(draft.items, paper, root) \in SUBSET (DOMAIN draft.items)
         /\ \A k \in MarkedOf(draft.items, paper, root) :
              draft.items[k].question = draft.items[root].question
         /\ Total(Marks(draft.items), MarkedOf(draft.items, paper, root))
              = Marks(draft.items)[root]
<1>1. PICK items : items = draft.items
  OBVIOUS
<1>2. PICK q : q = items[root].question
  OBVIOUS
<1>3. root \in DOMAIN items
  BY <1>1, QuestionIsCovered
<1>4. Marks(items)[root] \in Nat /\ Marks(items)[root] = items[root].maximum
  BY <1>1, <1>3 DEF Admissible, IsDraft, Marks
<1>5. CASE paper[q] = {}
  BY <1>1, <1>2, <1>3, <1>4, <1>5, TotalOfOne DEF MarkedOf
<1>6. CASE paper[q] # {}
  <2>1. MarksOf(items, ChildrenOf(items, root)) = items[root].maximum
    BY <1>1, <1>2, <1>6, QuestionIsCovered DEF PartsFit
  <2>2. ChildrenOf(items, root) \in SUBSET (DOMAIN items)
    BY DEF ChildrenOf, ItemsOf
  <2>3. \A k \in ChildrenOf(items, root) : items[k].question = q
    BY <1>2 DEF ChildrenOf, ItemsOf
  <2>4. MarksOf(items, ChildrenOf(items, root))
          = Total(Marks(items), ChildrenOf(items, root))
    BY <1>1, <2>2, MarksAreTotals DEF Admissible
  <2> QED BY <1>1, <1>2, <1>4, <1>6, <2>1, <2>2, <2>3, <2>4 DEF MarkedOf
<1> QED
  BY <1>5, <1>6

\* What is marked adds up to what the roots carry: root by root.
LEMMA MarksAddUp ==
  ASSUME NEW draft, NEW paper, Admissible(draft, paper)
  PROVE  Total(Marks(draft.items), Scorable(draft.items))
           = Total(Marks(draft.items), Roots(draft.items))
<1>1. PICK items : items = draft.items
  OBVIOUS
<1>2. PICK w : w = Marks(items)
  OBVIOUS
<1>3. PICK R : R = Roots(items)
  OBVIOUS
<1> DEFINE M(r) == MarkedOf(items, paper, r)
           All(A) == UNION {M(r) : r \in A}
           G == {A \in SUBSET R : Total(w, All(A)) = Total(w, A)}
<1>4. R \in SUBSET (DOMAIN items)
  BY <1>3 DEF Roots
<1>5. \A T \in SUBSET (DOMAIN items) : IsFiniteSet(T) /\ Naturally(w, T)
  BY <1>1, <1>2, DraftsAreFinite DEF Admissible
<1>6. ASSUME NEW r \in R
      PROVE  /\ M(r) \in SUBSET (DOMAIN items) /\ r \in DOMAIN items
             /\ \A k \in M(r) : items[k].question = items[r].question
             /\ Total(w, M(r)) = w[r]
             /\ Roots(items) \cap ItemsOf(items, items[r].question) = {r}
  <2>1. r \in Roots(draft.items) /\ r \in DOMAIN items
    BY <1>1, <1>3, <1>4, <1>6
  <2>2. /\ Roots(items) \cap ItemsOf(items, items[r].question) = {r}
    BY <1>1, <2>1, QuestionIsCovered
  <2>3. /\ M(r) \in SUBSET (DOMAIN items)
        /\ \A k \in M(r) : items[k].question = items[r].question
        /\ Total(w, M(r)) = w[r]
    BY <1>1, <1>2, <2>1, MarksOfMarked
  <2> QED BY <2>1, <2>2, <2>3
<1>7. All(R) = Scorable(items)
  <2>1. ASSUME NEW k \in Scorable(items) PROVE k \in All(R)
    <3>1. k \in DOMAIN items
      BY <2>1 DEF Scorable
    <3>2. items[k].question \in DOMAIN paper
      BY <1>1, <3>1 DEF Admissible, Accepts, WellReferenced
    <3>3. QuestionFits(items, items[k].question, paper[items[k].question])
      BY <1>1, <3>2 DEF Admissible, Accepts
    <3>4. PICK r \in R : Roots(items) \cap ItemsOf(items, items[k].question) = {r}
      BY <1>3, <3>3 DEF QuestionFits
    <3>5. items[r].question = items[k].question
      BY <3>4 DEF ItemsOf
    <3>6. k \in M(r)
      BY <1>1, <1>3, <2>1, <3>1, <3>5, MarkedItems DEF ItemsOf
    <3> QED BY <3>6
  <2>2. ASSUME NEW r \in R, NEW k \in M(r) PROVE k \in Scorable(items)
    BY <1>1, <1>3, MarkedItems
  <2> QED BY <2>1, <2>2
<1>8. {} \in G
  BY <1>5
<1>9. ASSUME NEW A \in SUBSET R, NEW r \in R \ A, A \in G PROVE A \cup {r} \in G
  <2>1. PICK B : B = A \cup {r}
    OBVIOUS
  <2>2. PICK H : H = All(A)
    OBVIOUS
  <2>3. PICK N : N = M(r)
    OBVIOUS
  <2>4. All(B) = H \cup N
    BY <2>1, <2>2, <2>3
  <2>5. H \in SUBSET (DOMAIN items) /\ N \in SUBSET (DOMAIN items)
        /\ H \cup N \in SUBSET (DOMAIN items)
    BY <1>6, <2>2, <2>3
  <2>6. H \cap N = {}
    <3>1. SUFFICES ASSUME NEW k \in H, k \in N PROVE FALSE
      OBVIOUS
    <3>2. PICK s \in A : k \in M(s)
      BY <2>2
    <3>3. items[r].question = items[s].question
      BY <1>6, <2>3, <3>1, <3>2
    <3>4. s = r
      BY <1>3, <1>6, <3>3
    <3> QED BY <1>9, <3>4
  <2>7. Total(w, H \cup N) = Total(w, H) + Total(w, N)
    BY <1>5, <2>5, <2>6, TotalUnion
  <2>8. B \in SUBSET (DOMAIN items) /\ A \in SUBSET (DOMAIN items)
        /\ r \in B /\ B \ {r} = A
    BY <1>4, <1>9, <2>1
  <2>9. Total(w, B) = w[r] + Total(w, A)
    BY <1>5, <2>8, TotalRemoves
  <2>10. Total(w, N) = w[r]
    BY <1>6, <2>3
  <2>11. Total(w, H) = Total(w, A)
    BY <1>9, <2>2
  <2>12. Total(w, A) \in Nat /\ w[r] \in Nat
    <3>1. IsFiniteSet(A) /\ Naturally(w, A) /\ Naturally(w, B)
      BY <1>5, <2>8
    <3> QED BY <2>8, <3>1, TotalIsNatural DEF Naturally
  <2>13. Total(w, All(B)) = Total(w, B)
    <3> HIDE DEF All
    <3> QED BY <2>4, <2>7, <2>9, <2>10, <2>11, <2>12
  <2>14. B \in SUBSET R
    BY <2>1
  <2> HIDE DEF All
  <2> QED BY <2>1, <2>13, <2>14
<1>10. IsFiniteSet(R)
  BY <1>4, <1>5
<1> HIDE DEF G
<1>11. R \in G
  BY <1>8, <1>9, <1>10, SetInduction
<1> QED
  BY <1>1, <1>2, <1>3, <1>7, <1>11 DEF G

\* A scheme that the validator accepts and the indexes store marks a question
\* without parts as a whole and any other by one item for each part and by
\* nothing else, and the marks add up to the maximum: whatever the items,
\* their number and their order.
THEOREM AcceptedSchemeIsComplete ==
  ASSUME NEW draft, NEW paper, IsDraft(draft), Accepts(draft, paper),
         Storable(draft.items), \A q \in DOMAIN paper : NoPart \notin paper[q]
  PROVE  SchemeIsComplete(draft, paper)
<1>1. PICK items : items = draft.items
  OBVIOUS
<1>2. Admissible(draft, paper)
  BY DEF Admissible
<1>3. ASSUME NEW q \in DOMAIN paper
      PROVE  MarkedBy(items, q, IF paper[q] = {} THEN {NoPart} ELSE paper[q])
  <2>1. PICK root \in Roots(items) : Roots(items) \cap ItemsOf(items, q) = {root}
    BY <1>1, <1>2 DEF Admissible, Accepts, QuestionFits
  <2>2. items[root].question = q /\ items[root].part = NoPart
    BY <2>1 DEF ItemsOf, Roots
  <2>3. PICK marked : marked = Scorable(items) \cap ItemsOf(items, q)
    OBVIOUS
  <2>4. marked = MarkedOf(items, paper, root)
    BY <1>1, <1>2, <2>2, <2>3, MarkedItems
  <2>5. CASE paper[q] = {}
    <3>1. marked = {root}
      BY <2>2, <2>4, <2>5 DEF MarkedOf
    <3>2. {k \in marked : items[k].part = NoPart} = {root}
      BY <2>2, <3>1
    <3>3. Cardinality({k \in marked : items[k].part = NoPart}) = 1
      BY <3>2, FS_Singleton
    <3> QED BY <2>2, <2>3, <2>5, <3>1, <3>3 DEF MarkedBy
  <2>6. CASE paper[q] # {}
    <3>1. marked = ChildrenOf(items, root)
      BY <2>2, <2>4, <2>6 DEF MarkedOf
    <3>2. PartsFit(items, root, paper[q])
      BY <1>1, <1>2, <2>2, <2>6, QuestionIsCovered
    <3>3. \A p \in paper[q] : Cardinality({k \in marked : items[k].part = p}) = 1
      BY <3>1, <3>2 DEF PartsFit
    <3>4. \A k \in marked : items[k].part \in paper[q]
      BY <1>1, <1>2, <2>2, <3>1, ChildrenHaveParts
    <3> QED BY <2>3, <2>6, <3>3, <3>4 DEF MarkedBy
  <2> QED BY <2>5, <2>6
<1>4. AddsUp(draft)
  <2>1. /\ MarksOf(items, Scorable(items)) = Total(Marks(items), Scorable(items))
        /\ MarksOf(items, Roots(items)) = Total(Marks(items), Roots(items))
    BY <1>1, MarksAreTotals DEF Scorable, Roots
  <2>2. Total(Marks(items), Scorable(items)) = Total(Marks(items), Roots(items))
    BY <1>1, <1>2, MarksAddUp
  <2>3. MarksOf(items, Roots(items)) = draft.maximum
    BY <1>1 DEF Accepts
  <2> QED BY <1>1, <2>1, <2>2, <2>3 DEF AddsUp
<1> QED
  BY <1>1, <1>3, <1>4 DEF SchemeIsComplete

----------------------------------------------------------------------------
(* The seeded scheme after its migration.                                   *)

LEMMA TotalsKeepItems ==
  ASSUME NEW draft, IsDraft(draft)
  PROVE  LET items == draft.items
             totals == TotalsOnly(draft).items
         IN  /\ IsDraft(TotalsOnly(draft))
             /\ TotalsOnly(draft).maximum = draft.maximum
             /\ DOMAIN totals = DOMAIN items
             /\ \A k \in DOMAIN items :
                  /\ totals[k].question = items[k].question
                  /\ totals[k].part = items[k].part
                  /\ totals[k].maximum = items[k].maximum
                  /\ totals[k].scorable = (items[k].part = NoPart)
<1>1. PICK items : items = draft.items
  OBVIOUS
<1>2. PICK totals :
        totals = [k \in DOMAIN items |->
                    [items[k] EXCEPT !.scorable = (items[k].part = NoPart)]]
  OBVIOUS
<1>3. /\ TotalsOnly(draft).items = totals /\ TotalsOnly(draft).maximum = draft.maximum
      /\ DOMAIN TotalsOnly(draft) = {"maximum", "items"}
  BY <1>1, <1>2 DEF TotalsOnly, IsDraft
<1>4. /\ Len(items) \in Nat /\ DOMAIN items = 1..Len(items)
      /\ DOMAIN totals = 1..Len(items)
  BY <1>1, <1>2, DraftsAreFinite
<1>5. ASSUME NEW k \in DOMAIN items
      PROVE  /\ totals[k].question = items[k].question
             /\ totals[k].part = items[k].part
             /\ totals[k].maximum = items[k].maximum
             /\ totals[k].scorable = (items[k].part = NoPart)
             /\ DOMAIN totals[k] = {"question", "part", "parent", "maximum", "scorable"}
             /\ totals[k].maximum \in Nat
  <2>1. /\ DOMAIN items[k] = {"question", "part", "parent", "maximum", "scorable"}
        /\ items[k].maximum \in Nat
    BY <1>1 DEF IsDraft
  <2>2. totals[k] = [items[k] EXCEPT !.scorable = (items[k].part = NoPart)]
    BY <1>2
  <2> QED BY <2>1, <2>2
<1>6. totals \in Seq({totals[k] : k \in DOMAIN totals})
  <2>1. PICK S : S = {totals[k] : k \in DOMAIN totals}
    OBVIOUS
  <2>2. totals \in [1..Len(items) -> S]
    BY <1>2, <1>4, <2>1
  <2> QED BY <1>4, <2>1, <2>2
<1>7. IsDraft(TotalsOnly(draft))
  BY <1>3, <1>4, <1>5, <1>6 DEF IsDraft
<1> QED
  BY <1>1, <1>3, <1>4, <1>5, <1>7

\* The roots are the items without a part; the migration marks them.
LEMMA TotalsMarkTheRoots ==
  ASSUME NEW draft, NEW paper, Admissible(draft, paper)
  PROVE  Scorable(TotalsOnly(draft).items) = Roots(draft.items)
<1>1. PICK items : items = draft.items
  OBVIOUS
<1>2. Scorable(TotalsOnly(draft).items) = {k \in DOMAIN items : items[k].part = NoPart}
  <2>1. PICK totals : totals = TotalsOnly(draft).items
    OBVIOUS
  <2>2. /\ DOMAIN totals = DOMAIN items
        /\ \A k \in DOMAIN items : totals[k].scorable = (items[k].part = NoPart)
    BY <1>1, <2>1, TotalsKeepItems DEF Admissible
  <2>3. {k \in DOMAIN totals : totals[k].scorable}
          = {k \in DOMAIN items : items[k].part = NoPart}
    BY <2>2, Zenon
  <2> QED BY <2>1, <2>3 DEF Scorable
<1>3. ASSUME NEW k \in DOMAIN items, items[k].part = NoPart PROVE k \in Roots(items)
  <2>1. QuestionFits(items, items[k].question, paper[items[k].question])
    BY <1>1 DEF Admissible, Accepts, WellReferenced
  <2>2. PICK root \in Roots(items) :
          Roots(items) \cap ItemsOf(items, items[k].question) = {root}
    BY <2>1 DEF QuestionFits
  <2>3. /\ root \in DOMAIN items /\ items[root].question = items[k].question
        /\ items[root].part = NoPart
    BY <2>2 DEF ItemsOf, Roots
  <2>4. root = k
    BY <1>1, <1>3, <2>3 DEF Admissible, Storable
  <2> QED BY <2>4
<1> QED
  BY <1>1, <1>2, <1>3 DEF Roots

\* Also a scheme whose marks a migration moved from the parts to the totals
\* marks every question once, up to the maximum of the paper.
THEOREM MigratedSchemeMarksOnce ==
  ASSUME NEW draft, NEW paper, IsDraft(draft), Accepts(draft, paper),
         Storable(draft.items), \A q \in DOMAIN paper : NoPart \notin paper[q]
  PROVE  MarksOnce(TotalsOnly(draft), paper)
<1>1. PICK items : items = draft.items
  OBVIOUS
<1>2. PICK totals : totals = TotalsOnly(draft).items
  OBVIOUS
<1>3. Admissible(draft, paper)
  BY DEF Admissible
<1>4. /\ IsDraft(TotalsOnly(draft)) /\ TotalsOnly(draft).maximum = draft.maximum
      /\ DOMAIN totals = DOMAIN items
      /\ \A k \in DOMAIN items : /\ totals[k].question = items[k].question
                                 /\ totals[k].part = items[k].part
                                 /\ totals[k].maximum = items[k].maximum
  BY <1>1, <1>2, TotalsKeepItems
<1>5. Scorable(totals) = Roots(items)
  BY <1>1, <1>2, <1>3, TotalsMarkTheRoots
<1>6. ASSUME NEW q \in DOMAIN paper PROVE MarkedBy(totals, q, {NoPart})
  <2>1. PICK root : Roots(items) \cap ItemsOf(items, q) = {root}
    BY <1>1 DEF Accepts, QuestionFits
  <2>2. PICK marked : marked = Scorable(totals) \cap ItemsOf(totals, q)
    OBVIOUS
  <2>3. ItemsOf(totals, q) = ItemsOf(items, q)
    BY <1>4 DEF ItemsOf
  <2>4. marked = {root} /\ totals[root].part = NoPart
    BY <1>4, <1>5, <2>1, <2>2, <2>3 DEF Roots
  <2>5. {k \in marked : totals[k].part = NoPart} = {root}
    BY <2>4
  <2>6. Cardinality({k \in marked : totals[k].part = NoPart}) = 1
    BY <2>5, FS_Singleton
  <2> QED BY <2>2, <2>4, <2>6 DEF MarkedBy
<1>7. AddsUp(TotalsOnly(draft))
  <2>1. Marks(totals) = Marks(items)
    BY <1>4 DEF Marks
  <2>2. MarksOf(totals, Scorable(totals)) = Total(Marks(totals), Scorable(totals))
    BY <1>2, <1>4, MarksAreTotals DEF Scorable
  <2>3. MarksOf(items, Roots(items)) = Total(Marks(items), Roots(items))
    BY <1>1, MarksAreTotals DEF Roots
  <2>4. MarksOf(items, Roots(items)) = draft.maximum
    BY <1>1 DEF Accepts
  <2> QED BY <1>2, <1>4, <1>5, <2>1, <2>2, <2>3, <2>4 DEF AddsUp
<1>8. ASSUME NEW q \in DOMAIN paper
      PROVE  \E targets \in {{NoPart}, paper[q]} \ {{}} : MarkedBy(totals, q, targets)
  BY <1>6
<1> QED
  BY <1>2, <1>7, <1>8 DEF MarksOnce

----------------------------------------------------------------------------
(* Every stored scheme was accepted for its paper version.                  *)

AcceptedFor(draft, p) == p \in DOMAIN papers /\ Accepts(draft, papers[p].shape)

\* What is stored is what was sent, or the seed after its migration.
StoredFor(stored, p) ==
  \E draft \in Drafts : /\ stored \in {draft, TotalsOnly(draft)}
                        /\ AcceptedFor(draft, p) /\ Storable(draft.items)

SchemesFit ==
  /\ \A s \in DOMAIN schemes : StoredFor(schemes[s].draft, schemes[s].paper)
  /\ \A c \in Clerks :
       clerk[c].phase = "draftScheme" => AcceptedFor(clerk[c].draft, clerk[c].paper)

LEMMA SchemesFitAtInit == PublicationInit => SchemesFit
<1> SUFFICES ASSUME PublicationInit PROVE SchemesFit
  OBVIOUS
<1>1. \A c \in Clerks : clerk[c].phase # "draftScheme"
  BY DEF PublicationInit, NoTask, Task
<1>2. ASSUME NEW shape \in Papers, NEW draft \in Drafts, Seeded(shape, draft)
      PROVE  SchemesFit
  <2>1. /\ DOMAIN schemes = {1} /\ schemes[1].paper = 1
        /\ schemes[1].draft \in {draft, TotalsOnly(draft)}
        /\ DOMAIN papers = {1} /\ papers[1].shape = shape
        /\ Accepts(draft, shape) /\ Storable(draft.items)
    BY <1>2 DEF Seeded
  <2>2. StoredFor(schemes[1].draft, 1)
    BY <2>1 DEF StoredFor, AcceptedFor
  <2> QED BY <1>1, <2>1, <2>2 DEF SchemesFit
<1>3. ASSUME papers = <<>>, schemes = <<>> PROVE SchemesFit
  BY <1>1, <1>3 DEF SchemesFit
<1> QED
  BY <1>2, <1>3 DEF PublicationInit

\* A version keeps its questions, and a scheme its paper and its items.
LEMMA ContentsStay ==
  ASSUME PublicationInv, NEW c \in Clerks, PublishScheme(c) \/ PublishPaper(c)
  PROVE  /\ DOMAIN papers' = DOMAIN papers /\ DOMAIN schemes' = DOMAIN schemes
         /\ \A p \in DOMAIN papers : papers'[p].shape = papers[p].shape
         /\ \A s \in DOMAIN schemes : /\ schemes'[s].paper = schemes[s].paper
                                      /\ schemes'[s].draft = schemes[s].draft
<1> USE SequencesAreTyped DEF PublicationInv, Stored
<1>1. CASE PublishScheme(c)
  <2>1. PICK s : s = clerk[c].scheme
    OBVIOUS
  <2>2. s \in DOMAIN schemes /\ schemes[s] \in SchemeVersion
    BY <1>1, <2>1 DEF PublishScheme, Performing, TasksAreTrue
  <2>3. schemes' = [schemes EXCEPT ![s].status = "PUBLISHED",
                                   ![s].publishedAt = Len(minutes) + 1]
        /\ papers' = papers
    BY <1>1, <2>1 DEF PublishScheme
  <2> QED BY <2>2, <2>3 DEF SchemeVersion
<1>2. CASE PublishPaper(c)
  <2>1. PICK p : p = clerk[c].paper
    OBVIOUS
  <2>2. p \in DOMAIN papers /\ papers[p] \in PaperVersion
    BY <1>2, <2>1 DEF PublishPaper, Performing, TasksAreTrue
  <2>3. papers' = [papers EXCEPT ![p].status = "PUBLISHED",
                                 ![p].publishedAt = Len(minutes) + 1]
        /\ schemes' = schemes
    BY <1>2, <2>1 DEF PublishPaper
  <2> QED BY <2>2, <2>3 DEF PaperVersion
<1> QED
  BY <1>1, <1>2

LEMMA SchemesFitInductive ==
  ASSUME PublicationInv, SchemesFit, [PublicationNext]_publicationVars
  PROVE  SchemesFit'
<1> DEFINE Same(versions, newOnes) ==
             /\ DOMAIN newOnes = DOMAIN versions
             /\ \A k \in DOMAIN versions : newOnes[k] = versions[k]
<1>1. /\ \A s \in DOMAIN schemes : StoredFor(schemes[s].draft, schemes[s].paper)
      /\ \A c \in Clerks : clerk[c].phase = "draftScheme" =>
                             AcceptedFor(clerk[c].draft, clerk[c].paper)
      /\ clerk \in [Clerks -> Clerk]
  BY DEF SchemesFit, PublicationInv, Stored, PublicationTypeOK
<1>2. NoTask.phase # "draftScheme"
  BY DEF NoTask, Task
<1>3. CASE UNCHANGED publicationVars
  BY <1>1, <1>3 DEF SchemesFit, StoredFor, AcceptedFor
<1>4. ASSUME NEW c \in Clerks, Reads(c) PROVE SchemesFit'
  <2>1. papers' = papers /\ schemes' = schemes
    BY <1>4, ReadsKeepTables
  <2>2. PICK t : /\ clerk' = [clerk EXCEPT ![c] = t]
                 /\ t.phase = "draftScheme" => AcceptedFor(t.draft, t.paper)
    <3>1. CASE ReadSchemeVersions(c)
      <4>1. PICK p \in DOMAIN papers, d \in Drafts :
              /\ Accepts(d, papers[p].shape)
              /\ clerk' = [clerk EXCEPT ![c] =
                             Task("draftScheme", LargestVersion(schemes) + 1, p, 0, d)]
        BY <3>1 DEF ReadSchemeVersions, Begin
      <4>2. LET t == Task("draftScheme", LargestVersion(schemes) + 1, p, 0, d)
            IN  t.draft = d /\ t.paper = p
        BY DEF Task
      <4> QED BY <4>1, <4>2 DEF AcceptedFor
    <3>2. CASE ~ ReadSchemeVersions(c)
      <4>1. PICK t : clerk' = [clerk EXCEPT ![c] = t] /\ t.phase # "draftScheme"
        BY <1>2, <1>4, <3>2
           DEF Reads, ReadPaperVersions, FindDraftScheme, FindDraftPaper,
               FindCapturePair, DropTask, Begin, Task
      <4> QED BY <4>1
    <3> QED BY <3>1, <3>2
  <2>3. ASSUME NEW d \in Clerks, clerk'[d].phase = "draftScheme"
        PROVE  AcceptedFor(clerk'[d].draft, clerk'[d].paper)
    <3>1. clerk'[d] = IF d = c THEN t ELSE clerk[d]
      BY <1>1, <2>2
    <3> QED BY <1>1, <2>2, <2>3, <3>1
  <2> QED BY <1>1, <2>1, <2>3 DEF SchemesFit, StoredFor, AcceptedFor
<1> DEFINE Done(c) == clerk' = [clerk EXCEPT ![c] = NoTask]
<1>5. ASSUME NEW c \in Clerks, Done(c), NEW d \in Clerks, clerk'[d].phase = "draftScheme"
      PROVE  clerk'[d] = clerk[d]
  BY <1>1, <1>2, <1>5
<1>6. ASSUME NEW c \in Clerks, CreatePaperVersion(c) PROVE SchemesFit'
  <2>1. Adds(papers, papers') /\ schemes' = schemes /\ Done(c)
    BY <1>6, PaperIsCreated DEF CreatePaperVersion, Performing
  <2>2. \A p \in DOMAIN papers : p \in DOMAIN papers' /\ papers'[p] = papers[p]
    BY <2>1, SequencesAreTyped DEF Adds, PublicationInv, Stored
  <2> QED BY <1>1, <1>5, <1>6, <2>1, <2>2 DEF SchemesFit, StoredFor, AcceptedFor
<1>7. ASSUME NEW c \in Clerks, CreateSchemeVersion(c) PROVE SchemesFit'
  <2> DEFINE row == [version |-> clerk[c].version, status |-> "DRAFT",
                     publishedAt |-> 0, paper |-> clerk[c].paper,
                     draft |-> clerk[c].draft]
  <2>1. /\ schemes' = Append(schemes, row) /\ papers' = papers /\ Done(c)
        /\ clerk[c].phase = "draftScheme" /\ Storable(clerk[c].draft.items)
    BY <1>7 DEF CreateSchemeVersion, Performing
  <2>2. row.paper = clerk[c].paper /\ row.draft = clerk[c].draft
    OBVIOUS
  <2>3. Adds(schemes, schemes')
    BY <1>7, SchemeIsCreated
  <2> HIDE DEF row
  <2>4. /\ Len(schemes) \in Nat /\ DOMAIN schemes = 1..Len(schemes)
        /\ schemes'[Len(schemes) + 1] = row
    BY <2>1, SequencesAreTyped, AppendProperties
       DEF PublicationInv, Stored, PublicationTypeOK
  <2>5. ASSUME NEW s \in DOMAIN schemes'
        PROVE  schemes'[s] = row \/ (s \in DOMAIN schemes /\ schemes'[s] = schemes[s])
    BY <2>3, <2>4 DEF Adds
  <2>6. StoredFor(row.draft, row.paper)
    <3>1. clerk[c].draft \in Drafts
      BY <1>1 DEF Clerk
    <3> QED BY <1>1, <2>1, <2>2, <3>1 DEF StoredFor
  <2>7. ASSUME NEW s \in DOMAIN schemes'
        PROVE  StoredFor(schemes'[s].draft, schemes'[s].paper)
    BY <1>1, <2>5, <2>6
  <2> QED BY <1>1, <1>5, <1>7, <2>1, <2>7 DEF SchemesFit, StoredFor, AcceptedFor
<1>8. ASSUME NEW c \in Clerks, PublishScheme(c) \/ PublishPaper(c) PROVE SchemesFit'
  <2>1. Done(c)
    BY <1>8 DEF PublishScheme, PublishPaper, Performing
  <2> QED BY <1>1, <1>5, <1>8, <2>1, ContentsStay DEF SchemesFit, StoredFor, AcceptedFor
<1>9. ASSUME NEW c \in Clerks, CreateCapture(c) PROVE SchemesFit'
  <2>1. papers' = papers /\ schemes' = schemes /\ Done(c)
    BY <1>9 DEF CreateCapture, Performing
  <2> QED BY <1>1, <1>5, <1>9, <2>1 DEF SchemesFit, StoredFor, AcceptedFor
<1> QED
  BY <1>3, <1>4, <1>6, <1>7, <1>8, <1>9, StepsOfNext

\* A stored scheme marks the questions of its paper version once.
LEMMA StoredSchemesMarkOnce ==
  ASSUME PublicationInv, SchemesFit, NEW s \in DOMAIN schemes
  PROVE  MarksOnce(schemes[s].draft, papers[schemes[s].paper].shape)
<1>1. PICK p : p = schemes[s].paper
  OBVIOUS
<1>2. PICK draft \in Drafts :
        /\ schemes[s].draft \in {draft, TotalsOnly(draft)}
        /\ p \in DOMAIN papers /\ Accepts(draft, papers[p].shape)
        /\ Storable(draft.items)
  BY <1>1 DEF SchemesFit, StoredFor, AcceptedFor
<1>3. papers[p] \in PaperVersion
  BY <1>2, SequencesAreTyped DEF PublicationInv, Stored
<1>4. IsDraft(draft)
  BY DraftsAssumption
<1>5. \A q \in DOMAIN papers[p].shape : NoPart \notin papers[p].shape[q]
  BY <1>3, PapersAssumption DEF PaperVersion
<1>6. MarksOnce(draft, papers[p].shape)
  <2>1. SchemeIsComplete(draft, papers[p].shape)
    BY <1>2, <1>4, <1>5, AcceptedSchemeIsComplete
  <2> QED BY <2>1 DEF SchemeIsComplete, MarksOnce
<1>7. MarksOnce(TotalsOnly(draft), papers[p].shape)
  BY <1>2, <1>4, <1>5, MigratedSchemeMarksOnce
<1> QED
  BY <1>1, <1>2, <1>6, <1>7

----------------------------------------------------------------------------
(* The theorems.                                                            *)

LEMMA PublicationInvAlways == PublicationSpec => []PublicationInv
BY PublicationInvAtInit, PublicationInvInductive, PTL DEF PublicationSpec

\* The tables of versions, captures and audit rows hold what their columns
\* may, and no request remembers anything else.
THEOREM PublicationIsTyped == PublicationSpec => []PublicationTypeOK
<1>1. PublicationInv => PublicationTypeOK
  BY DEF PublicationInv, Stored
<1> QED BY <1>1, PublicationInvAlways, PTL

\* However many requests draft versions at once, the versions of a paper and
\* of a scheme are numbered 1, 2, 3, ... in the order of commit.
THEOREM DraftsAreNumbered == PublicationSpec => []VersionsAreNumbered
<1>1. PublicationInv => VersionsAreNumbered
  BY DEF PublicationInv, Stored
<1> QED BY <1>1, PublicationInvAlways, PTL

\* A published paper version has a published scheme, although publish read
\* the scheme in another statement than the one that publishes the paper.
THEOREM PublishedPapersHaveSchemes == PublicationSpec => []PublishedPaperHasScheme
<1>1. PublicationInv => PublishedPaperHasScheme
  BY DEF PublicationInv, Stored
<1> QED BY <1>1, PublicationInvAlways, PTL

\* The audit log tells of every version one creation and, once published, one
\* publication, although any number of requests may have found it a draft.
THEOREM VersionsArePublishedOnce == PublicationSpec => []PublishedOnce
<1>1. PublicationInv /\ LogIsTrue /\ [PublicationNext]_publicationVars => LogIsTrue'
  BY LogInductive
<1> QED
  BY <1>1, PublicationInvAlways, LogAtInit, LogTellsOnce, PTL DEF PublicationSpec

\* A capture session stands on a published paper and a published scheme that
\* name each other.
THEOREM CapturesStandOnPairs == PublicationSpec => []CapturesAreBound
<1>1. PublicationInv => CapturesAreBound
  BY DEF PublicationInv, Stored
<1> QED BY <1>1, PublicationInvAlways, PTL

\* A captured sheet can be marked: it stands on a published pair that name
\* each other, and the scheme marks every question of the paper once, as a
\* whole or by its parts, up to its maximum.
THEOREM CapturesCanBeMarked == PublicationSpec => []CapturesAreMarkable
<1>1. PublicationInv /\ SchemesFit => CapturesAreMarkable
  <2> SUFFICES ASSUME PublicationInv, SchemesFit PROVE CapturesAreMarkable
    OBVIOUS
  <2>1. CapturesAreBound
    BY DEF PublicationInv, Stored
  <2>2. ASSUME NEW k \in DOMAIN captures
        PROVE  MarksOnce(schemes[captures[k].scheme].draft,
                         papers[captures[k].paper].shape)
    <3>1. /\ captures[k].scheme \in DOMAIN schemes
          /\ schemes[captures[k].scheme].paper = captures[k].paper
      BY <2>1 DEF CapturesAreBound, BoundPair
    <3> QED BY <3>1, StoredSchemesMarkOnce
  <2> QED BY <2>1, <2>2 DEF CapturesAreMarkable
<1>2. PublicationInv /\ SchemesFit /\ [PublicationNext]_publicationVars => SchemesFit'
  BY SchemesFitInductive
<1> QED
  BY <1>1, <1>2, PublicationInvAlways, SchemesFitAtInit, PTL DEF PublicationSpec

\* Whatever the validator and the indexes let through for a paper version is
\* complete for its questions.
THEOREM AcceptedSchemesCanBeMarked == PublicationSpec => []AcceptedSchemesAreComplete
<1>1. PublicationInv => AcceptedSchemesAreComplete
  <2> SUFFICES ASSUME PublicationInv PROVE AcceptedSchemesAreComplete
    OBVIOUS
  <2>1. ASSUME NEW p \in DOMAIN papers PROVE papers[p].shape \in Papers
    BY SequencesAreTyped DEF PublicationInv, Stored, PaperVersion
  <2>2. ASSUME NEW shape \in Papers, NEW draft \in Admitted(shape)
        PROVE  SchemeIsComplete(draft, shape)
    <3>1. draft \in Submissions /\ Accepts(draft, shape) /\ Storable(draft.items)
      BY DEF Admitted
    <3>2. IsDraft(draft) /\ \A q \in DOMAIN shape : NoPart \notin shape[q]
      BY <3>1, DraftsAssumption, PapersAssumption
    <3> QED BY <3>1, <3>2, AcceptedSchemeIsComplete
  <2> QED
    BY <2>1, <2>2 DEF AcceptedSchemesAreComplete, AdmittedIncomplete
<1> QED BY <1>1, PublicationInvAlways, PTL

\* What was published never changes again: the services look only at what
\* they read, it is the trigger that keeps a late request from changing it.
THEOREM PublishedVersionsAreFinal == PublicationSpec => PublishedIsFinal
<1>1. PublicationInv /\ [PublicationNext]_publicationVars =>
        [Kept(papers, papers') /\ Kept(schemes, schemes')]_publicationVars
  BY StepGrows DEF Grows
<1> QED
  BY <1>1, PublicationInvAlways, PTL DEF PublicationSpec, PublishedIsFinal

================================================================================
