---------------------------- MODULE MarkSheetDb ----------------------------
(***************************************************************************)
(* The PostgreSQL rows of ONE mark sheet, shared by the components that    *)
(* read and write them: uploads, extraction, verification, calculations.   *)
(*                                                                         *)
(* Every handler of the backend runs inside prisma.$transaction at         *)
(* PostgreSQL's default READ COMMITTED level and takes no lock when it     *)
(* reads.  A handler is therefore modelled as one step per read that its   *)
(* decision depends on, and one step that makes all of its writes: the     *)
(* commit.  Row locks order the commits; a unique index that is violated   *)
(* makes the commit impossible.                                            *)
(*                                                                         *)
(* A mark is a natural number: the columns are NUMERIC(7,2), scaled by a   *)
(* hundred.  No handler of the backend writes handwritten_total; it is     *)
(* what an operator entered, or NULL, and does not change.                 *)
(***************************************************************************)
EXTENDS Naturals, Sequences, FiniteSets

CONSTANTS
  Items,      \* scorable items of the sheet's marking-scheme version
  MaxMark,    \* maximum mark of each item
  AiMarks,    \* the marks a recognizer may report; some exceed the maximum
  HandwrittenTotals, \* what the sheet may say its total is: {} or {total}
  NoMark      \* SQL NULL in a column of marks

ASSUME ItemsAssumption == IsFiniteSet(Items) /\ Items # {}
ASSUME MaxMarkAssumption == MaxMark \in [Items -> Nat]
ASSUME AiMarksAssumption == AiMarks \subseteq Nat
ASSUME HandwrittenAssumption == HandwrittenTotals \subseteq SUBSET Nat
ASSUME NoMarkAssumption == NoMark \notin Nat

VARIABLES
  status,       \* mark_sheets.status
  uploadStatus, \* file_objects.upload_status of the sheet's image
  handwritten,  \* mark_sheets.handwritten_total: {} is NULL
  modelRow,     \* whether the tenant has an ACTIVE ai_model_versions row
  extractions,  \* batches of extracted_marks rows: extracted_value per item
  values,       \* mark_values of each item's extracted mark, oldest first
  session,      \* verification_sessions row that the first batch created
  selected,     \* verification_items.selected_mark_value_id, 0 is NULL
  verdict,      \* status of the item, in verification_items and extracted_marks
  calcs,        \* calculation_results rows, in the order they were committed
  audit         \* audit_logs rows, in the order they were committed

uploadTables == <<uploadStatus, handwritten>>
extractionTables == <<modelRow, extractions>>
reviewTables == <<session, selected, verdict>>
tables == <<status, uploadStatus, handwritten, modelRow, extractions, values,
            session, selected, verdict, calcs, audit>>

----------------------------------------------------------------------------
SheetStatuses == {"PENDING_UPLOAD", "UPLOADED", "PROCESSING",
                  "REVIEW_REQUIRED", "VERIFIED", "COMPLETED"}
SessionStatuses == {"NONE", "OPEN", "SUBMITTED", "APPROVED"}
Verdicts == {"NONE", "IN_REVIEW", "VERIFIED", "CORRECTED"}
Results == {"READY_FOR_EXPORT", "TOTAL_MISMATCH", "INCOMPLETE", "INVALID"}
AuditActions == {"UPLOAD_COMPLETED", "AI_EXTRACTION_INGESTED",
                 "AI_EXTRACTION_FALLBACK_CREATED", "MARK_VERIFIED",
                 "MARK_CORRECTED", "VERIFICATION_SUBMITTED",
                 "VERIFICATION_APPROVED", "CALCULATION_CREATED",
                 "TOTAL_MISMATCH_RESOLVED"}

\* What a recognizer, or nobody, says about the items of the sheet.
Batch == [Items -> AiMarks \cup {NoMark}]
EmptyBatch == [i \in Items |-> NoMark]

MarkValue == [value : Nat, source : {"AI", "REVIEWER"}]
Session == [status : SessionStatuses, lockVersion : Nat]

\* An audit row names the entity it is about: an item's extracted mark, or
\* the sheet, its session or its calculation; new is the value id or version.
AuditEntities == Items \cup {"sheet"}
AuditRow == [action : AuditActions, entity : AuditEntities, new : Nat]
Audited(action, entity, new) ==
  audit' = Append(audit, [action |-> action, entity |-> entity, new |-> new])

Digest == [Items -> [id : Nat, value : Nat \cup {NoMark}]]
Calculation == [version : Nat, total : Nat, digest : Digest, status : Results]

DbTypeOK ==
  /\ status \in SheetStatuses
  /\ uploadStatus \in {"PENDING", "COMPLETED"}
  /\ handwritten \in HandwrittenTotals
  /\ modelRow \in BOOLEAN
  /\ extractions \in Seq(Batch)
  /\ values \in [Items -> Seq(MarkValue)]
  /\ session \in Session
  /\ selected \in [Items -> Nat]
  /\ verdict \in [Items -> Verdicts]
  /\ calcs \in Seq(Calculation)
  /\ audit \in Seq(AuditRow)

\* The rows uploads.create commits: a sheet, its pending file, no results.
DbInit ==
  /\ status = "PENDING_UPLOAD"
  /\ uploadStatus = "PENDING"
  /\ handwritten \in HandwrittenTotals
  /\ modelRow \in BOOLEAN
  /\ extractions = <<>>
  /\ values = [i \in Items |-> <<>>]
  /\ session = [status |-> "NONE", lockVersion |-> 0]
  /\ selected = [i \in Items |-> 0]
  /\ verdict = [i \in Items |-> "NONE"]
  /\ calcs = <<>>
  /\ audit = <<>>

\* Mutant: no number becomes the number zero.
AiValuesOrZero(batch) ==
  [i \in Items |-> <<[value |-> IF batch[i] = NoMark THEN 0 ELSE batch[i],
                     source |-> "AI"]>>]

\* The mark_values that a stored batch brings with it: one row from the
\* recognizer for every item it gave a number, none for the others.
AiValues(batch) ==
  [i \in Items |-> IF batch[i] = NoMark THEN <<>>
                   ELSE <<[value |-> batch[i], source |-> "AI"]>>]
============================================================================
