----------------------------- MODULE Extraction -----------------------------
(***************************************************************************)
(* From a finished upload to a reviewable sheet: POST upload-complete      *)
(* (UploadsService.complete, then MarkSheetsService.processUploaded) and   *)
(* POST extractions (MarkSheetsService.ingest), run by several requests    *)
(* at once for the same sheet.  Completions overlap and are repeated: two  *)
(* screens of a device may upload one capture, and a second picture of an  *)
(* attempt completes the upload of the first.  Nobody has to repeat one.   *)
(*                                                                         *)
(* A run is one request inside the backend.  Its phase is the next         *)
(* transaction or call it makes:                                           *)
(*   inspect      HEAD of the object, then find the PENDING file           *)
(*   finish       commit of completeVerified's second transaction          *)
(*   load         first reads of processUploaded: the sheet, its rows      *)
(*   model        read of the tenant's ACTIVE model                        *)
(*   claim        commit of processUploaded's transaction: PROCESSING      *)
(*   calling      fetch of /ai/extract-marks                               *)
(*   ingest       reads and checks of ingest                               *)
(*   store        commit of ingest                                         *)
(*   auditFallback, reset   the two endings of the fallback                *)
(***************************************************************************)
EXTENDS MarkSheetDb

CONSTANTS
  Runs,        \* requests the backend may be handling at once
  Cells,       \* items that have a cell in the paper's image template
  ManualBatches, \* the marks clients may ingest by hand, if they ever do
  FaultKinds,  \* which failures happen
  MaxFaults    \* bound on the number of failures in a behaviour

\* A transaction fails: of completeVerified, of processUploaded up to its
\* claim, of an ingest, of the fallback's ingest, of the fallback's audit row,
\* of the reset.  Or the backend stops.
AllFaults == {"upload", "claim", "ingest", "fallback", "audit", "reset", "crash"}

ASSUME CellsAssumption == Cells \subseteq Items
ASSUME ManualAssumption == ManualBatches \subseteq Batch
ASSUME FaultsAssumption == FaultKinds \subseteq AllFaults /\ MaxFaults \in Nat

VARIABLES
  run,     \* what each request is doing
  faults   \* how many failures happened so far, and of which kinds

extractionVars == <<run, faults>>
vars == <<tables, extractionVars>>

Phases == {"idle", "inspect", "finish", "load", "model", "claim", "calling",
           "ingest", "store", "auditFallback", "reset"}
\* Whose marks an ingest stores: a client's, the recognizer's, or nobody's.
Stages == {"none", "manual", "ai", "fallback"}
Run == [phase : Phases, stage : Stages, marks : Batch, sawModel : BOOLEAN]
Idle == [phase |-> "idle", stage |-> "none", marks |-> EmptyBatch,
         sawModel |-> FALSE]

ExtractionTypeOK ==
  /\ run \in [Runs -> Run]
  /\ faults \in [count : 0..MaxFaults, kinds : SUBSET FaultKinds]

TypeOK == DbTypeOK /\ ExtractionTypeOK

ExtractionInit ==
  /\ run = [r \in Runs |-> Idle]
  /\ faults = [count |-> 0, kinds |-> {}]

Goto(r, phase) == run' = [run EXCEPT ![r].phase = phase]
Finish(r) == run' = [run EXCEPT ![r] = Idle]
Ingesting(r, stage, marks) ==
  run' = [run EXCEPT ![r].phase = "ingest", ![r].stage = stage,
                     ![r].marks = marks]

----------------------------------------------------------------------------
(* upload-complete: the file becomes COMPLETED, the sheet UPLOADED.        *)

\* The first transaction: a completed file goes straight to extraction.
BeginCompletion(r) ==
  /\ run[r].phase = "idle"
  /\ Goto(r, IF uploadStatus = "COMPLETED" THEN "load" ELSE "inspect")
  /\ UNCHANGED <<tables, faults>>

\* The object matches, and the second transaction still finds it PENDING.
FindPendingFile(r) ==
  /\ run[r].phase = "inspect"
  /\ uploadStatus = "PENDING"
  /\ Goto(r, "finish")
  /\ UNCHANGED <<tables, faults>>

\* 'Upload session state changed', or an object that does not match.
RefuseCompletion(r) ==
  /\ run[r].phase = "inspect"
  /\ Finish(r)
  /\ UNCHANGED <<tables, faults>>

\* Both updates are addressed by id alone.
FinishUpload(r) ==
  /\ run[r].phase = "finish"
  /\ uploadStatus' = "COMPLETED"
  /\ status' = "UPLOADED"
  /\ Audited("UPLOAD_COMPLETED", "sheet", 0)
  /\ Goto(r, "load")
  /\ UNCHANGED <<handwritten, extractionTables, values, reviewTables, calcs,
                 faults>>

----------------------------------------------------------------------------
(* processUploaded: claim the sheet, ask the AI service, store its answer. *)

\* Mutant: a template is all it takes to extract a sheet.
ExtractableByTemplate == Cells # {}

Extractable ==
  /\ extractions = <<>>
  /\ status = "UPLOADED"
  /\ Cells # {}

LoadSheet(r) ==
  /\ run[r].phase = "load"
  /\ Extractable
  /\ Goto(r, "model")
  /\ UNCHANGED <<tables, faults>>

\* Nothing to extract, or no usable template: the sheet is left as it is.
SkipSheet(r) ==
  /\ run[r].phase = "load"
  /\ ~Extractable
  /\ Finish(r)
  /\ UNCHANGED <<tables, faults>>

FindModel(r) ==
  /\ run[r].phase = "model"
  /\ run' = [run EXCEPT ![r].phase = "claim", ![r].sawModel = modelRow]
  /\ UNCHANGED <<tables, faults>>

\* A run that saw no model inserts the default one, whose name and version
\* are unique, and then marks the sheet.
ClaimSheet(r) ==
  /\ run[r].phase = "claim"
  /\ run[r].sawModel \/ ~modelRow
  /\ modelRow' = TRUE
  /\ status' = "PROCESSING"
  /\ Goto(r, "calling")
  /\ UNCHANGED <<uploadTables, extractions, values, reviewTables, calcs,
                 audit, faults>>

\* Another run inserted the default model first: the transaction fails.
LoseModelRace(r) ==
  /\ run[r].phase = "claim"
  /\ ~run[r].sawModel /\ modelRow
  /\ Finish(r)
  /\ UNCHANGED <<tables, faults>>

\* The answer has one entry for each cell of the template.
AiAnswers(r) ==
  /\ run[r].phase = "calling"
  /\ \E answer \in [Cells -> AiMarks \cup {NoMark}] :
       Ingesting(r, "ai", [i \in Items |-> IF i \in Cells THEN answer[i]
                                           ELSE NoMark])
  /\ UNCHANGED <<tables, faults>>

\* An error status, a timeout, or an answer that ingest refuses as malformed.
AiFails(r) ==
  /\ run[r].phase = "calling"
  /\ Ingesting(r, "fallback", EmptyBatch)
  /\ UNCHANGED <<tables, faults>>

----------------------------------------------------------------------------
(* ingest, called with the recognizer's marks, with none, or by a client.  *)

BeginManualIngest(r) ==
  /\ run[r].phase = "idle"
  /\ \E marks \in ManualBatches : Ingesting(r, "manual", marks)
  /\ UNCHANGED <<tables, faults>>

Ingestible ==
  /\ status \in {"UPLOADED", "PROCESSING"}
  /\ modelRow
  /\ extractions = <<>>

CheckIngest(r) ==
  /\ run[r].phase = "ingest"
  /\ Ingestible
  /\ Goto(r, "store")
  /\ UNCHANGED <<tables, faults>>

\* Mutant: the fallback stores the marks that have just been refused.
IngestFailedKeepingMarks(r) ==
  \/ run[r].stage = "manual" /\ Finish(r)
  \/ run[r].stage = "ai" /\ Ingesting(r, "fallback", run[r].marks)
  \/ run[r].stage = "fallback" /\ Goto(r, "reset")
\* Mutant: a fallback that fails gives up, and leaves the sheet claimed.
IngestFailedGivingUp(r) ==
  \/ run[r].stage \in {"manual", "fallback"} /\ Finish(r)
  \/ run[r].stage = "ai" /\ Ingesting(r, "fallback", EmptyBatch)

\* Mutant: when the recognizer's marks are not stored, the sheet is given back.
IngestFailedWithoutFallback(r) ==
  \/ run[r].stage = "manual" /\ Finish(r)
  \/ run[r].stage \in {"ai", "fallback"} /\ Goto(r, "reset")

\* Where a failed ingest goes: the catch blocks of processUploaded.
IngestFailed(r) ==
  \/ run[r].stage = "manual" /\ Finish(r)
  \/ run[r].stage = "ai" /\ Ingesting(r, "fallback", EmptyBatch)
  \/ run[r].stage = "fallback" /\ Goto(r, "reset")

RejectIngest(r) ==
  /\ \/ run[r].phase = "ingest" /\ ~Ingestible
     \/ run[r].phase = "store" /\ extractions # <<>>
  /\ IngestFailed(r)
  /\ UNCHANGED <<tables, faults>>

\* The unique index on (sheet, item) admits one batch.
RowsAreNew == extractions = <<>>

StoreExtraction(r) ==
  /\ run[r].phase = "store"
  /\ RowsAreNew
  /\ extractions' = Append(extractions, run[r].marks)
  /\ values' = AiValues(run[r].marks)
  /\ session' = [status |-> "OPEN", lockVersion |-> 0]
  /\ selected' = [i \in Items |-> 0]
  /\ verdict' = [i \in Items |-> "IN_REVIEW"]
  /\ status' = "REVIEW_REQUIRED"
  /\ Audited("AI_EXTRACTION_INGESTED", "sheet", 0)
  /\ IF run[r].stage = "fallback" THEN Goto(r, "auditFallback") ELSE Finish(r)
  /\ UNCHANGED <<uploadTables, modelRow, calcs, faults>>

AuditFallback(r) ==
  /\ run[r].phase = "auditFallback"
  /\ Audited("AI_EXTRACTION_FALLBACK_CREATED", "sheet", 0)
  /\ Finish(r)
  /\ UNCHANGED <<status, uploadTables, extractionTables, values, reviewTables,
                 calcs, faults>>

\* Mutant: the sheet is handed to reviewers instead of being given back.
ResetSheetForReview(r) ==
  /\ run[r].phase = "reset"
  /\ status' = IF status = "PROCESSING" THEN "REVIEW_REQUIRED" ELSE status
  /\ Finish(r)
  /\ UNCHANGED <<uploadTables, extractionTables, values, reviewTables, calcs,
                 audit, faults>>
\* The last resort gives a claimed sheet back.
ResetSheet(r) ==
  /\ run[r].phase = "reset"
  /\ status' = IF status = "PROCESSING" THEN "UPLOADED" ELSE status
  /\ Finish(r)
  /\ UNCHANGED <<uploadTables, extractionTables, values, reviewTables, calcs,
                 audit, faults>>

----------------------------------------------------------------------------
(* Failures.  A transaction that fails leaves no trace in the tables.      *)

Fault(kind) ==
  /\ kind \in FaultKinds
  /\ faults.count < MaxFaults
  /\ faults' = [count |-> faults.count + 1, kinds |-> faults.kinds \cup {kind}]
  /\ UNCHANGED tables

TransactionFails(r) ==
  \/ Fault("upload") /\ run[r].phase \in {"inspect", "finish"} /\ Finish(r)
  \/ Fault("claim") /\ run[r].phase \in {"load", "model", "claim"} /\ Finish(r)
  \/ /\ Fault(IF run[r].stage = "fallback" THEN "fallback" ELSE "ingest")
     /\ run[r].phase \in {"ingest", "store"}
     /\ IngestFailed(r)
  \/ Fault("audit") /\ run[r].phase = "auditFallback" /\ Goto(r, "reset")

ResetFails(r) ==
  /\ Fault("reset")
  /\ run[r].phase = "reset"
  /\ Finish(r)

Crash(r) ==
  /\ Fault("crash")
  /\ run[r].phase # "idle"
  /\ Finish(r)

----------------------------------------------------------------------------
CompletionStep(r) ==
  \/ FindPendingFile(r) \/ RefuseCompletion(r) \/ FinishUpload(r)
  \/ LoadSheet(r) \/ SkipSheet(r) \/ FindModel(r) \/ ClaimSheet(r)
  \/ LoseModelRace(r) \/ AiAnswers(r) \/ AiFails(r)
IngestStep(r) ==
  \/ CheckIngest(r) \/ RejectIngest(r) \/ StoreExtraction(r)
  \/ AuditFallback(r) \/ ResetSheet(r)
FailureStep(r) == TransactionFails(r) \/ ResetFails(r) \/ Crash(r)

ExtractionNext ==
  \E r \in Runs :
    \/ BeginCompletion(r) \/ BeginManualIngest(r)
    \/ CompletionStep(r) \/ IngestStep(r) \/ FailureStep(r)

Init == DbInit /\ ExtractionInit
Spec == Init /\ [][ExtractionNext]_vars

\* A handler that has begun runs to its end.  Nobody must complete an upload
\* again: create refuses a file that is COMPLETED, and the screen of a sheet
\* only reads it.  Nobody must ingest by hand, and no failure must happen.
FairSpec ==
  /\ Spec
  /\ \A r \in Runs : WF_vars(CompletionStep(r)) /\ WF_vars(IngestStep(r))

----------------------------------------------------------------------------
(* Properties.                                                             *)

\* A sheet under review has the rows and the open session to review.
ReviewableSheetHasSession ==
  status = "REVIEW_REQUIRED" => extractions # <<>> /\ session.status = "OPEN"

\* Marks are only ever attached to a sheet whose image is in the store.
ExtractionHasImage == extractions # <<>> => uploadStatus = "COMPLETED"

\* The fallback is recorded only when it is what really filled the sheet:
\* one batch, without a single invented value, and recorded once.
FallbackRows == {k \in DOMAIN audit :
                   audit[k].action = "AI_EXTRACTION_FALLBACK_CREATED"}
FallbackAuditIsTrue ==
  FallbackRows # {} =>
    extractions = <<EmptyBatch>> /\ Cardinality(FallbackRows) = 1

\* While the backend does not crash and its reset does not fail, PROCESSING
\* means that some request is still working on the sheet.
HandlesSheet(r) ==
  \/ run[r].phase = "calling"
  \/ run[r].phase \in {"ingest", "store"} /\ run[r].stage \in {"ai", "fallback"}
  \/ run[r].phase = "reset"
Stranding == {"crash", "reset"} \cap faults.kinds # {}
ProcessingHasHandler ==
  status = "PROCESSING" => Stranding \/ \E r \in Runs : HandlesSheet(r)

\* An uploaded sheet gets its rows: from the recognizer or, when it fails or
\* does not answer, or when its marks cannot be stored, from the fallback, and
\* however completions overlap.  A sheet is left waiting only if a request
\* failed before its claim or crashed, or if the fallback or the reset failed
\* as well: a sheet given back is not extracted again unless somebody asks.
Abandoned == {"claim", "fallback", "reset", "crash"} \cap faults.kinds # {}
UploadIsExtracted == status = "UPLOADED" ~> extractions # <<>> \/ Abandoned

\* Once a sheet is in review and no request is at work on it, repeating the
\* completion or ingesting marks does not take it out of review any more,
\* however those requests overlap and fail.
Settled == status = "REVIEW_REQUIRED" /\ \A r \in Runs : run[r].phase = "idle"
SettledReviewStays == [](Settled => [](status = "REVIEW_REQUIRED"))

\* However completions were repeated and overlapped, once none is at work a
\* sheet that has its rows is ready for review, and not queued again.
CompletionIsIdempotent ==
  extractions # <<>> /\ (\A r \in Runs : run[r].phase = "idle")
    => status = "REVIEW_REQUIRED"

\* The promise to the reviewer: suggestions are written once, all at once.
AdviceOn(i) ==
  {<<k, values[i][k].value>> :
     k \in {n \in DOMAIN values[i] : values[i][n].source = "AI"}}
Advisory == INSTANCE AdvisoryExtraction
              WITH suggestion <- extractions,
                   advice <- [i \in Items |-> AdviceOn(i)]
SuggestionsAreWrittenOnce == Advisory!Spec
============================================================================
