--------------------------- MODULE ExtractionProofs ---------------------------
(***************************************************************************)
(* Proofs about Extraction for every set of items and cells, every number  *)
(* of overlapping completions and manual ingests, and any failures: the    *)
(* rows are typed, written once and whole, never without the image; a      *)
(* claimed sheet is in somebody's hands; the fallback's audit row is true; *)
(* a review that nobody is at work on stays one.                           *)
(***************************************************************************)
EXTENDS Extraction, SequenceTheorems, FiniteSetTheorems, TLAPS

USE DEF tables, uploadTables, extractionTables, reviewTables, extractionVars

\* What a step does to the request that makes it keeps the request's type.
LEMMA RunsAreTyped ==
  ASSUME ExtractionTypeOK, NEW r \in Runs
  PROVE  /\ Finish(r) => run' \in [Runs -> Run]
         /\ \A phase \in Phases : Goto(r, phase) => run' \in [Runs -> Run]
         /\ \A stage \in Stages, marks \in Batch :
              Ingesting(r, stage, marks) => run' \in [Runs -> Run]
<1>1. run \in [Runs -> Run]
  BY DEF ExtractionTypeOK
<1>2. Idle \in Run
  BY DEF Idle, Run, Phases, Stages, Batch, EmptyBatch
<1>3. ASSUME NEW phase \in Phases PROVE [run[r] EXCEPT !.phase = phase] \in Run
  BY <1>1, <1>3 DEF Run
<1>4. ASSUME NEW stage \in Stages, NEW marks \in Batch
      PROVE  [run[r] EXCEPT !.phase = "ingest", !.stage = stage, !.marks = marks]
               \in Run
  BY <1>1, <1>4 DEF Run, Phases
<1>5. ASSUME NEW phase \in Phases, Goto(r, phase) PROVE run' \in [Runs -> Run]
  <2>1. run' = [run EXCEPT ![r] = [run[r] EXCEPT !.phase = phase]]
    BY <1>1, <1>5 DEF Goto
  <2> QED BY <1>1, <1>3, <2>1
<1>6. ASSUME NEW stage \in Stages, NEW marks \in Batch, Ingesting(r, stage, marks)
      PROVE  run' \in [Runs -> Run]
  <2>1. run' = [run EXCEPT ![r] = [run[r] EXCEPT !.phase = "ingest",
                                     !.stage = stage, !.marks = marks]]
    BY <1>1, <1>6 DEF Ingesting
  <2> QED BY <1>1, <1>4, <2>1
<1> QED
  BY <1>1, <1>2, <1>5, <1>6 DEF Finish

\* The five transactions that write rows; every other step only moves the
\* request that makes it.
Writes(r) == FinishUpload(r) \/ ClaimSheet(r) \/ StoreExtraction(r)
               \/ AuditFallback(r) \/ ResetSheet(r)
Reads(r) == BeginCompletion(r) \/ FindPendingFile(r) \/ RefuseCompletion(r)
              \/ LoadSheet(r) \/ SkipSheet(r) \/ FindModel(r) \/ LoseModelRace(r)
              \/ AiAnswers(r) \/ AiFails(r) \/ BeginManualIngest(r)
              \/ CheckIngest(r) \/ RejectIngest(r)

LEMMA StepsReadOrWrite ==
  ASSUME ExtractionNext
  PROVE  \E r \in Runs : Reads(r) \/ Writes(r) \/ FailureStep(r)
BY DEF ExtractionNext, CompletionStep, IngestStep, Reads, Writes

LEMMA ReadsKeepTables ==
  ASSUME NEW r \in Runs, Reads(r) \/ FailureStep(r)
  PROVE  UNCHANGED tables
BY DEF Reads, FailureStep, BeginCompletion, FindPendingFile, RefuseCompletion,
   LoadSheet, SkipSheet, FindModel, LoseModelRace, AiAnswers, AiFails,
   BeginManualIngest, CheckIngest, RejectIngest, TransactionFails, ResetFails,
   Crash, Fault

LEMMA EmptyBatchIsBatch == EmptyBatch \in Batch
BY DEF EmptyBatch, Batch

\* A step never moves another request.
LEMMA OthersStay ==
  ASSUME ExtractionTypeOK, NEW r \in Runs, Reads(r) \/ Writes(r) \/ FailureStep(r),
         NEW s \in Runs, s # r
  PROVE  run'[s] = run[s]
<1>1. run \in [Runs -> Run]
  BY DEF ExtractionTypeOK
<1>2. CASE Reads(r)
  BY <1>1, <1>2 DEF Reads, BeginCompletion, FindPendingFile, RefuseCompletion,
     LoadSheet, SkipSheet, FindModel, LoseModelRace, AiAnswers, AiFails,
     BeginManualIngest, CheckIngest, RejectIngest, IngestFailed, Goto, Finish,
     Ingesting
<1>3. CASE Writes(r)
  BY <1>1, <1>3 DEF Writes, FinishUpload, ClaimSheet, StoreExtraction,
     AuditFallback, ResetSheet, Goto, Finish
<1>4. CASE FailureStep(r)
  BY <1>1, <1>4 DEF FailureStep, TransactionFails, ResetFails, Crash,
     IngestFailed, Goto, Finish, Ingesting
<1> QED
  BY <1>2, <1>3, <1>4

----------------------------------------------------------------------------
(* Types.                                                                  *)

LEMMA TypesInit == Init => TypeOK
<1> SUFFICES ASSUME Init PROVE TypeOK
  OBVIOUS
<1>1. DbTypeOK
  BY DEF Init, DbInit, DbTypeOK, SheetStatuses, Session, SessionStatuses, Verdicts
<1>2. ExtractionTypeOK
  BY EmptyBatchIsBatch, FaultsAssumption
     DEF Init, ExtractionInit, ExtractionTypeOK, Idle, Run, Phases, Stages
<1> QED
  BY <1>1, <1>2 DEF TypeOK

LEMMA AiValuesAreTyped ==
  ASSUME NEW batch \in Batch PROVE AiValues(batch) \in [Items -> Seq(MarkValue)]
<1>1. ASSUME NEW i \in Items PROVE AiValues(batch)[i] \in Seq(MarkValue)
  <2>1. CASE batch[i] = NoMark
    BY <2>1 DEF AiValues
  <2>2. CASE batch[i] # NoMark
    <3>1. [value |-> batch[i], source |-> "AI"] \in MarkValue
      BY <2>2, AiMarksAssumption DEF Batch, MarkValue
    <3> QED BY <2>2, <3>1 DEF AiValues
  <2> QED BY <2>1, <2>2
<1> QED BY <1>1 DEF AiValues

LEMMA TypesNext == TypeOK /\ [ExtractionNext]_vars => TypeOK'
<1> SUFFICES ASSUME TypeOK, [ExtractionNext]_vars PROVE TypeOK'
  OBVIOUS
<1> USE DEF TypeOK
<1>1. ASSUME NEW r \in Runs, Reads(r) PROVE TypeOK'
  <2>1. DbTypeOK'
    BY <1>1, ReadsKeepTables DEF DbTypeOK
  <2>2. run' \in [Runs -> Run]
    <3>1. CASE AiAnswers(r)
      <4>1. PICK answer \in [Cells -> AiMarks \cup {NoMark}] :
              Ingesting(r, "ai", [i \in Items |-> IF i \in Cells THEN answer[i]
                                                  ELSE NoMark])
        BY <3>1 DEF AiAnswers
      <4>2. [i \in Items |-> IF i \in Cells THEN answer[i] ELSE NoMark] \in Batch
        BY DEF Batch
      <4> QED BY <4>1, <4>2, RunsAreTyped DEF Stages
    <3>2. CASE AiFails(r)
      BY <3>2, RunsAreTyped, EmptyBatchIsBatch DEF AiFails, Stages
    <3>3. CASE BeginManualIngest(r)
      BY <3>3, RunsAreTyped, ManualAssumption DEF BeginManualIngest, Stages
    <3>4. CASE RejectIngest(r)
      BY <3>4, RunsAreTyped, EmptyBatchIsBatch
         DEF RejectIngest, IngestFailed, Stages, Phases
    <3>5. CASE FindModel(r)
      <4>1. [run[r] EXCEPT !.phase = "claim", !.sawModel = modelRow] \in Run
        BY DEF ExtractionTypeOK, DbTypeOK, Run, Phases
      <4>2. run' = [run EXCEPT ![r] = [run[r] EXCEPT !.phase = "claim",
                                                   !.sawModel = modelRow]]
        BY <3>5 DEF FindModel, ExtractionTypeOK
      <4> QED BY <4>1, <4>2 DEF ExtractionTypeOK
    <3>6. CASE BeginCompletion(r)
      BY <3>6, RunsAreTyped DEF BeginCompletion, Phases
    <3>7. CASE \/ FindPendingFile(r) \/ RefuseCompletion(r) \/ LoadSheet(r)
               \/ SkipSheet(r) \/ LoseModelRace(r) \/ CheckIngest(r)
      BY <3>7, RunsAreTyped DEF FindPendingFile, RefuseCompletion, LoadSheet,
         SkipSheet, LoseModelRace, CheckIngest, Phases
    <3> QED
      BY <1>1, <3>1, <3>2, <3>3, <3>4, <3>5, <3>6, <3>7 DEF Reads
  <2>3. UNCHANGED faults
    BY <1>1 DEF Reads, BeginCompletion, FindPendingFile, RefuseCompletion,
       LoadSheet, SkipSheet, FindModel, LoseModelRace, AiAnswers, AiFails,
       BeginManualIngest, CheckIngest, RejectIngest
  <2> QED
    BY <2>1, <2>2, <2>3 DEF ExtractionTypeOK
<1>2. ASSUME NEW r \in Runs, Writes(r) PROVE TypeOK'
  <2>1. ExtractionTypeOK'
    BY <1>2, RunsAreTyped DEF Writes, FinishUpload, ClaimSheet, StoreExtraction,
       AuditFallback, ResetSheet, ExtractionTypeOK, Phases
  <2>2. ASSUME NEW action \in AuditActions, Audited(action, "sheet", 0)
        PROVE  audit' \in Seq(AuditRow)
    <3>1. [action |-> action, entity |-> "sheet", new |-> 0] \in AuditRow
      BY DEF AuditRow, AuditEntities
    <3> QED BY <2>2, <3>1 DEF Audited, DbTypeOK
  <2>3. CASE FinishUpload(r)
    <3>1. audit' \in Seq(AuditRow)
      BY <2>2, <2>3 DEF FinishUpload, AuditActions
    <3> QED BY <2>1, <2>3, <3>1 DEF FinishUpload, DbTypeOK, SheetStatuses
  <2>4. CASE ClaimSheet(r)
    BY <2>1, <2>4 DEF ClaimSheet, DbTypeOK, SheetStatuses
  <2>5. CASE StoreExtraction(r)
    <3>1. audit' \in Seq(AuditRow)
      BY <2>2, <2>5 DEF StoreExtraction, AuditActions
    <3>2. run[r].marks \in Batch
      BY DEF ExtractionTypeOK, Run
    <3>3. extractions' \in Seq(Batch)
      BY <2>5, <3>2 DEF StoreExtraction, DbTypeOK
    <3>4. values' \in [Items -> Seq(MarkValue)]
      BY <2>5, <3>2, AiValuesAreTyped DEF StoreExtraction
    <3> QED
      BY <2>1, <2>5, <3>1, <3>3, <3>4 DEF StoreExtraction, DbTypeOK,
         SheetStatuses, Session, SessionStatuses, Verdicts
  <2>6. CASE AuditFallback(r)
    <3>1. audit' \in Seq(AuditRow)
      BY <2>2, <2>6 DEF AuditFallback, AuditActions
    <3> QED BY <2>1, <2>6, <3>1 DEF AuditFallback, DbTypeOK
  <2>7. CASE ResetSheet(r)
    BY <2>1, <2>7 DEF ResetSheet, DbTypeOK, SheetStatuses
  <2> QED
    BY <1>2, <2>3, <2>4, <2>5, <2>6, <2>7 DEF Writes
<1>3. ASSUME NEW r \in Runs, FailureStep(r) PROVE TypeOK'
  <2>1. DbTypeOK'
    BY <1>3, ReadsKeepTables DEF DbTypeOK
  <2>2. run' \in [Runs -> Run]
    BY <1>3, RunsAreTyped, EmptyBatchIsBatch DEF FailureStep, TransactionFails,
       ResetFails, Crash, IngestFailed, Stages, Phases
  <2>3. faults' \in [count : 0..MaxFaults, kinds : SUBSET FaultKinds]
    <3>1. PICK kind : Fault(kind)
      BY <1>3 DEF FailureStep, TransactionFails, ResetFails, Crash
    <3> QED BY <3>1, FaultsAssumption DEF Fault, ExtractionTypeOK
  <2> QED
    BY <2>1, <2>2, <2>3 DEF ExtractionTypeOK
<1>4. CASE UNCHANGED vars
  BY <1>4 DEF vars, DbTypeOK, ExtractionTypeOK
<1> QED
  BY <1>1, <1>2, <1>3, <1>4, StepsReadOrWrite

\* Every row and every request keeps its type (TypeOK).
THEOREM ExtractionIsTyped == Spec => []TypeOK
BY TypesInit, TypesNext, PTL DEF Spec

\* Where a step leaves the request that makes it.
LEMMA RequestMoves ==
  ASSUME ExtractionTypeOK, NEW r \in Runs
  PROVE  /\ Finish(r) => run'[r] = Idle
         /\ \A phase : Goto(r, phase) =>
              /\ run'[r].phase = phase
              /\ run'[r].stage = run[r].stage /\ run'[r].marks = run[r].marks
         /\ \A stage, marks : Ingesting(r, stage, marks) =>
              run'[r].phase = "ingest" /\ run'[r].stage = stage
                /\ run'[r].marks = marks
<1>1. run \in [Runs -> Run] /\ run[r] \in Run
  BY DEF ExtractionTypeOK
<1>2. Finish(r) => run'[r] = Idle
  BY <1>1 DEF Finish
<1>3. ASSUME NEW phase, Goto(r, phase)
      PROVE  /\ run'[r].phase = phase
             /\ run'[r].stage = run[r].stage /\ run'[r].marks = run[r].marks
  <2>1. run'[r] = [run[r] EXCEPT !.phase = phase]
    BY <1>1, <1>3 DEF Goto
  <2> QED BY <1>1, <2>1 DEF Run
<1>4. ASSUME NEW stage, NEW marks, Ingesting(r, stage, marks)
      PROVE  run'[r].phase = "ingest" /\ run'[r].stage = stage
               /\ run'[r].marks = marks
  <2>1. run'[r] = [run[r] EXCEPT !.phase = "ingest", !.stage = stage,
                                 !.marks = marks]
    BY <1>1, <1>4 DEF Ingesting
  <2> QED BY <1>1, <2>1 DEF Run
<1> QED
  BY <1>2, <1>3, <1>4

----------------------------------------------------------------------------
(* Suggestions are written once, and all at once.                          *)

\* Nothing but the commit of ingest touches the extracted rows.
LEMMA OnlyStoreExtracts ==
  ASSUME [ExtractionNext]_vars
  PROVE  \/ UNCHANGED <<extractions, values>>
         \/ \E r \in Runs : StoreExtraction(r)
<1>1. ASSUME NEW r \in Runs, Reads(r) \/ FailureStep(r)
      PROVE  UNCHANGED <<extractions, values>>
  BY <1>1, ReadsKeepTables
<1>2. ASSUME NEW r \in Runs, Writes(r)
      PROVE  UNCHANGED <<extractions, values>> \/ StoreExtraction(r)
  BY <1>2 DEF Writes, FinishUpload, ClaimSheet, AuditFallback, ResetSheet
<1> QED
  BY <1>1, <1>2, StepsReadOrWrite DEF vars

\* The advisory rows that a batch brings with it.
LEMMA AdviceOfBatch ==
  ASSUME NEW batch \in Batch, NEW i \in Items, values' = AiValues(batch)
  PROVE  AdviceOn(i)' = IF batch[i] = NoMark THEN {} ELSE {<<1, batch[i]>>}
<1>1. CASE batch[i] = NoMark
  <2>1. values'[i] = <<>>
    BY <1>1 DEF AiValues
  <2> QED BY <1>1, <2>1 DEF AdviceOn
<1>2. CASE batch[i] # NoMark
  <2>1. values'[i] = <<[value |-> batch[i], source |-> "AI"]>>
    BY <1>2 DEF AiValues
  <2>2. DOMAIN values'[i] = {1} /\ values'[i][1] = [value |-> batch[i], source |-> "AI"]
    BY <2>1
  <2>3. {n \in DOMAIN values'[i] : values'[i][n].source = "AI"} = {1}
    BY <2>2
  <2>4. AdviceOn(i)' = {<<k, values'[i][k].value>> : k \in {1}}
    BY <2>3 DEF AdviceOn
  <2> QED BY <1>2, <2>2, <2>4
<1> QED
  BY <1>1, <1>2

\* The handlers implement the promise to the reviewer, AdvisoryExtraction:
\* one answer for the whole sheet, never changed (SuggestionsAreWrittenOnce).
THEOREM ExtractionIsAdvisory == Spec => SuggestionsAreWrittenOnce
<1>1. Init => Advisory!Init
  BY DEF Init, DbInit, Advisory!Init, AdviceOn
<1>2. TypeOK /\ [ExtractionNext]_vars
        => [Advisory!Next]_<<extractions, [i \in Items |-> AdviceOn(i)]>>
  <2> SUFFICES ASSUME TypeOK, [ExtractionNext]_vars
               PROVE  [Advisory!Next]_<<extractions, [i \in Items |-> AdviceOn(i)]>>
    OBVIOUS
  <2>1. CASE UNCHANGED <<extractions, values>>
    <3>1. ASSUME NEW i \in Items PROVE AdviceOn(i)' = AdviceOn(i)
      BY <2>1 DEF AdviceOn
    <3> QED BY <2>1, <3>1
  <2>2. ASSUME NEW r \in Runs, StoreExtraction(r) PROVE Advisory!Next
    <3>1. run[r].marks \in Batch
      BY DEF TypeOK, ExtractionTypeOK, Run
    <3>2. extractions = <<>> /\ extractions' = <<run[r].marks>>
      BY <2>2 DEF StoreExtraction, RowsAreNew
    <3>3. ASSUME NEW i \in Items
          PROVE  AdviceOn(i)' = IF run[r].marks[i] = NoMark THEN {}
                                ELSE {<<1, run[r].marks[i]>>}
      BY <2>2, <3>1, AdviceOfBatch DEF StoreExtraction
    <3>4. Advisory!Advise(run[r].marks)
      BY <3>2, <3>3 DEF Advisory!Advise
    <3> QED BY <3>1, <3>4 DEF Advisory!Next, Batch
  <2> QED
    BY <2>1, <2>2, OnlyStoreExtracts
<1> QED
  BY <1>1, <1>2, ExtractionIsTyped, PTL
     DEF Spec, SuggestionsAreWrittenOnce, Advisory!Spec

----------------------------------------------------------------------------
(* A reviewable sheet has rows and session; rows have their image.         *)

LEMMA ReviewableNext ==
  TypeOK /\ ReviewableSheetHasSession /\ [ExtractionNext]_vars
    => ReviewableSheetHasSession'
<1> SUFFICES ASSUME TypeOK, ReviewableSheetHasSession, [ExtractionNext]_vars
             PROVE  ReviewableSheetHasSession'
  OBVIOUS
<1> USE DEF ReviewableSheetHasSession
<1>1. ASSUME NEW r \in Runs, StoreExtraction(r) PROVE ReviewableSheetHasSession'
  <2>1. extractions' = <<run[r].marks>>
    BY <1>1 DEF StoreExtraction, RowsAreNew
  <2> QED BY <1>1, <2>1 DEF StoreExtraction
<1>2. ASSUME NEW r \in Runs, FinishUpload(r) \/ ClaimSheet(r) \/ ResetSheet(r)
      PROVE  ReviewableSheetHasSession'
  BY <1>2 DEF FinishUpload, ClaimSheet, ResetSheet
<1>3. ASSUME NEW r \in Runs, AuditFallback(r) PROVE ReviewableSheetHasSession'
  BY <1>3 DEF AuditFallback
<1>4. CASE UNCHANGED tables
  BY <1>4
<1> QED
  BY <1>1, <1>2, <1>3, <1>4, StepsReadOrWrite, ReadsKeepTables DEF Writes, vars

\* A sheet under review has its rows and an open session, also when other
\* completions were under way while it was filled (ReviewableSheetHasSession).
THEOREM ReviewsHaveASession == Spec => []ReviewableSheetHasSession
<1>1. Init => ReviewableSheetHasSession
  BY DEF Init, DbInit, ReviewableSheetHasSession
<1> QED
  BY <1>1, ReviewableNext, ExtractionIsTyped, PTL DEF Spec

\* Why no batch comes without its image: ingest looks at the status, which
\* leaves PENDING_UPLOAD with the file's completion, and never goes back.
ImageInv ==
  /\ status # "PENDING_UPLOAD" => uploadStatus = "COMPLETED"
  /\ \A r \in Runs : run[r].phase \in {"model", "claim", "store"}
                      => uploadStatus = "COMPLETED"
  /\ ExtractionHasImage

LEMMA ImageNext == TypeOK /\ ImageInv /\ [ExtractionNext]_vars => ImageInv'
<1> SUFFICES ASSUME TypeOK, ImageInv, [ExtractionNext]_vars PROVE ImageInv'
  OBVIOUS
<1> USE DEF TypeOK, ImageInv, ExtractionHasImage
<1>1. uploadStatus = "COMPLETED" => uploadStatus' = "COMPLETED"
  <2>1. ASSUME NEW r \in Runs, Writes(r)
        PROVE  uploadStatus = "COMPLETED" => uploadStatus' = "COMPLETED"
    BY <2>1 DEF Writes, FinishUpload, ClaimSheet, StoreExtraction, AuditFallback,
       ResetSheet
  <2> QED BY <2>1, StepsReadOrWrite, ReadsKeepTables DEF vars
<1>2. ASSUME NEW r \in Runs, Reads(r) \/ FailureStep(r) PROVE ImageInv'
  <2>1. UNCHANGED tables
    BY <1>2, ReadsKeepTables
  <2>2. ASSUME run'[r].phase \in {"model", "claim", "store"}
        PROVE  uploadStatus = "COMPLETED"
    <3>1. CASE LoadSheet(r)
      BY <3>1 DEF LoadSheet, Extractable
    <3>2. CASE FindModel(r)
      BY <3>2 DEF FindModel
    <3>3. CASE CheckIngest(r)
      BY <3>3 DEF CheckIngest, Ingestible
    <3>4. CASE BeginCompletion(r) \/ FindPendingFile(r)
      BY <2>2, <3>4, RequestMoves DEF BeginCompletion, FindPendingFile
    <3>7. CASE BeginManualIngest(r) \/ AiAnswers(r) \/ AiFails(r)
      <4>1. run'[r].phase = "ingest"
        BY <3>7, RequestMoves DEF BeginManualIngest, AiAnswers, AiFails
      <4> QED BY <2>2, <4>1
    <3>5. CASE RefuseCompletion(r) \/ SkipSheet(r) \/ LoseModelRace(r)
      BY <2>2, <3>5, RequestMoves DEF RefuseCompletion, SkipSheet, LoseModelRace, Idle
    <3>6. CASE RejectIngest(r) \/ FailureStep(r)
      BY <2>2, <3>6, RequestMoves DEF RejectIngest, FailureStep, TransactionFails,
         ResetFails, Crash, IngestFailed, Idle
    <3> QED
      BY <1>2, <3>1, <3>2, <3>3, <3>4, <3>5, <3>6, <3>7 DEF Reads
  <2>3. \A s \in Runs : s # r => run'[s] = run[s]
    BY <1>2, OthersStay
  <2> QED BY <2>1, <2>2, <2>3
<1>3. ASSUME NEW r \in Runs, Writes(r) PROVE ImageInv'
  <2>1. \A s \in Runs : s # r => run'[s] = run[s]
    BY <1>3, OthersStay
  <2>2. run'[r].phase \notin {"model", "claim", "store"}
    BY <1>3, RequestMoves DEF Writes, FinishUpload, ClaimSheet, StoreExtraction,
       AuditFallback, ResetSheet, Idle
  <2>3. CASE FinishUpload(r)
    BY <1>1, <2>1, <2>2, <2>3 DEF FinishUpload
  <2>4. CASE ClaimSheet(r)
    BY <1>1, <2>1, <2>2, <2>4 DEF ClaimSheet
  <2>5. CASE StoreExtraction(r)
    BY <1>1, <2>1, <2>2, <2>5 DEF StoreExtraction
  <2>6. CASE AuditFallback(r)
    BY <1>1, <2>1, <2>2, <2>6 DEF AuditFallback
  <2>7. CASE ResetSheet(r)
    BY <1>1, <2>1, <2>2, <2>7 DEF ResetSheet
  <2> QED
    BY <1>3, <2>3, <2>4, <2>5, <2>6, <2>7 DEF Writes
<1>4. CASE UNCHANGED vars
  BY <1>4 DEF vars
<1> QED
  BY <1>2, <1>3, <1>4, StepsReadOrWrite

\* Marks are attached only to a sheet whose image is in the store
\* (ExtractionHasImage).
THEOREM MarksHaveAnImage == Spec => []ExtractionHasImage
<1>1. Init => ImageInv
  BY DEF Init, DbInit, ExtractionInit, ImageInv, ExtractionHasImage, Idle
<1>2. ImageInv => ExtractionHasImage
  BY DEF ImageInv
<1> QED
  BY <1>1, <1>2, ImageNext, ExtractionIsTyped, PTL DEF Spec

----------------------------------------------------------------------------
(* PROCESSING means that somebody is at work.                              *)

LEMMA StrandingStays ==
  ASSUME TypeOK, [ExtractionNext]_vars, Stranding PROVE Stranding'
<1>1. ASSUME NEW r \in Runs, FailureStep(r) PROVE Stranding'
  BY <1>1 DEF FailureStep, TransactionFails, ResetFails, Crash, Fault, Stranding
<1>2. ASSUME NEW r \in Runs, Reads(r) \/ Writes(r) PROVE UNCHANGED faults
  <2>1. CASE Reads(r)
    BY <2>1 DEF Reads, BeginCompletion, FindPendingFile, RefuseCompletion,
       LoadSheet, SkipSheet, FindModel, LoseModelRace, AiAnswers, AiFails,
       BeginManualIngest, CheckIngest, RejectIngest
  <2>2. CASE Writes(r)
    BY <2>2 DEF Writes, FinishUpload, ClaimSheet, StoreExtraction,
       AuditFallback, ResetSheet
  <2> QED BY <1>2, <2>1, <2>2
<1> QED
  BY <1>1, <1>2, StepsReadOrWrite DEF vars, Stranding

LEMMA HandlerNext ==
  TypeOK /\ ProcessingHasHandler /\ [ExtractionNext]_vars => ProcessingHasHandler'
<1> SUFFICES ASSUME TypeOK, ProcessingHasHandler, [ExtractionNext]_vars,
                    ~Stranding', status' = "PROCESSING"
             PROVE  \E s \in Runs : HandlesSheet(s)'
  BY DEF ProcessingHasHandler
<1> USE DEF TypeOK
<1>1. ~Stranding
  BY StrandingStays
<1>2. ASSUME NEW r \in Runs, ClaimSheet(r) PROVE HandlesSheet(r)'
  BY <1>2, RequestMoves DEF ClaimSheet, HandlesSheet
<1>3. ASSUME NEW r \in Runs, Reads(r) \/ FailureStep(r) \/ AuditFallback(r)
      PROVE  \E s \in Runs : HandlesSheet(s)'
  <2>1. status = "PROCESSING"
    BY <1>3, ReadsKeepTables DEF AuditFallback
  <2>2. PICK s \in Runs : HandlesSheet(s)
    BY <1>1, <2>1 DEF ProcessingHasHandler
  <2>3. CASE s # r
    <3>1. run'[s] = run[s]
      BY <1>3, <2>3, OthersStay DEF Writes
    <3> QED BY <2>2, <3>1 DEF HandlesSheet
  <2>4. CASE s = r
    <3>1. CASE AiAnswers(r) \/ AiFails(r)
      BY <3>1, RequestMoves DEF AiAnswers, AiFails, HandlesSheet
    <3>2. CASE CheckIngest(r)
      BY <2>2, <2>4, <3>2, RequestMoves DEF CheckIngest, HandlesSheet
    <3>3. CASE RejectIngest(r)
      BY <2>2, <2>4, <3>3, RequestMoves DEF RejectIngest, IngestFailed, HandlesSheet
    <3>4. CASE TransactionFails(r)
      BY <2>2, <2>4, <3>4, RequestMoves DEF TransactionFails, IngestFailed, HandlesSheet
    <3>5. CASE ResetFails(r) \/ Crash(r)
      BY <3>5 DEF ResetFails, Crash, Fault, Stranding
    <3>6. CASE BeginCompletion(r) \/ FindPendingFile(r) \/ RefuseCompletion(r)
                 \/ LoadSheet(r) \/ SkipSheet(r) \/ FindModel(r)
                 \/ LoseModelRace(r) \/ BeginManualIngest(r) \/ AuditFallback(r)
      BY <2>2, <2>4, <3>6 DEF BeginCompletion, FindPendingFile, RefuseCompletion,
         LoadSheet, SkipSheet, FindModel, LoseModelRace, BeginManualIngest,
         AuditFallback, HandlesSheet
    <3> QED
      BY <1>3, <3>1, <3>2, <3>3, <3>4, <3>5, <3>6 DEF Reads, FailureStep
  <2> QED BY <2>3, <2>4
<1>4. ASSUME NEW r \in Runs, FinishUpload(r) \/ StoreExtraction(r) \/ ResetSheet(r)
      PROVE  FALSE
  BY <1>4 DEF FinishUpload, StoreExtraction, ResetSheet
<1>5. CASE UNCHANGED vars
  BY <1>1, <1>5 DEF vars, ProcessingHasHandler, HandlesSheet
<1> QED
  BY <1>2, <1>3, <1>4, <1>5, StepsReadOrWrite DEF Writes

\* A claimed sheet is in somebody's hands, or the backend has crashed or its
\* last resort has failed (ProcessingHasHandler).
THEOREM ClaimedSheetsAreHandled == Spec => []ProcessingHasHandler
<1>1. Init => ProcessingHasHandler
  BY DEF Init, DbInit, ProcessingHasHandler
<1> QED
  BY <1>1, HandlerNext, ExtractionIsTyped, PTL DEF Spec

----------------------------------------------------------------------------
(* The fallback's audit row.                                               *)

\* A fallback stores the empty batch, and whoever is about to record it has
\* just filled the sheet, alone.
FallbackInv ==
  /\ \A r \in Runs : run[r].stage = "fallback" => run[r].marks = EmptyBatch
  /\ \A r \in Runs : run[r].phase = "auditFallback" =>
       extractions = <<EmptyBatch>> /\ FallbackRows = {}
  /\ \A r, s \in Runs :
       run[r].phase = "auditFallback" /\ run[s].phase = "auditFallback" => r = s
  /\ FallbackAuditIsTrue

\* An appended row is a fallback row, or it is not.
LEMMA RowsAfter ==
  ASSUME DbTypeOK, NEW action, NEW entity, NEW new, Audited(action, entity, new)
  PROVE  /\ DOMAIN audit' = DOMAIN audit \cup {Len(audit) + 1}
         /\ \A k \in DOMAIN audit : audit'[k] = audit[k]
         /\ audit'[Len(audit) + 1].action = action
BY DEF DbTypeOK, Audited

LEMMA FallbackRowAfter ==
  ASSUME DbTypeOK, NEW entity, NEW new,
         Audited("AI_EXTRACTION_FALLBACK_CREATED", entity, new)
  PROVE  FallbackRows' = FallbackRows \cup {Len(audit) + 1}
BY RowsAfter DEF FallbackRows

LEMMA OtherRowsAfter ==
  ASSUME DbTypeOK, NEW action, NEW entity, NEW new, Audited(action, entity, new),
         action # "AI_EXTRACTION_FALLBACK_CREATED"
  PROVE  FallbackRows' = FallbackRows
BY RowsAfter DEF FallbackRows

\* What a step leaves in the hands of the request that makes it.
LEMMA FallbackRequestNext ==
  ASSUME TypeOK, FallbackInv, NEW r \in Runs, Reads(r) \/ Writes(r) \/ FailureStep(r)
  PROVE  /\ run'[r].stage = "fallback" => run'[r].marks = EmptyBatch
         /\ run'[r].phase = "auditFallback" =>
              StoreExtraction(r) /\ run[r].stage = "fallback"
<1> USE DEF TypeOK
<1> DEFINE Kept == /\ run'[r].stage = "fallback" => run'[r].marks = EmptyBatch
                   /\ run'[r].phase # "auditFallback"
<1>1. run[r].stage = "fallback" => run[r].marks = EmptyBatch
  BY DEF FallbackInv
<1>2. ASSUME Finish(r) PROVE Kept
  BY <1>2, RequestMoves DEF Idle
<1>3. ASSUME NEW phase, phase # "auditFallback", Goto(r, phase) PROVE Kept
  BY <1>1, <1>3, RequestMoves
<1>4. ASSUME NEW stage, NEW marks, Ingesting(r, stage, marks),
             stage = "fallback" => marks = EmptyBatch
      PROVE  Kept
  BY <1>4, RequestMoves
<1>5. ASSUME IngestFailed(r) PROVE Kept
  BY <1>2, <1>3, <1>4, <1>5 DEF IngestFailed
<1>6. CASE Reads(r)
  <2>1. CASE FindModel(r)
    <3>1. run'[r] = [run[r] EXCEPT !.phase = "claim", !.sawModel = modelRow]
      BY <2>1 DEF FindModel, ExtractionTypeOK
    <3>2. run[r] \in Run
      BY DEF ExtractionTypeOK
    <3>3. run'[r].phase = "claim" /\ run'[r].stage = run[r].stage
            /\ run'[r].marks = run[r].marks
      BY <3>1, <3>2 DEF Run
    <3> QED BY <1>1, <3>3
  <2>2. CASE RejectIngest(r)
    BY <1>5, <2>2 DEF RejectIngest
  <2>3. CASE AiAnswers(r) \/ BeginManualIngest(r)
    BY <1>4, <2>3 DEF AiAnswers, BeginManualIngest
  <2>4. CASE AiFails(r)
    BY <1>4, <2>4 DEF AiFails
  <2>5. CASE BeginCompletion(r)
    BY <1>3, <2>5 DEF BeginCompletion
  <2>6. CASE FindPendingFile(r) \/ LoadSheet(r) \/ CheckIngest(r)
    BY <1>3, <2>6 DEF FindPendingFile, LoadSheet, CheckIngest
  <2>7. CASE RefuseCompletion(r) \/ SkipSheet(r) \/ LoseModelRace(r)
    BY <1>2, <2>7 DEF RefuseCompletion, SkipSheet, LoseModelRace
  <2> QED
    BY <1>6, <2>1, <2>2, <2>3, <2>4, <2>5, <2>6, <2>7 DEF Reads
<1>7. CASE Writes(r)
  <2>1. CASE StoreExtraction(r)
    BY <1>1, <1>2, <2>1, RequestMoves DEF StoreExtraction
  <2>2. CASE FinishUpload(r) \/ ClaimSheet(r)
    BY <1>3, <2>2 DEF FinishUpload, ClaimSheet
  <2>3. CASE AuditFallback(r) \/ ResetSheet(r)
    BY <1>2, <2>3 DEF AuditFallback, ResetSheet
  <2> QED BY <1>7, <2>1, <2>2, <2>3 DEF Writes
<1>8. CASE FailureStep(r)
  BY <1>2, <1>3, <1>5, <1>8 DEF FailureStep, TransactionFails, ResetFails, Crash
<1> QED
  BY <1>6, <1>7, <1>8

LEMMA FallbackNext == TypeOK /\ FallbackInv /\ [ExtractionNext]_vars => FallbackInv'
<1> SUFFICES ASSUME TypeOK, FallbackInv, [ExtractionNext]_vars PROVE FallbackInv'
  OBVIOUS
<1> USE DEF TypeOK
<1>1. ASSUME NEW r \in Runs, Reads(r) \/ Writes(r) \/ FailureStep(r),
             UNCHANGED extractions, FallbackRows' = FallbackRows
      PROVE  FallbackInv'
  <2>1. \A s \in Runs : s # r => run'[s] = run[s]
    BY <1>1, OthersStay
  <2>2. run'[r].stage = "fallback" => run'[r].marks = EmptyBatch
    BY <1>1, FallbackRequestNext
  <2>3. run'[r].phase # "auditFallback"
    <3>1. ASSUME StoreExtraction(r) PROVE FALSE
      <4>1. extractions' = <<run[r].marks>> /\ extractions = <<>>
        BY <3>1 DEF StoreExtraction, RowsAreNew
      <4>2. Len(extractions') = 1 /\ Len(extractions) = 0
        BY <4>1
      <4> QED BY <1>1, <4>2
    <3> QED BY <1>1, <3>1, FallbackRequestNext
  <2>4. FallbackAuditIsTrue'
    BY <1>1 DEF FallbackInv, FallbackAuditIsTrue
  <2> QED BY <1>1, <2>1, <2>2, <2>3, <2>4 DEF FallbackInv
<1>2. ASSUME NEW r \in Runs, Reads(r) \/ FailureStep(r) PROVE FallbackInv'
  <2>1. FallbackRows' = FallbackRows
    BY <1>2, ReadsKeepTables DEF FallbackRows
  <2> QED BY <1>1, <1>2, <2>1, ReadsKeepTables
<1>3. ASSUME NEW r \in Runs, FinishUpload(r) PROVE FallbackInv'
  <2>1. FallbackRows' = FallbackRows
    <3>1. Audited("UPLOAD_COMPLETED", "sheet", 0)
      BY <1>3 DEF FinishUpload
    <3> QED BY <3>1, OtherRowsAfter
  <2> QED BY <1>1, <1>3, <2>1 DEF Writes, FinishUpload
<1>4. ASSUME NEW r \in Runs, ClaimSheet(r) \/ ResetSheet(r) PROVE FallbackInv'
  <2>1. FallbackRows' = FallbackRows
    BY <1>4 DEF ClaimSheet, ResetSheet, FallbackRows
  <2> QED BY <1>1, <1>4, <2>1 DEF Writes, ClaimSheet, ResetSheet
<1>5. ASSUME NEW r \in Runs, StoreExtraction(r) PROVE FallbackInv'
  <2>1. extractions = <<>> /\ extractions' = <<run[r].marks>>
    BY <1>5 DEF StoreExtraction, RowsAreNew
  <2>2. FallbackRows' = FallbackRows
    <3>1. Audited("AI_EXTRACTION_INGESTED", "sheet", 0)
      BY <1>5 DEF StoreExtraction
    <3> QED BY <3>1, OtherRowsAfter
  <2>3. FallbackRows = {}
    BY <2>1 DEF FallbackInv, FallbackAuditIsTrue
  <2>4. \A s \in Runs : run[s].phase # "auditFallback"
    BY <2>1 DEF FallbackInv
  <2>5. \A s \in Runs : s # r => run'[s] = run[s]
    BY <1>5, OthersStay DEF Writes
  <2>6. /\ run'[r].stage = "fallback" => run'[r].marks = EmptyBatch
        /\ run'[r].phase = "auditFallback" => run[r].stage = "fallback"
    BY <1>5, FallbackRequestNext DEF Writes
  <2>7. run[r].stage = "fallback" => extractions' = <<EmptyBatch>>
    BY <2>1 DEF FallbackInv
  <2> QED
    BY <2>2, <2>3, <2>4, <2>5, <2>6, <2>7 DEF FallbackInv, FallbackAuditIsTrue
<1>6. ASSUME NEW r \in Runs, AuditFallback(r) PROVE FallbackInv'
  <2>1. extractions = <<EmptyBatch>> /\ FallbackRows = {} /\ UNCHANGED extractions
    BY <1>6 DEF AuditFallback, FallbackInv
  <2>2. FallbackRows' = {Len(audit) + 1}
    <3>1. Audited("AI_EXTRACTION_FALLBACK_CREATED", "sheet", 0)
      BY <1>6 DEF AuditFallback
    <3> QED BY <2>1, <3>1, FallbackRowAfter
  <2>3. Cardinality(FallbackRows') = 1
    BY <2>2, FS_Singleton
  <2>4. FallbackAuditIsTrue'
    BY <2>1, <2>3 DEF FallbackAuditIsTrue
  <2>5. \A s \in Runs : s # r => run'[s] = run[s] /\ run[s].phase # "auditFallback"
    BY <1>6, OthersStay DEF AuditFallback, Writes, FallbackInv
  <2>6. run'[r] = Idle
    BY <1>6, RequestMoves DEF AuditFallback
  <2> QED BY <2>4, <2>5, <2>6 DEF FallbackInv, Idle
<1>7. CASE UNCHANGED vars
  <2>1. FallbackRows' = FallbackRows
    BY <1>7 DEF vars, FallbackRows
  <2> QED BY <1>7, <2>1 DEF vars, FallbackInv, FallbackAuditIsTrue
<1> QED
  BY <1>2, <1>3, <1>4, <1>5, <1>6, <1>7, StepsReadOrWrite DEF Writes

\* The fallback is recorded at most once, and only for a sheet that it has
\* really filled (FallbackAuditIsTrue).
THEOREM FallbacksAreRecordedTruly == Spec => []FallbackAuditIsTrue
<1>1. Init => FallbackInv
  BY DEF Init, DbInit, ExtractionInit, FallbackInv, FallbackAuditIsTrue,
     FallbackRows, Idle
<1>2. FallbackInv => FallbackAuditIsTrue
  BY DEF FallbackInv
<1> QED
  BY <1>1, <1>2, FallbackNext, ExtractionIsTyped, PTL DEF Spec

----------------------------------------------------------------------------
(* A settled review stays.                                                 *)

\* What a request may be doing once the review has settled: it looks at the
\* sheet, or at marks sent by hand, and goes.
Harmless(request) ==
  \/ request.phase \in {"idle", "load"}
  \/ request.phase = "ingest" /\ request.stage = "manual"
Calm ==
  /\ status = "REVIEW_REQUIRED" /\ extractions # <<>> /\ uploadStatus = "COMPLETED"
  /\ \A r \in Runs : Harmless(run[r])

LEMMA CalmStays == TypeOK /\ Calm /\ [ExtractionNext]_vars => Calm'
<1> SUFFICES ASSUME TypeOK, Calm, [ExtractionNext]_vars PROVE Calm'
  OBVIOUS
<1> USE DEF TypeOK
<1>1. ASSUME NEW r \in Runs, Writes(r) PROVE FALSE
  BY <1>1 DEF Calm, Harmless, Writes, FinishUpload, ClaimSheet, StoreExtraction,
     AuditFallback, ResetSheet
<1>2. ASSUME NEW r \in Runs, Reads(r) \/ FailureStep(r) PROVE Calm'
  <2>1. UNCHANGED <<status, extractions, uploadStatus>>
    BY <1>2, ReadsKeepTables
  <2>2. \A s \in Runs : s # r => run'[s] = run[s]
    BY <1>2, OthersStay
  <2>3. Harmless(run[r])
    BY DEF Calm
  <2>4. ASSUME Finish(r) PROVE Harmless(run'[r])
    BY <2>4, RequestMoves DEF Harmless, Idle
  <2>5. Harmless(run'[r])
    <3>1. CASE BeginCompletion(r)
      BY <3>1, RequestMoves DEF BeginCompletion, Calm, Harmless
    <3>2. CASE BeginManualIngest(r)
      BY <3>2, RequestMoves DEF BeginManualIngest, Harmless
    <3>3. CASE LoadSheet(r) \/ CheckIngest(r)
      BY <3>3 DEF LoadSheet, Extractable, CheckIngest, Ingestible, Calm
    <3>4. CASE SkipSheet(r)
      BY <2>4, <3>4 DEF SkipSheet
    <3>5. CASE RejectIngest(r)
      BY <2>3, <2>4, <3>5 DEF RejectIngest, IngestFailed, Harmless
    <3>6. CASE FailureStep(r)
      BY <2>3, <2>4, <3>6 DEF FailureStep, TransactionFails, ResetFails, Crash,
         IngestFailed, Harmless
    <3>7. CASE \/ FindPendingFile(r) \/ RefuseCompletion(r) \/ FindModel(r)
               \/ LoseModelRace(r) \/ AiAnswers(r) \/ AiFails(r)
      BY <2>3, <3>7 DEF Harmless, FindPendingFile, RefuseCompletion, FindModel,
         LoseModelRace, AiAnswers, AiFails
    <3> QED
      BY <1>2, <3>1, <3>2, <3>3, <3>4, <3>5, <3>6, <3>7 DEF Reads
  <2> QED BY <2>1, <2>2, <2>5 DEF Calm
<1>3. CASE UNCHANGED vars
  BY <1>3 DEF vars, Calm
<1> QED
  BY <1>1, <1>2, <1>3, StepsReadOrWrite

\* Once a sheet is in review and nobody is at work on it, no completion and no
\* ingest takes it out of review, whatever overlaps or fails
\* (SettledReviewStays).
THEOREM SettledReviewsStay == Spec => SettledReviewStays
<1>1. ReviewableSheetHasSession /\ ExtractionHasImage /\ Settled => Calm
  BY DEF ReviewableSheetHasSession, ExtractionHasImage, Settled, Calm, Harmless
<1>2. Calm => status = "REVIEW_REQUIRED"
  BY DEF Calm
<1> QED
  BY <1>1, <1>2, CalmStays, ExtractionIsTyped, ReviewsHaveASession,
     MarksHaveAnImage, PTL DEF Spec, SettledReviewStays
============================================================================
