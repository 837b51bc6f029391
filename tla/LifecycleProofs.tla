---------------------------- MODULE LifecycleProofs ----------------------------
(***************************************************************************)
(* Proofs about the composition MarkSheetLifecycle, for every number of    *)
(* overlapping requests of every component: the calculations of a sheet    *)
(* form the ledger that reports and exports rely on; an export's rows are  *)
(* a true account of it; what is added up and what is exported are marks   *)
(* that a reviewer gave, and they explain the total; the reports tell one  *)
(* story; and every row and request keeps its type.                        *)
(***************************************************************************)
EXTENDS MarkSheetLifecycle, ExtractionProofs, VerificationProofs, SumProofs

USE DEF tables, uploadTables, extractionTables, reviewTables, extractionVars, exportVars,
        lifecycleVars

----------------------------------------------------------------------------
(* What the other components leave alone.                                   *)

LEMMA ExtractionLeavesResults ==
  ASSUME ExtractSheet
  PROVE  UNCHANGED <<calcs, job>> /\ (status' = status \/ status' # "COMPLETED")
<1>1. PICK r \in Runs : \/ BeginCompletion(r) \/ BeginManualIngest(r)
                        \/ CompletionStep(r) \/ IngestStep(r) \/ FailureStep(r)
  BY DEF ExtractSheet, ExtractionNext
<1>2. UNCHANGED job
  BY DEF ExtractSheet
<1>3. CASE BeginCompletion(r) \/ BeginManualIngest(r)
  BY <1>2, <1>3 DEF BeginCompletion, BeginManualIngest
<1>4. CASE CompletionStep(r)
  BY <1>2, <1>4 DEF CompletionStep, FindPendingFile, RefuseCompletion, FinishUpload,
     LoadSheet, SkipSheet, FindModel, ClaimSheet, LoseModelRace, AiAnswers, AiFails
<1>5. CASE IngestStep(r)
  BY <1>2, <1>5 DEF IngestStep, CheckIngest, RejectIngest, StoreExtraction,
     AuditFallback, ResetSheet
<1>6. CASE FailureStep(r)
  BY <1>2, <1>6 DEF FailureStep, TransactionFails, ResetFails, Crash, Fault
<1> QED
  BY <1>1, <1>3, <1>4, <1>5, <1>6

LEMMA ReviewLeavesResults ==
  ASSUME ReviewSheet
  PROVE  UNCHANGED <<calcs, job>> /\ (status' = status \/ status' # "COMPLETED")
BY DEF ReviewSheet, VerificationNext, CheckReview, CheckSubmit, CheckApprove, Checked,
   LoadItem, LoadItems, Abort, CommitReview, CommitSubmit, CommitApprove

LEMMA ExportLeavesResults ==
  ASSUME ExportSheet
  PROVE  UNCHANGED <<calcs, job, status>>
BY DEF ExportSheet, ExportsNext

----------------------------------------------------------------------------
(* Results and the calculations in flight.                                  *)

LEMMA EntryFields ==
  \A v, t, d, s : LET e == Entry(v, t, d, s)
                  IN  e.version = v /\ e.total = t /\ e.digest = d /\ e.status = s
BY DEF Entry

LEMMA WorkFields ==
  \A ph, op, res : LET t == Doing(ph, op, res)
                   IN  t.phase = ph /\ t.op = op /\ t.result = res
BY DEF Doing

IsEntry(e) == /\ e = Entry(e.version, e.total, e.digest, e.status)
              /\ e.version \in Nat

LEMMA EntriesAreEntries ==
  \A v \in Nat : \A t, d, s : IsEntry(Entry(v, t, d, s))
BY EntryFields DEF IsEntry

\* The entry that may follow the rows of the ledger.
Accepts(rows, e) ==
  /\ rows # <<>> /\ rows[Len(rows)].status = "TOTAL_MISMATCH"
  /\ e = Entry(Len(rows) + 1, rows[Len(rows)].total, rows[Len(rows)].digest,
               "READY_FOR_EXPORT")
Records(rows, e) == rows # <<>> => e.digest # rows[Len(rows)].digest

TrueWork(t, rows) ==
  /\ t.phase = "found" /\ t.op = "resolve" =>
       /\ t.result.version \in 1..Len(rows)
       /\ t.result = rows[t.result.version]
       /\ t.result.status = "TOTAL_MISMATCH"
  /\ t.phase = "write" =>
       /\ IsEntry(t.result) /\ t.result.version \in 1..(Len(rows) + 1)
       /\ t.result.version = Len(rows) + 1 =>
            Records(rows, t.result) \/ Accepts(rows, t.result)

\* The rows of the ledger: numbered, and repeated only by an acceptance.
Book(rows) ==
  /\ \E S : rows \in Seq(S)
  /\ \A k \in DOMAIN rows : rows[k].version = k /\ IsEntry(rows[k])
  /\ \A k \in DOMAIN rows \ {1} : rows[k].digest = rows[k - 1].digest =>
       rows[k - 1].status = "TOTAL_MISMATCH" /\ rows[k].status = "READY_FOR_EXPORT"

LedgerInv ==
  /\ job = [c \in Calculators |-> job[c]]
  /\ \A c \in Calculators : TrueWork(job[c], calcs)
  /\ Book(calcs)
  /\ CompletedSheetIsReady

Appends(e) ==
  /\ calcs' = Append(calcs, e)
  /\ IsEntry(e) /\ e.version = Len(calcs) + 1
  /\ status' = SheetStatus(e.status)
  /\ Records(calcs, e) \/ Accepts(calcs, e)

Extended(newRows, rows, e) == newRows = Append(rows, e)

LEMMA BookLength ==
  ASSUME NEW rows, Book(rows)
  PROVE  /\ Len(rows) \in Nat /\ DOMAIN rows = 1..Len(rows)
         /\ (rows = <<>>) <=> (Len(rows) = 0)
BY LenProperties, EmptySeq DEF Book

LEMMA BookAppended ==
  ASSUME NEW rows, Book(rows), NEW e, NEW newRows, Extended(newRows, rows, e)
  PROVE  /\ \E S : newRows \in Seq(S)
         /\ Len(newRows) = Len(rows) + 1 /\ DOMAIN newRows = 1..(Len(rows) + 1)
         /\ \A k \in 1..Len(rows) : newRows[k] = rows[k]
         /\ newRows[Len(rows) + 1] = e
         /\ newRows # <<>>
<1>1. PICK S : rows \in Seq(S)
  BY DEF Book
<1>2. rows \in Seq(S \cup {e})
  <2>1. Len(rows) \in Nat /\ rows = [k \in 1..Len(rows) |-> rows[k]]
        /\ \A k \in 1..Len(rows) : rows[k] \in S \cup {e}
    BY <1>1, LenProperties, ElementOfSeq
  <2> QED BY <2>1, IsASeq
<1>3. /\ newRows \in Seq(S \cup {e}) /\ Len(newRows) = Len(rows) + 1
      /\ \A k \in 1..Len(rows) : newRows[k] = rows[k]
      /\ newRows[Len(rows) + 1] = e
  BY <1>2, AppendProperties DEF Extended
<1>4. Len(rows) \in Nat
  BY BookLength
<1>5. DOMAIN newRows = 1..(Len(rows) + 1) /\ newRows # <<>>
  BY <1>3, <1>4, LenProperties, EmptySeq
<1> QED
  BY <1>3, <1>5

LEMMA EntryAppended ==
  ASSUME NEW rows, Book(rows), NEW e, NEW newRows, Extended(newRows, rows, e),
         IsEntry(e), e.version = Len(rows) + 1, Records(rows, e) \/ Accepts(rows, e)
  PROVE  Book(newRows)
<1>1. /\ Len(rows) \in Nat /\ DOMAIN rows = 1..Len(rows)
      /\ (rows = <<>>) <=> (Len(rows) = 0)
  BY BookLength
<1>2. /\ \E S : newRows \in Seq(S)
      /\ DOMAIN newRows = 1..(Len(rows) + 1)
      /\ \A k \in 1..Len(rows) : newRows[k] = rows[k]
      /\ newRows[Len(rows) + 1] = e
  BY BookAppended
<1>3. ASSUME NEW k \in DOMAIN newRows PROVE newRows[k].version = k /\ IsEntry(newRows[k])
  BY <1>1, <1>2 DEF Book
<1>4. ASSUME NEW k \in DOMAIN newRows \ {1}, newRows[k].digest = newRows[k - 1].digest
      PROVE  newRows[k - 1].status = "TOTAL_MISMATCH" /\ newRows[k].status = "READY_FOR_EXPORT"
  <2>1. CASE k \in 1..Len(rows)
    <3>1. newRows[k] = rows[k] /\ newRows[k - 1] = rows[k - 1] /\ k \in DOMAIN rows \ {1}
      BY <1>1, <1>2, <1>4, <2>1
    <3> QED BY <1>4, <3>1 DEF Book
  <2>2. CASE k = Len(rows) + 1
    <3>0. Len(rows) \in 1..Len(rows) /\ k - 1 = Len(rows) /\ rows # <<>>
      BY <1>1, <1>4, <2>2
    <3>1. newRows[k] = e /\ newRows[k - 1] = rows[Len(rows)]
      BY <1>2, <2>2, <3>0
    <3>2. Accepts(rows, e)
      BY <1>4, <3>0, <3>1 DEF Records
    <3>3. e.status = "READY_FOR_EXPORT"
      BY <3>2, EntryFields DEF Accepts
    <3> QED BY <3>1, <3>2, <3>3 DEF Accepts
  <2> QED BY <1>1, <1>2, <1>4, <2>1, <2>2
<1> QED
  BY <1>2, <1>3, <1>4 DEF Book

\* What a request remembers of older rows stays true when a row is added: a
\* version that was next is taken now, and the unique index refuses it.
LEMMA WorkSurvives ==
  ASSUME NEW rows, Book(rows), NEW e, NEW newRows, Extended(newRows, rows, e),
         NEW t, TrueWork(t, rows)
  PROVE  TrueWork(t, newRows)
<1>1. /\ Len(rows) \in Nat /\ Len(newRows) = Len(rows) + 1
      /\ \A k \in 1..Len(rows) : newRows[k] = rows[k]
  BY BookLength, BookAppended
<1> QED
  BY <1>1 DEF TrueWork

LEMMA NoJobIsTrue == \A rows : TrueWork(NoJob, rows)
<1>1. NoJob.phase = "idle"
  BY WorkFields DEF NoJob
<1> QED
  BY <1>1 DEF TrueWork

----------------------------------------------------------------------------
(* A step of the calculations appends one entry, or moves a request.        *)

LEMMA WorkMoves ==
  ASSUME LedgerInv, NEW c \in Calculators, NEW t, job' = [job EXCEPT ![c] = t]
  PROVE  /\ job' = [d \in Calculators |-> job'[d]]
         /\ \A d \in Calculators : job'[d] = IF d = c THEN t ELSE job[d]
BY DEF LedgerInv

LEMMA ReadsMove ==
  ASSUME LedgerInv, NEW c \in Calculators,
         \/ FindApprovedSession(c) \/ ComputeResult(c) \/ ReturnLatest(c)
         \/ PrepareVersion(c) \/ FindMismatch(c) \/ ConfirmLatest(c)
         \/ AbortCalculation(c)
  PROVE  /\ UNCHANGED <<calcs, status>>
         /\ \E t : TrueWork(t, calcs) /\ job' = [job EXCEPT ![c] = t]
<1>1. /\ Len(calcs) \in Nat /\ DOMAIN calcs = 1..Len(calcs)
      /\ (calcs = <<>>) <=> (Len(calcs) = 0)
      /\ \A k \in DOMAIN calcs : calcs[k].version = k /\ IsEntry(calcs[k])
  BY BookLength DEF LedgerInv, Book
<1>2. TrueWork(job[c], calcs)
  BY DEF LedgerInv
<1>3. CASE FindApprovedSession(c)
  <2>1. TrueWork(Doing("found", "calculate", Pending), calcs)
    BY WorkFields DEF TrueWork
  <2> QED BY <1>3, <2>1 DEF FindApprovedSession
<1>4. CASE ComputeResult(c)
  <2>1. TrueWork(Doing("computed", "calculate", ComputedResult), calcs)
    BY WorkFields DEF TrueWork
  <2> QED BY <1>4, <2>1 DEF ComputeResult
<1>5. CASE ReturnLatest(c) \/ AbortCalculation(c)
  BY <1>5, NoJobIsTrue DEF ReturnLatest, AbortCalculation
<1>6. CASE PrepareVersion(c)
  <2> DEFINE e == Entry(Len(calcs) + 1, job[c].result.total, job[c].result.digest,
                        job[c].result.status)
             t == Doing("write", "calculate", e)
  <2>1. IsEntry(e) /\ e.version = Len(calcs) + 1 /\ e.digest = job[c].result.digest
    BY <1>1, EntriesAreEntries, EntryFields
  <2>2. Len(calcs) = 0 \/ calcs[Len(calcs)].digest # job[c].result.digest
    BY <1>6 DEF PrepareVersion, SameInputAsLatest, LatestVersion, Latest
  <2>3. t.phase = "write" /\ t.result = e
    BY WorkFields
  <2>4. job' = [job EXCEPT ![c] = t]
    BY <1>6 DEF PrepareVersion, LatestVersion
  <2> HIDE DEF t, e
  <2>5. Records(calcs, e)
    BY <1>1, <2>1, <2>2 DEF Records
  <2>6. TrueWork(t, calcs)
    BY <1>1, <2>1, <2>3, <2>5 DEF TrueWork
  <2> QED BY <1>6, <2>4, <2>6 DEF PrepareVersion
<1>7. CASE FindMismatch(c)
  <2>1. PICK k \in DOMAIN calcs :
          /\ calcs[k].status = "TOTAL_MISMATCH"
          /\ job' = [job EXCEPT ![c] = Doing("found", "resolve", calcs[k])]
    BY <1>7 DEF FindMismatch
  <2>2. TrueWork(Doing("found", "resolve", calcs[k]), calcs)
    BY <1>1, <2>1, WorkFields DEF TrueWork
  <2> QED BY <1>7, <2>1, <2>2 DEF FindMismatch
<1>8. CASE ConfirmLatest(c)
  <2> DEFINE r == job[c].result
             e == Entry(r.version + 1, r.total, r.digest, "READY_FOR_EXPORT")
             t == Doing("write", "resolve", e)
  <2>1. /\ r.version \in 1..Len(calcs) /\ r = calcs[r.version]
        /\ r.status = "TOTAL_MISMATCH"
    BY <1>2, <1>8 DEF ConfirmLatest, TrueWork
  <2>2. Len(calcs) # 0 /\ calcs[Len(calcs)].version = r.version
    BY <1>8 DEF ConfirmLatest, LatestVersion, Latest
  <2>3. r.version = Len(calcs) /\ r = calcs[Len(calcs)] /\ calcs # <<>>
    BY <1>1, <2>1, <2>2
  <2>4. job' = [job EXCEPT ![c] = t]
    BY <1>8 DEF ConfirmLatest
  <2> HIDE DEF r
  <2>5. e = Entry(Len(calcs) + 1, calcs[Len(calcs)].total, calcs[Len(calcs)].digest,
                  "READY_FOR_EXPORT")
    BY <2>3
  <2>6. IsEntry(e) /\ e.version = Len(calcs) + 1
    BY <1>1, <2>5, EntriesAreEntries, EntryFields
  <2>7. t.phase = "write" /\ t.result = e
    BY WorkFields
  <2> HIDE DEF t, e
  <2>8. Accepts(calcs, e)
    BY <2>1, <2>3, <2>5 DEF Accepts
  <2>9. TrueWork(t, calcs)
    BY <1>1, <2>6, <2>7, <2>8 DEF TrueWork
  <2> QED BY <1>8, <2>4, <2>9 DEF ConfirmLatest
<1> QED
  BY <1>3, <1>4, <1>5, <1>6, <1>7, <1>8

LEMMA CommitAppends ==
  ASSUME LedgerInv, NEW c \in Calculators, CommitCalculation(c)
  PROVE  Appends(job[c].result) /\ job' = [job EXCEPT ![c] = NoJob]
<1> DEFINE e == job[c].result
<1>1. /\ Len(calcs) \in Nat /\ DOMAIN calcs = 1..Len(calcs)
      /\ \A k \in DOMAIN calcs : calcs[k].version = k
  BY BookLength DEF LedgerInv, Book
<1>2. TrueWork(job[c], calcs) /\ job[c].phase = "write"
  BY DEF LedgerInv, CommitCalculation
<1>3. \A k \in DOMAIN calcs : calcs[k].version # e.version
  BY DEF CommitCalculation, VersionIsNew
<1>4. IsEntry(e) /\ e.version \in 1..(Len(calcs) + 1)
  BY <1>2 DEF TrueWork
<1>5. e.version = Len(calcs) + 1
  BY <1>1, <1>3, <1>4
<1>6. Records(calcs, e) \/ Accepts(calcs, e)
  BY <1>2, <1>5 DEF TrueWork
<1> QED
  BY <1>4, <1>5, <1>6 DEF CommitCalculation, Appends

\* The only steps that touch the ledger are the commits.
LEMMA StepAppendsOrLeaves ==
  ASSUME LedgerInv, [LifecycleNext]_lifecycleVars
  PROVE  /\ \/ calcs' = calcs /\ (status' = status \/ status' # "COMPLETED")
            \/ \E e : Appends(e)
         /\ \/ job' = job
            \/ \E c \in Calculators : \E t : /\ job' = [job EXCEPT ![c] = t]
                                           /\ TrueWork(t, calcs)
<1> DEFINE Goal ==
         /\ \/ calcs' = calcs /\ (status' = status \/ status' # "COMPLETED")
            \/ \E e : Appends(e)
         /\ \/ job' = job
            \/ \E c \in Calculators : \E t : /\ job' = [job EXCEPT ![c] = t]
                                           /\ TrueWork(t, calcs)
<1>1. ASSUME ExtractSheet \/ ReviewSheet \/ ExportSheet PROVE Goal
  BY <1>1, ExtractionLeavesResults, ReviewLeavesResults, ExportLeavesResults
<1>2. ASSUME CalculateSheet PROVE Goal
  <2>1. PICK c \in Calculators :
          \/ \/ FindApprovedSession(c) \/ ComputeResult(c) \/ ReturnLatest(c)
             \/ PrepareVersion(c) \/ FindMismatch(c) \/ ConfirmLatest(c)
             \/ AbortCalculation(c)
          \/ CommitCalculation(c)
    BY <1>2 DEF CalculateSheet, CalculationsNext
  <2>2. ASSUME CommitCalculation(c) PROVE Goal
    BY <2>2, CommitAppends, NoJobIsTrue
  <2>3. ASSUME \/ FindApprovedSession(c) \/ ComputeResult(c) \/ ReturnLatest(c)
               \/ PrepareVersion(c) \/ FindMismatch(c) \/ ConfirmLatest(c)
               \/ AbortCalculation(c)
        PROVE  Goal
    BY <2>3, ReadsMove
  <2> HIDE DEF Goal
  <2> QED BY <2>1, <2>2, <2>3
<1>3. ASSUME UNCHANGED lifecycleVars PROVE Goal
  BY <1>3
<1> HIDE DEF Goal
<1>4. Goal
  BY <1>1, <1>2, <1>3 DEF LifecycleNext
<1> QED
  BY <1>4 DEF Goal

LEMMA AppendedLast ==
  ASSUME LedgerInv, NEW e, Appends(e)
  PROVE  /\ Book(calcs') /\ calcs' # <<>> /\ Len(calcs') = Len(calcs) + 1
         /\ calcs'[Len(calcs')] = e
         /\ (status' = "COMPLETED") <=> (e.status = "READY_FOR_EXPORT")
         /\ \A t : TrueWork(t, calcs) => TrueWork(t, calcs')
<1>1. Book(calcs) /\ Extended(calcs', calcs, e)
  BY DEF LedgerInv, Appends, Extended
<1>2. /\ calcs' # <<>> /\ Len(calcs') = Len(calcs) + 1
      /\ calcs'[Len(calcs) + 1] = e
  BY <1>1, BookAppended
<1>3. Book(calcs')
  BY <1>1, EntryAppended DEF Appends
<1>4. (status' = "COMPLETED") <=> (e.status = "READY_FOR_EXPORT")
  BY DEF Appends, SheetStatus
<1>5. \A t : TrueWork(t, calcs) => TrueWork(t, calcs')
  BY <1>1, WorkSurvives
<1> QED
  BY <1>2, <1>3, <1>4, <1>5

LEMMA LedgerInductive == LedgerInv /\ [LifecycleNext]_lifecycleVars => LedgerInv'
<1> SUFFICES ASSUME LedgerInv, [LifecycleNext]_lifecycleVars PROVE LedgerInv'
  OBVIOUS
<1>1. Book(calcs') /\ \A t : TrueWork(t, calcs) => TrueWork(t, calcs')
  <2>1. CASE calcs' = calcs
    BY <2>1 DEF LedgerInv
  <2>2. CASE \E e : Appends(e)
    BY <2>2, AppendedLast
  <2> QED BY <2>1, <2>2, StepAppendsOrLeaves
<1>2. /\ job' = [c \in Calculators |-> job'[c]]
      /\ \A c \in Calculators : TrueWork(job'[c], calcs')
  <2>1. CASE job' = job
    BY <1>1, <2>1 DEF LedgerInv
  <2>2. ASSUME NEW c \in Calculators, NEW t, job' = [job EXCEPT ![c] = t],
               TrueWork(t, calcs)
        PROVE  /\ job' = [d \in Calculators |-> job'[d]]
               /\ \A d \in Calculators : TrueWork(job'[d], calcs')
    <3>1. /\ job' = [d \in Calculators |-> job'[d]]
          /\ \A d \in Calculators : job'[d] = IF d = c THEN t ELSE job[d]
      BY <2>2, WorkMoves
    <3>2. ASSUME NEW d \in Calculators PROVE TrueWork(job'[d], calcs')
      <4>1. TrueWork(job'[d], calcs)
        BY <2>2, <3>1 DEF LedgerInv
      <4> QED BY <1>1, <4>1
    <3> QED BY <3>1, <3>2
  <2> QED BY <2>1, <2>2, StepAppendsOrLeaves
<1>3. status' = "COMPLETED" => calcs' # <<>> /\ calcs'[Len(calcs')].status = "READY_FOR_EXPORT"
  <2>1. CASE calcs' = calcs /\ (status' = status \/ status' # "COMPLETED")
    BY <2>1 DEF LedgerInv, CompletedSheetIsReady, Latest, LatestVersion
  <2>2. CASE \E e : Appends(e)
    BY <2>2, AppendedLast
  <2> QED BY <2>1, <2>2, StepAppendsOrLeaves
<1>4. CompletedSheetIsReady'
  BY <1>3 DEF CompletedSheetIsReady, Latest, LatestVersion
<1> QED
  BY <1>1, <1>2, <1>4 DEF LedgerInv, TrueWork, Book, IsEntry, Records, Accepts

LEMMA LedgerAtInit == LifecycleInit => LedgerInv
<1> SUFFICES ASSUME LifecycleInit PROVE LedgerInv
  OBVIOUS
<1>1. /\ calcs = <<>> /\ status = "PENDING_UPLOAD"
      /\ job = [c \in Calculators |-> NoJob]
  BY DEF LifecycleInit, DbInit, CalculationsInit
<1>2. calcs \in Seq({}) /\ DOMAIN calcs = {}
  BY <1>1
<1>3. Book(calcs)
  BY <1>2 DEF Book
<1>4. \A c \in Calculators : TrueWork(job[c], calcs)
  BY <1>1, NoJobIsTrue
<1>5. job = [c \in Calculators |-> job[c]]
  BY <1>1
<1> QED
  BY <1>1, <1>3, <1>4, <1>5 DEF LedgerInv, CompletedSheetIsReady

LEMMA LedgerAlways == LifecycleSpec => []LedgerInv
BY LedgerAtInit, LedgerInductive, PTL DEF LifecycleSpec

----------------------------------------------------------------------------
(* The theorems about calculations.                                         *)

\* A sheet that can be exported shows a latest calculation that is ready,
\* whatever was reviewed, approved or calculated meanwhile.
THEOREM CompletedSheetsAreReady == LifecycleSpec => []CompletedSheetIsReady
<1>1. LedgerInv => CompletedSheetIsReady
  BY DEF LedgerInv
<1> QED BY <1>1, LedgerAlways, PTL

\* Overlapping requests number the calculations of a sheet 1, 2, 3, ...
THEOREM CalculationsAreConsecutive == LifecycleSpec => []VersionsAreConsecutive
<1>1. LedgerInv => VersionsAreConsecutive
  BY DEF LedgerInv, Book, VersionsAreConsecutive
<1> QED BY <1>1, LedgerAlways, PTL

\* Two neighbouring calculations of the same input are a doubted total and
\* its acceptance, however many requests overlapped.
THEOREM CalculationsAreIdempotent == LifecycleSpec => []CalculationIsIdempotent
<1>1. LedgerInv => CalculationIsIdempotent
  BY DEF LedgerInv, Book, CalculationIsIdempotent
<1> QED BY <1>1, LedgerAlways, PTL

\* Handlers that run over the same rows implement the ledger: a commit of a
\* calculation is one entry, and everything else leaves or withdraws it.
THEOREM CalculationsAreALedger == LifecycleSpec => LedgerIsImplemented
<1>1. LifecycleInit => Ledger!Init
  BY DEF LifecycleInit, DbInit, Ledger!Init
<1>2. LedgerInv /\ [LifecycleNext]_lifecycleVars =>
        [Ledger!Next]_<<calcs, status = "COMPLETED">>
  <2> SUFFICES ASSUME LedgerInv, [LifecycleNext]_lifecycleVars
               PROVE  [Ledger!Next]_<<calcs, status = "COMPLETED">>
    OBVIOUS
  <2>1. CASE calcs' = calcs /\ status' = status
    BY <2>1
  <2>2. CASE calcs' = calcs /\ status' # "COMPLETED"
    <3>1. (status' = "COMPLETED") = FALSE
      BY <2>2
    <3>2. Ledger!Withdraw
      BY <2>2, <3>1 DEF Ledger!Withdraw
    <3> QED BY <3>2 DEF Ledger!Next
  <2>3. ASSUME NEW e, Appends(e) PROVE Ledger!Next
    <3>1. /\ Len(calcs') = Len(calcs) + 1 /\ calcs'[Len(calcs')] = e
          /\ (status' = "COMPLETED") <=> (e.status = "READY_FOR_EXPORT")
          /\ calcs' = Append(calcs, e) /\ e.version = Len(calcs) + 1
      BY <2>3, AppendedLast DEF Appends
    <3>2. (status' = "COMPLETED") = (e.status = "READY_FOR_EXPORT")
      BY <3>1
    <3>3. Ledger!Grows
      BY <3>1, <3>2 DEF Ledger!Grows, Ledger!NewEntry
    <3>4. CASE Records(calcs, e)
      BY <3>1, <3>3, <3>4 DEF Records, Ledger!Next, Ledger!Record, Ledger!NewEntry,
         Ledger!Newest
    <3>5. CASE Accepts(calcs, e)
      <4> DEFINE last == calcs[Len(calcs)]
      <4>1. /\ calcs # <<>> /\ last.status = "TOTAL_MISMATCH"
            /\ e = Entry(Len(calcs) + 1, last.total, last.digest, "READY_FOR_EXPORT")
        BY <3>5 DEF Accepts
      <4>2. /\ e.total = last.total /\ e.digest = last.digest
            /\ e.status = "READY_FOR_EXPORT"
        BY <4>1 DEF Entry
      <4> QED
        BY <3>1, <3>3, <4>1, <4>2 DEF Ledger!Next, Ledger!Accept, Ledger!NewEntry,
           Ledger!Newest
    <3> QED BY <2>3, <3>4, <3>5 DEF Appends
  <2> QED BY <2>1, <2>2, <2>3, StepAppendsOrLeaves
<1> QED
  BY <1>1, <1>2, LedgerAlways, PTL DEF LifecycleSpec, LedgerIsImplemented, Ledger!Spec

----------------------------------------------------------------------------
(* Exports: what the rows say of an export is what happened to it.          *)

LogRow == [action : ExportActions, export : Exporters]
Told(log, e, action) ==
  {k \in DOMAIN log : log[k] = [action |-> action, export |-> e]}

\* An export in flight, its row, its object and its rows in the audit log.
TrueExport(work, row, object, done, failed) ==
  /\ work = [phase |-> work.phase, content |-> work.content]
  /\ work.content = [result |-> work.content.result, picks |-> work.content.picks]
  /\ row = [status |-> row.status, file |-> row.file] /\ row.file \in BOOLEAN
  /\ work.phase \in {"result", "session", "rows", "stored"} =>
       work.content.result.status = "READY_FOR_EXPORT"
  /\ row.file \/ work.phase = "stored" => object.result.status = "READY_FOR_EXPORT"
  /\ work.phase = "idle" => row.status = "NONE"
  /\ work.phase \in {"requested", "sheet", "result", "session", "rows", "stored"} =>
       row.status = "PROCESSING"
  /\ work.phase = "failing" => row.status \in {"PROCESSING", "COMPLETED"}
  /\ row.file <=> done # {}
  /\ row.status \in {"COMPLETED", "EXPIRED"} => (\E k : done = {k}) /\ failed = {}
  /\ row.status = "FAILED" => \E k : failed = {k}
  /\ row.status \in {"NONE", "PROCESSING"} => done = {} /\ failed = {}

TrueExportOf(e) ==
  TrueExport(exportJob[e], exports[e], objects[e],
             Told(exportAudit, e, "EXPORT_COMPLETED"), Told(exportAudit, e, "EXPORT_FAILED"))

ExportInv ==
  /\ exportJob = [e \in Exporters |-> exportJob[e]]
  /\ exports = [e \in Exporters |-> exports[e]]
  /\ objects = [e \in Exporters |-> objects[e]]
  /\ exportAudit \in Seq(LogRow)
  /\ \A e \in Exporters : TrueExportOf(e)

LEMMA ExportInvAccounts == ExportInv => ExportsAreAccounted
<1> SUFFICES ASSUME ExportInv, NEW e \in Exporters
             PROVE  LET done == ExportRows(e, "EXPORT_COMPLETED")
                        failed == ExportRows(e, "EXPORT_FAILED")
                    IN  /\ exports[e].file <=> done # {}
                        /\ exports[e].file => e \in Stored
                        /\ exports[e].status \in {"COMPLETED", "EXPIRED"} =>
                             Cardinality(done) = 1 /\ failed = {}
                        /\ exports[e].status = "FAILED" => Cardinality(failed) = 1
                        /\ exports[e].status \in {"NONE", "PROCESSING"} =>
                             done \cup failed = {}
  BY DEF ExportsAreAccounted
<1> DEFINE done == ExportRows(e, "EXPORT_COMPLETED")
           failed == ExportRows(e, "EXPORT_FAILED")
<1>1. TrueExport(exportJob[e], exports[e], objects[e], done, failed)
  BY DEF ExportInv, TrueExportOf, Told, ExportRows
<1> HIDE DEF done, failed
<1>2. \A k : Cardinality({k}) = 1
  BY FS_Singleton
<1>3. NoContent.result.status = "INCOMPLETE"
  BY EntryFields DEF NoContent, Pending
<1>4. exports[e].file => e \in Stored
  BY <1>1, <1>3 DEF TrueExport, Stored
<1>5. /\ exports[e].file <=> done # {}
      /\ exports[e].status \in {"COMPLETED", "EXPIRED"} => Cardinality(done) = 1 /\ failed = {}
      /\ exports[e].status = "FAILED" => Cardinality(failed) = 1
      /\ exports[e].status \in {"NONE", "PROCESSING"} => done \cup failed = {}
  BY <1>1, <1>2 DEF TrueExport
<1> QED
  BY <1>4, <1>5 DEF done, failed

LEMMA ExportLogged ==
  ASSUME NEW log \in Seq(LogRow), NEW m \in LogRow, NEW newLog, Extended(newLog, log, m)
  PROVE  /\ newLog \in Seq(LogRow) /\ Len(log) + 1 \notin DOMAIN log
         /\ \A e, action : Told(newLog, e, action) =
              IF m = [action |-> action, export |-> e]
              THEN Told(log, e, action) \cup {Len(log) + 1} ELSE Told(log, e, action)
<1>1. /\ newLog \in Seq(LogRow) /\ Len(newLog) = Len(log) + 1
      /\ \A k \in 1..Len(log) : newLog[k] = log[k]
      /\ newLog[Len(log) + 1] = m
  BY AppendProperties DEF Extended
<1>2. /\ Len(log) \in Nat /\ DOMAIN log = 1..Len(log)
      /\ DOMAIN newLog = 1..(Len(log) + 1)
  BY <1>1, LenProperties
<1> QED
  BY <1>1, <1>2 DEF Told

\* A step of one request, seen from the others.
OthersWait(e) ==
  /\ exportJob' = [d \in Exporters |-> exportJob'[d]]
  /\ exports' = [d \in Exporters |-> exports'[d]]
  /\ objects' = [d \in Exporters |-> objects'[d]]
  /\ \A d \in Exporters \ {e} : /\ exportJob'[d] = exportJob[d]
                                /\ exports'[d] = exports[d] /\ objects'[d] = objects[d]

LEMMA QuietStep ==
  ASSUME ExportInv, NEW e \in Exporters, OthersWait(e), exportAudit' = exportAudit,
         TrueExport(exportJob'[e], exports'[e], objects'[e],
                    Told(exportAudit, e, "EXPORT_COMPLETED"),
                    Told(exportAudit, e, "EXPORT_FAILED"))
  PROVE  ExportInv'
BY DEF ExportInv, TrueExportOf, OthersWait

LEMMA ToldStep ==
  ASSUME ExportInv, NEW e \in Exporters, OthersWait(e), NEW action \in ExportActions,
         ExportAudited(action, e),
         TrueExport(exportJob'[e], exports'[e], objects'[e],
                    Told(exportAudit', e, "EXPORT_COMPLETED"),
                    Told(exportAudit', e, "EXPORT_FAILED"))
  PROVE  ExportInv'
<1> DEFINE m == [action |-> action, export |-> e]
<1>1. m \in LogRow /\ exportAudit \in Seq(LogRow) /\ Extended(exportAudit', exportAudit, m)
  BY DEF LogRow, ExportInv, ExportAudited, Extended
<1>2. \A d \in Exporters \ {e} : \A a : m # [action |-> a, export |-> d]
  OBVIOUS
<1> HIDE DEF m
<1>3. /\ exportAudit' \in Seq(LogRow)
      /\ \A d \in Exporters \ {e} : \A a : Told(exportAudit', d, a) = Told(exportAudit, d, a)
  BY <1>1, <1>2, ExportLogged
<1>4. \A d \in Exporters \ {e} : TrueExportOf(d)'
  BY <1>3 DEF ExportInv, TrueExportOf, OthersWait
<1>5. TrueExportOf(e)'
  BY DEF TrueExportOf
<1> QED
  BY <1>3, <1>4, <1>5 DEF ExportInv, OthersWait

LEMMA RowsTold ==
  ASSUME ExportInv, NEW e \in Exporters, NEW action \in ExportActions,
         ExportAudited(action, e)
  PROVE  \A a : Told(exportAudit', e, a) =
           IF a = action THEN Told(exportAudit, e, a) \cup {Len(exportAudit) + 1}
           ELSE Told(exportAudit, e, a)
<1> DEFINE m == [action |-> action, export |-> e]
<1>1. m \in LogRow /\ exportAudit \in Seq(LogRow) /\ Extended(exportAudit', exportAudit, m)
  BY DEF LogRow, ExportInv, ExportAudited, Extended
<1>2. \A a : m = [action |-> a, export |-> e] <=> a = action
  OBVIOUS
<1> HIDE DEF m
<1> QED BY <1>1, <1>2, ExportLogged

LEMMA NoContentShape ==
  NoContent = [result |-> NoContent.result, picks |-> NoContent.picks]
BY DEF NoContent

\* The reads, the store and the failures that leave the audit log alone.
LEMMA QuietExportSteps ==
  ASSUME ExportInv, NEW e \in Exporters,
         \/ ReadSheet(e) \/ ReadResult(e) \/ ReadSession(e) \/ ReadMarks(e)
         \/ StoreObject(e) \/ FailExport(e) \/ AbandonExport(e) \/ ExpireExport(e)
  PROVE  ExportInv'
<1> DEFINE Trued ==
      TrueExport(exportJob'[e], exports'[e], objects'[e],
                 Told(exportAudit, e, "EXPORT_COMPLETED"), Told(exportAudit, e, "EXPORT_FAILED"))
<1>1. TrueExportOf(e)
  BY DEF ExportInv
<1>2. exportAudit' = exportAudit
  BY DEF ReadSheet, ReadResult, ReadSession, ReadMarks, StoreObject, FailExport,
     AbandonExport, ExpireExport
<1>3. OthersWait(e)
  BY DEF ExportInv, OthersWait, ReadSheet, ReadResult, ReadSession, ReadMarks, StoreObject,
     FailExport, AbandonExport, ExpireExport, ExportTo
<1>4. ASSUME ReadSheet(e) \/ ReadSession(e) PROVE Trued
  BY <1>1, <1>4 DEF ExportInv, TrueExportOf, TrueExport, ReadSheet, ReadSession, ExportTo
<1>5. ASSUME ReadResult(e) PROVE Trued
  BY <1>1, <1>5 DEF ExportInv, TrueExportOf, TrueExport, ReadResult, ResultIsReady
<1>6. ASSUME ReadMarks(e) PROVE Trued
  BY <1>1, <1>6 DEF ExportInv, TrueExportOf, TrueExport, ReadMarks
<1>7. ASSUME StoreObject(e) PROVE Trued
  BY <1>1, <1>7 DEF ExportInv, TrueExportOf, TrueExport, StoreObject, ExportTo
<1>8. ASSUME FailExport(e) \/ AbandonExport(e) PROVE Trued
  <2>1. /\ exportJob'[e].phase \in {"failing", "over"}
        /\ exportJob'[e] = [phase |-> exportJob'[e].phase, content |-> NoContent]
        /\ exports'[e] = exports[e] /\ objects'[e] = objects[e]
    BY <1>8 DEF ExportInv, FailExport, AbandonExport, ExportTo
  <2>2. exportJob'[e].phase = "failing" => exportJob[e].phase \in ExportPhases \ {"idle", "failing", "over"}
    BY <1>8 DEF ExportInv, FailExport, AbandonExport, ExportTo
  <2>3. exportJob'[e].phase = "failing" => exports[e].status = "PROCESSING"
    BY <1>1, <2>2 DEF TrueExportOf, TrueExport, ExportPhases
  <2>4. /\ exportJob'[e].content = NoContent
        /\ exportJob'[e] = [phase |-> exportJob'[e].phase, content |-> exportJob'[e].content]
    BY <2>1
  <2>5. TrueExport(exportJob[e], exports[e], objects[e],
                   Told(exportAudit, e, "EXPORT_COMPLETED"),
                   Told(exportAudit, e, "EXPORT_FAILED"))
    BY <1>1 DEF TrueExportOf
  <2> QED BY <2>1, <2>3, <2>4, <2>5, NoContentShape DEF TrueExport
<1>9. ASSUME ExpireExport(e) PROVE Trued
  BY <1>1, <1>9 DEF ExportInv, TrueExportOf, TrueExport, ExpireExport
<1>10. Trued
  BY <1>4, <1>5, <1>6, <1>7, <1>8, <1>9
<1> QED
  BY <1>2, <1>3, <1>10, QuietStep

\* The three writes that the audit log tells.
LEMMA ToldExportSteps ==
  ASSUME ExportInv, NEW e \in Exporters,
         RequestExport(e) \/ CompleteExport(e) \/ RecordFailure(e)
  PROVE  ExportInv'
<1>1. TrueExportOf(e)
  BY DEF ExportInv
<1>2. OthersWait(e)
  BY DEF ExportInv, OthersWait, RequestExport, CompleteExport, RecordFailure, ExportTo
<1>3. ASSUME RequestExport(e) PROVE ExportInv'
  <2>1. \A a : Told(exportAudit', e, a) =
          IF a = "EXPORT_REQUESTED" THEN Told(exportAudit, e, a) \cup {Len(exportAudit) + 1}
          ELSE Told(exportAudit, e, a)
    BY <1>3, RowsTold DEF RequestExport, ExportActions
  <2>2. /\ exportJob'[e].phase = "requested" /\ exportJob'[e].content = exportJob[e].content
        /\ exportJob'[e] = [phase |-> "requested", content |-> exportJob[e].content]
        /\ exports'[e] = [status |-> "PROCESSING", file |-> exports[e].file]
        /\ objects'[e] = objects[e] /\ exportJob[e].phase = "idle"
    BY <1>1, <1>3 DEF ExportInv, RequestExport, ExportTo, TrueExportOf, TrueExport
  <2>3. TrueExport(exportJob'[e], exports'[e], objects'[e],
                   Told(exportAudit', e, "EXPORT_COMPLETED"),
                   Told(exportAudit', e, "EXPORT_FAILED"))
    BY <1>1, <2>1, <2>2 DEF TrueExportOf, TrueExport
  <2> QED BY <1>2, <1>3, <2>3, ToldStep DEF RequestExport, ExportActions
<1>4. ASSUME CompleteExport(e) PROVE ExportInv'
  <2>1. \A a : Told(exportAudit', e, a) =
          IF a = "EXPORT_COMPLETED" THEN Told(exportAudit, e, a) \cup {Len(exportAudit) + 1}
          ELSE Told(exportAudit, e, a)
    BY <1>4, RowsTold DEF CompleteExport, ExportActions
  <2>2. /\ exportJob'[e].phase \in {"over", "failing"}
        /\ exportJob'[e] = [phase |-> exportJob'[e].phase, content |-> NoContent]
        /\ exports'[e] = [status |-> "COMPLETED", file |-> TRUE]
        /\ objects'[e] = objects[e] /\ exportJob[e].phase = "stored"
    BY <1>1, <1>4 DEF ExportInv, CompleteExport, ReadyToComplete, ExportTo, TrueExportOf,
       TrueExport
  <2>3. TrueExport(exportJob'[e], exports'[e], objects'[e],
                   Told(exportAudit', e, "EXPORT_COMPLETED"),
                   Told(exportAudit', e, "EXPORT_FAILED"))
    <3>1. /\ Told(exportAudit', e, "EXPORT_COMPLETED") = {Len(exportAudit) + 1}
          /\ Told(exportAudit', e, "EXPORT_FAILED") = {}
          /\ objects[e].result.status = "READY_FOR_EXPORT"
      BY <1>1, <2>1, <2>2 DEF TrueExportOf, TrueExport
    <3> QED BY <2>2, <3>1, NoContentShape DEF TrueExport
  <2> QED BY <1>2, <1>4, <2>3, ToldStep DEF CompleteExport, ExportActions
<1>5. ASSUME RecordFailure(e) PROVE ExportInv'
  <2>1. \A a : Told(exportAudit', e, a) =
          IF a = "EXPORT_FAILED" THEN Told(exportAudit, e, a) \cup {Len(exportAudit) + 1}
          ELSE Told(exportAudit, e, a)
    BY <1>5, RowsTold DEF RecordFailure, ExportActions
  <2>2. /\ exportJob'[e] = [phase |-> "over", content |-> NoContent]
        /\ exports'[e] = [status |-> "FAILED", file |-> exports[e].file]
        /\ objects'[e] = objects[e] /\ exportJob[e].phase = "failing"
    BY <1>1, <1>5 DEF ExportInv, RecordFailure, ExportTo, TrueExportOf, TrueExport
  <2>3. TrueExport(exportJob'[e], exports'[e], objects'[e],
                   Told(exportAudit', e, "EXPORT_COMPLETED"),
                   Told(exportAudit', e, "EXPORT_FAILED"))
    <3>1. /\ Told(exportAudit', e, "EXPORT_COMPLETED") = Told(exportAudit, e, "EXPORT_COMPLETED")
          /\ Told(exportAudit', e, "EXPORT_FAILED") = {Len(exportAudit) + 1}
      BY <1>1, <2>1, <2>2 DEF TrueExportOf, TrueExport
    <3>2. /\ exports[e].file \in BOOLEAN
          /\ exports[e].file => objects[e].result.status = "READY_FOR_EXPORT"
          /\ exports[e].file <=> Told(exportAudit, e, "EXPORT_COMPLETED") # {}
      BY <1>1 DEF TrueExportOf, TrueExport
    <3>3. /\ exports'[e].status = "FAILED" /\ exports'[e].file = exports[e].file
          /\ exports'[e] = [status |-> exports'[e].status, file |-> exports'[e].file]
      BY <2>2
    <3>4. /\ exportJob'[e].phase = "over" /\ exportJob'[e].content = NoContent
          /\ exportJob'[e] = [phase |-> exportJob'[e].phase,
                              content |-> exportJob'[e].content]
      BY <2>2
    <3> QED BY <2>2, <3>1, <3>2, <3>3, <3>4, NoContentShape DEF TrueExport
  <2> QED BY <1>2, <1>5, <2>3, ToldStep DEF RecordFailure, ExportActions
<1> QED
  BY <1>3, <1>4, <1>5

LEMMA ExportInductive == ExportInv /\ [LifecycleNext]_lifecycleVars => ExportInv'
<1> SUFFICES ASSUME ExportInv, [LifecycleNext]_lifecycleVars PROVE ExportInv'
  OBVIOUS
<1>1. CASE UNCHANGED exportVars
  BY <1>1 DEF ExportInv, TrueExportOf
<1>2. CASE ExportSheet
  BY <1>2, QuietExportSteps, ToldExportSteps DEF ExportSheet, ExportsNext
<1> QED
  BY <1>1, <1>2 DEF LifecycleNext, ExtractSheet, ReviewSheet, CalculateSheet

LEMMA ExportAtInit == LifecycleInit => ExportInv
<1> SUFFICES ASSUME LifecycleInit PROVE ExportInv
  OBVIOUS
<1>1. /\ exportJob = [e \in Exporters |-> [phase |-> "idle", content |-> NoContent]]
      /\ exports = [e \in Exporters |-> [status |-> "NONE", file |-> FALSE]]
      /\ objects = [e \in Exporters |-> NoContent] /\ exportAudit = <<>>
  BY DEF LifecycleInit, ExportsInit
<1>2. exportAudit \in Seq(LogRow) /\ \A e, a : Told(exportAudit, e, a) = {}
  BY <1>1 DEF Told
<1>3. ASSUME NEW e \in Exporters PROVE TrueExportOf(e)
  BY <1>1, <1>2 DEF TrueExportOf, TrueExport, NoContent
<1> QED
  BY <1>1, <1>2, <1>3 DEF ExportInv

\* Whatever fails between the three writes of an export, its row, its object
\* and the audit log agree on how it ended.
THEOREM ExportsAreAccountedFor == LifecycleSpec => []ExportsAreAccounted
BY ExportAtInit, ExportInductive, ExportInvAccounts, PTL DEF LifecycleSpec

----------------------------------------------------------------------------
(* What a generated file shows: marks that a reviewer gave.                 *)

\* A value of a history that a reviewer wrote.
Reviewed(history, id) == id \in DOMAIN history /\ history[id].source = "REVIEWER"

\* A decision in flight; once its items are loaded, they stay decided.
TrueDecision(r) ==
  /\ r = [phase |-> r.phase, op |-> r.op, item |-> r.item, mark |-> r.mark, base |-> r.base]
  /\ r.phase # "idle" /\ r.op = "review" => r.item \in Items
  /\ r.phase = "loaded" /\ r.op # "review" => AllSelected

MarksInv ==
  /\ values = [i \in Items |-> values[i]]
  /\ selected = [i \in Items |-> selected[i]]
  /\ request = [q \in Requests |-> request[q]]
  /\ \A i \in Items : \E S : values[i] \in Seq(S)
  /\ \A i \in Items : selected[i] # 0 => Reviewed(values[i], selected[i])
  /\ \A q \in Requests : TrueDecision(request[q])
  /\ session.status \in {"SUBMITTED", "APPROVED"} => AllSelected
  /\ extractions = <<>> =>
       session.status = "NONE" /\ \A q \in Requests : request[q].phase = "idle"

\* What no step takes back once the rows of the sheet exist.
MarksGrow ==
  extractions # <<>> =>
    /\ extractions' # <<>>
    /\ AllSelected => AllSelected'
    /\ \A i \in Items : \A id : Reviewed(values[i], id) => Reviewed(values'[i], id)

LEMMA RowAdded ==
  ASSUME NEW S, NEW history \in Seq(S), NEW x, NEW newHistory,
         Extended(newHistory, history, x)
  PROVE  /\ newHistory[Len(history) + 1] = x
         /\ \A n \in DOMAIN history :
              n \in DOMAIN newHistory /\ newHistory[n] = history[n]
<1>1. history \in Seq(S \cup {x})
  <2>1. Len(history) \in Nat /\ history = [k \in 1..Len(history) |-> history[k]]
        /\ \A k \in 1..Len(history) : history[k] \in S \cup {x}
    BY LenProperties, ElementOfSeq
  <2> QED BY <2>1, IsASeq
<1>2. /\ newHistory \in Seq(S \cup {x}) /\ Len(newHistory) = Len(history) + 1
      /\ \A k \in 1..Len(history) : newHistory[k] = history[k]
      /\ newHistory[Len(history) + 1] = x
  BY <1>1, AppendProperties DEF Extended
<1>3. /\ Len(history) \in Nat /\ DOMAIN history = 1..Len(history)
      /\ DOMAIN newHistory = 1..(Len(history) + 1)
  BY <1>2, LenProperties
<1> QED
  BY <1>2, <1>3

LEMMA HistoryAppended ==
  ASSUME NEW S, NEW history \in Seq(S), NEW x, NEW newHistory,
         Extended(newHistory, history, x)
  PROVE  /\ \E T : newHistory \in Seq(T)
         /\ Len(history) + 1 # 0
         /\ \A id : Reviewed(history, id) => Reviewed(newHistory, id)
         /\ x.source = "REVIEWER" => Reviewed(newHistory, Len(history) + 1)
<1>1. history \in Seq(S \cup {x})
  <2>1. Len(history) \in Nat /\ history = [k \in 1..Len(history) |-> history[k]]
        /\ \A k \in 1..Len(history) : history[k] \in S \cup {x}
    BY LenProperties, ElementOfSeq
  <2> QED BY <2>1, IsASeq
<1>2. newHistory \in Seq(S \cup {x}) /\ Len(newHistory) = Len(history) + 1
  BY <1>1, AppendProperties DEF Extended
<1>3. Len(history) \in Nat /\ DOMAIN newHistory = 1..(Len(history) + 1)
  BY <1>2, LenProperties
<1>4. Len(history) + 1 # 0 /\ Len(history) + 1 \in DOMAIN newHistory
  BY <1>3
<1> QED
  BY <1>2, <1>4, RowAdded DEF Reviewed

\* Extraction writes the rows once, and before anybody can decide.
LEMMA ExtractionStartsReview ==
  ASSUME ExtractSheet
  PROVE  /\ UNCHANGED request
         /\ \/ UNCHANGED <<extractions, values, session, selected>>
            \/ /\ extractions = <<>> /\ extractions' # <<>>
               /\ session'.status = "OPEN"
               /\ selected' = [i \in Items |-> 0]
               /\ \E batch : values' = AiValues(batch)
<1>1. PICK r \in Runs : \/ BeginCompletion(r) \/ BeginManualIngest(r)
                        \/ CompletionStep(r) \/ IngestStep(r) \/ FailureStep(r)
  BY DEF ExtractSheet, ExtractionNext
<1>2. UNCHANGED request
  BY DEF ExtractSheet
<1>3. CASE BeginCompletion(r) \/ BeginManualIngest(r)
  BY <1>2, <1>3 DEF BeginCompletion, BeginManualIngest
<1>4. CASE CompletionStep(r)
  BY <1>2, <1>4 DEF CompletionStep, FindPendingFile, RefuseCompletion, FinishUpload,
     LoadSheet, SkipSheet, FindModel, ClaimSheet, LoseModelRace, AiAnswers, AiFails
<1>5. CASE StoreExtraction(r)
  <2>1. extractions = <<>> /\ extractions' = Append(<<>>, run[r].marks)
    BY <1>5 DEF StoreExtraction, RowsAreNew
  <2>2. extractions' # <<>>
    BY <2>1
  <2> QED BY <1>2, <1>5, <2>1, <2>2 DEF StoreExtraction
<1>6. CASE CheckIngest(r) \/ RejectIngest(r) \/ AuditFallback(r) \/ ResetSheet(r)
  BY <1>2, <1>6 DEF CheckIngest, RejectIngest, AuditFallback, ResetSheet
<1>7. CASE FailureStep(r)
  BY <1>2, <1>7 DEF FailureStep, TransactionFails, ResetFails, Crash, Fault
<1> QED
  BY <1>1, <1>3, <1>4, <1>5, <1>6, <1>7 DEF IngestStep

LEMMA AiHistories ==
  ASSUME NEW batch
  PROVE  /\ AiValues(batch) = [i \in Items |-> AiValues(batch)[i]]
         /\ \A i \in Items : \E S : AiValues(batch)[i] \in Seq(S)
<1>1. ASSUME NEW i \in Items PROVE \E S : AiValues(batch)[i] \in Seq(S)
  <2>1. CASE batch[i] = NoMark
    <3>1. AiValues(batch)[i] \in Seq({})
      BY <2>1 DEF AiValues
    <3> QED BY <3>1
  <2>2. CASE batch[i] # NoMark
    <3> DEFINE row == [value |-> batch[i], source |-> "AI"]
    <3>1. AiValues(batch)[i] = <<row>>
      BY <2>2 DEF AiValues
    <3> HIDE DEF row
    <3>2. <<row>> \in Seq({row})
      OBVIOUS
    <3> QED BY <3>1, <3>2
  <2> QED BY <2>1, <2>2
<1> QED BY <1>1 DEF AiValues

LEMMA MarksAfterExtraction ==
  ASSUME MarksInv, ExtractSheet PROVE MarksInv' /\ MarksGrow
<1>1. CASE UNCHANGED <<extractions, values, session, selected, request>>
  BY <1>1 DEF MarksInv, MarksGrow, AllSelected, TrueDecision
<1>2. CASE /\ UNCHANGED request
           /\ extractions = <<>> /\ extractions' # <<>>
           /\ session'.status = "OPEN" /\ selected' = [i \in Items |-> 0]
           /\ \E batch : values' = AiValues(batch)
  <2>1. PICK batch : values' = AiValues(batch)
    BY <1>2
  <2>2. values' = [i \in Items |-> values'[i]] /\ \A i \in Items : \E S : values'[i] \in Seq(S)
    BY <2>1, AiHistories
  <2>3. /\ selected' = [i \in Items |-> selected'[i]]
        /\ \A i \in Items : selected'[i] = 0
    BY <1>2
  <2>4. \A q \in Requests : request[q].phase = "idle" /\ TrueDecision(request[q])'
    BY <1>2 DEF MarksInv, TrueDecision
  <2> QED BY <1>2, <2>2, <2>3, <2>4 DEF MarksInv, MarksGrow
<1> QED
  BY <1>1, <1>2, ExtractionStartsReview

\* Requests that look and load, and the ones that give up, leave the rows.
LEMMA MarksAfterReading ==
  ASSUME MarksInv, NEW q \in Requests,
         \/ CheckReview(q) \/ CheckSubmit(q) \/ CheckApprove(q)
         \/ LoadItem(q) \/ LoadItems(q) \/ Abort(q)
  PROVE  MarksInv' /\ MarksGrow
<1> DEFINE Keeps(r) == request' = [request EXCEPT ![q] = r] /\ TrueDecision(r)
                       /\ (r.phase # "idle" => extractions # <<>>)
<1>1. UNCHANGED tables
  BY DEF CheckReview, CheckSubmit, CheckApprove, Checked, LoadItem, LoadItems, Abort
<1>2. ASSUME NEW op, NEW item, NEW mark, Checked(q, op, item, mark),
             op = "review" => item \in Items, session.status # "NONE"
      PROVE  \E r : Keeps(r)
  <2> DEFINE r == [phase |-> "checked", op |-> op, item |-> item, mark |-> mark,
                   base |-> session.lockVersion]
  <2>1. request' = [request EXCEPT ![q] = r]
    BY <1>2 DEF Checked
  <2>2. TrueDecision(r)
    BY <1>2 DEF TrueDecision
  <2>3. extractions # <<>>
    BY <1>2 DEF MarksInv
  <2> HIDE DEF r
  <2> QED BY <2>1, <2>2, <2>3
<1>3. ASSUME CheckReview(q) \/ CheckSubmit(q) \/ CheckApprove(q) PROVE \E r : Keeps(r)
  <2>1. CASE CheckReview(q)
    <3>1. PICK i \in Items, m \in Marks : Checked(q, "review", i, m)
      BY <2>1 DEF CheckReview
    <3>2. session.status # "NONE"
      BY <2>1 DEF CheckReview, OpenAndAssigned
    <3> QED BY <1>2, <3>1, <3>2
  <2>2. CASE CheckSubmit(q) \/ CheckApprove(q)
    <3>1. \E op \in {"submit", "approve"} : Checked(q, op, "all", 0)
      BY <2>2 DEF CheckSubmit, CheckApprove
    <3>2. session.status # "NONE"
      BY <2>2 DEF CheckSubmit, CheckApprove, OpenAndAssigned
    <3> QED BY <1>2, <3>1, <3>2
  <2> QED BY <1>3, <2>1, <2>2
<1>4. ASSUME LoadItem(q) \/ LoadItems(q) PROVE \E r : Keeps(r)
  <2> DEFINE old == request[q]
             r == [phase |-> "loaded", op |-> old.op, item |-> old.item, mark |-> old.mark,
                   base |-> old.base]
  <2>1. TrueDecision(old) /\ old.phase = "checked"
    BY <1>4 DEF MarksInv, LoadItem, LoadItems
  <2>2. r = [old EXCEPT !.phase = "loaded"]
    <3> HIDE DEF old
    <3> QED BY <2>1 DEF TrueDecision
  <2>3. request' = [request EXCEPT ![q] = r]
    <3>1. request' = [request EXCEPT ![q] = [old EXCEPT !.phase = "loaded"]]
      BY <1>4 DEF LoadItem, LoadItems
    <3> QED BY <2>2, <3>1
  <2>4. old.op = "review" \/ AllSelected
    BY <1>4 DEF LoadItem, LoadItems
  <2>5. extractions # <<>>
    BY <2>1 DEF MarksInv
  <2>6. TrueDecision(r)
    <3> HIDE DEF old
    <3> QED BY <2>1, <2>4 DEF TrueDecision
  <2> HIDE DEF r
  <2> QED BY <2>3, <2>5, <2>6
<1>5. ASSUME Abort(q) PROVE \E r : Keeps(r)
  <2>1. TrueDecision(NoRequest) /\ NoRequest.phase = "idle"
    BY DEF TrueDecision, NoRequest
  <2> QED BY <1>5, <2>1 DEF Abort
<1>6. PICK r : Keeps(r)
  BY <1>3, <1>4, <1>5
<1>7. /\ request' = [d \in Requests |-> request'[d]]
      /\ \A d \in Requests : request'[d] = IF d = q THEN r ELSE request[d]
  BY <1>6 DEF MarksInv
<1>8. \A d \in Requests : TrueDecision(request[d])'
  BY <1>1, <1>6, <1>7 DEF MarksInv, TrueDecision, AllSelected
<1>9. extractions = <<>> => \A d \in Requests : request'[d].phase = "idle"
  BY <1>6, <1>7 DEF MarksInv
<1> QED
  BY <1>1, <1>7, <1>8, <1>9 DEF MarksInv, MarksGrow, AllSelected

LEMMA CommitFreesRequest ==
  ASSUME MarksInv, NEW q \in Requests, NEW op, Committing(q, op),
         AllSelected => AllSelected'
  PROVE  /\ request' = [d \in Requests |-> request'[d]]
         /\ \A d \in Requests : TrueDecision(request[d])'
         /\ extractions # <<>>
<1>1. TrueDecision(NoRequest)' /\ NoRequest.phase = "idle"
  BY DEF TrueDecision, NoRequest
<1>2. /\ request' = [d \in Requests |-> request'[d]]
      /\ \A d \in Requests : request'[d] = IF d = q THEN NoRequest ELSE request[d]
  BY DEF MarksInv, Committing
<1>3. extractions # <<>>
  BY DEF MarksInv, Committing
<1>4. ASSUME NEW d \in Requests PROVE TrueDecision(request[d])'
  <2>1. TrueDecision(request[d])
    BY DEF MarksInv
  <2>2. CASE request'[d] = NoRequest
    BY <1>1, <2>2 DEF TrueDecision
  <2>3. CASE request'[d] = request[d]
    BY <2>1, <2>3 DEF TrueDecision
  <2> QED BY <1>2, <2>2, <2>3
<1> QED
  BY <1>2, <1>3, <1>4

LEMMA MarksAfterCommit ==
  ASSUME MarksInv, NEW q \in Requests, CommitReview(q) \/ CommitSubmit(q) \/ CommitApprove(q)
  PROVE  MarksInv' /\ MarksGrow
<1>1. CASE CommitReview(q)
  <2> DEFINE i == request[q].item
             id == Len(values[i]) + 1
             x == ReviewerValue(request[q].mark)
  <2>1. i \in Items
    BY <1>1 DEF CommitReview, Committing, MarksInv, TrueDecision
  <2>2. /\ values' = [values EXCEPT ![i] = Append(values[i], x)]
        /\ selected' = [selected EXCEPT ![i] = id]
        /\ session'.status = session.status /\ extractions' = extractions
        /\ Committing(q, "review")
    BY <1>1 DEF CommitReview, WithValue, Select, SessionBecomes
  <2>3. x.source = "REVIEWER"
    BY DEF ReviewerValue
  <2> HIDE DEF i, x
  <2>4. PICK S : values[i] \in Seq(S)
    BY <2>1 DEF MarksInv
  <2>5. /\ values' = [j \in Items |-> values'[j]]
        /\ \A j \in Items \ {i} : values'[j] = values[j]
        /\ Extended(values'[i], values[i], x)
    BY <2>1, <2>2 DEF MarksInv, Extended
  <2>6. /\ selected' = [j \in Items |-> selected'[j]]
        /\ \A j \in Items : selected'[j] = IF j = i THEN id ELSE selected[j]
    BY <2>1, <2>2 DEF MarksInv
  <2>7. /\ (\E T : values'[i] \in Seq(T)) /\ id # 0 /\ Reviewed(values'[i], id)
        /\ \A n : Reviewed(values[i], n) => Reviewed(values'[i], n)
    BY <2>3, <2>4, <2>5, HistoryAppended
  <2> HIDE DEF id
  <2>8. \A j \in Items : \A n : Reviewed(values[j], n) => Reviewed(values'[j], n)
    BY <2>5, <2>7
  <2>9. AllSelected => AllSelected'
    BY <2>6, <2>7 DEF AllSelected
  <2>10. \A j \in Items : \E T : values'[j] \in Seq(T)
    BY <2>5, <2>7 DEF MarksInv
  <2>11. \A j \in Items : selected'[j] # 0 => Reviewed(values'[j], selected'[j])
    BY <2>6, <2>7, <2>8 DEF MarksInv
  <2>12. /\ request' = [d \in Requests |-> request'[d]]
         /\ \A d \in Requests : TrueDecision(request[d])'
         /\ extractions # <<>>
    BY <2>2, <2>9, CommitFreesRequest
  <2> QED
    BY <2>2, <2>5, <2>6, <2>8, <2>9, <2>10, <2>11, <2>12 DEF MarksInv, MarksGrow
<1>2. CASE CommitSubmit(q) \/ CommitApprove(q)
  <2>1. \E op \in {"submit", "approve"} : Committing(q, op)
    BY <1>2 DEF CommitSubmit, CommitApprove
  <2>2. UNCHANGED <<values, selected, extractions>>
    BY <1>2 DEF CommitSubmit, CommitApprove
  <2>3. AllSelected /\ AllSelected'
    BY <2>1, <2>2 DEF Committing, MarksInv, TrueDecision, AllSelected
  <2>4. /\ request' = [d \in Requests |-> request'[d]]
        /\ \A d \in Requests : TrueDecision(request[d])'
        /\ extractions # <<>>
    BY <2>1, <2>3, CommitFreesRequest
  <2> QED BY <2>2, <2>3, <2>4 DEF MarksInv, MarksGrow
<1> QED
  BY <1>1, <1>2

LEMMA MarksNext ==
  MarksInv /\ [LifecycleNext]_lifecycleVars => MarksInv' /\ MarksGrow
<1> SUFFICES ASSUME MarksInv, [LifecycleNext]_lifecycleVars PROVE MarksInv' /\ MarksGrow
  OBVIOUS
<1>1. CASE UNCHANGED <<extractions, values, session, selected, request>>
  BY <1>1 DEF MarksInv, MarksGrow, AllSelected, TrueDecision
<1>2. CASE ExtractSheet
  BY <1>2, MarksAfterExtraction
<1>3. CASE ReviewSheet
  BY <1>3, MarksAfterReading, MarksAfterCommit DEF ReviewSheet, VerificationNext
<1>4. CASE CalculateSheet
  <2>1. UNCHANGED <<extractions, values, session, selected, request>>
    BY <1>4 DEF CalculateSheet, CalculationsNext, FindApprovedSession, ComputeResult,
       ReturnLatest, PrepareVersion, FindMismatch, ConfirmLatest, CommitCalculation,
       AbortCalculation
  <2> QED BY <1>1, <2>1
<1>5. CASE ExportSheet
  BY <1>1, <1>5 DEF ExportSheet, ExportsNext
<1> QED
  BY <1>1, <1>2, <1>3, <1>4, <1>5 DEF LifecycleNext

LEMMA MarksAtInit == LifecycleInit => MarksInv
<1> SUFFICES ASSUME LifecycleInit PROVE MarksInv
  OBVIOUS
<1>1. /\ values = [i \in Items |-> <<>>] /\ selected = [i \in Items |-> 0]
      /\ session.status = "NONE" /\ request = [q \in Requests |-> NoRequest]
  BY DEF LifecycleInit, DbInit, VerificationInit
<1>2. \A i \in Items : values[i] \in Seq({})
  BY <1>1
<1>3. TrueDecision(NoRequest) /\ NoRequest.phase = "idle"
  BY DEF TrueDecision, NoRequest
<1>4. \A q \in Requests : request[q] = NoRequest
  BY <1>1
<1>5. \A q \in Requests : TrueDecision(request[q]) /\ request[q].phase = "idle"
  BY <1>3, <1>4
<1>6. \A i \in Items : \E S : values[i] \in Seq(S)
  BY <1>2
<1> QED
  BY <1>1, <1>5, <1>6 DEF MarksInv

\* The result and the marks of a file, or of an export on its way to one.
OldResult(result) ==
  result.status = "READY_FOR_EXPORT" /\ \E k \in DOMAIN calcs : calcs[k] = result
AllReviewed(picks) == \A i \in Items : Reviewed(values[i], picks[i])

TrueFile(work, object) ==
  /\ work.phase \in {"result", "session", "rows", "stored"} =>
       OldResult(work.content.result)
  /\ work.phase \in {"session", "rows", "stored"} => extractions # <<>> /\ AllSelected
  /\ work.phase \in {"rows", "stored"} => AllReviewed(work.content.picks)
  /\ object # NoContent =>
       extractions # <<>> /\ OldResult(object.result) /\ AllReviewed(object.picks)

FilesInv == \A e \in Exporters : TrueFile(exportJob[e], objects[e])

LEMMA FilesAreReviewed == FilesInv => ExportedMarksAreReviewed
BY DEF FilesInv, TrueFile, OldResult, AllReviewed, Reviewed, ExportedMarksAreReviewed, Stored

LEMMA ResultsStay ==
  ASSUME LedgerInv, [LifecycleNext]_lifecycleVars, NEW result, OldResult(result)
  PROVE  OldResult(result)'
<1>1. CASE calcs' = calcs
  BY <1>1 DEF OldResult
<1>2. ASSUME NEW e, Appends(e) PROVE OldResult(result)'
  <2>1. Book(calcs) /\ Extended(calcs', calcs, e)
    BY <1>2 DEF LedgerInv, Appends, Extended
  <2>2. /\ Len(calcs) \in Nat /\ DOMAIN calcs = 1..Len(calcs)
        /\ DOMAIN calcs' = 1..(Len(calcs) + 1)
        /\ \A k \in 1..Len(calcs) : calcs'[k] = calcs[k]
    BY <2>1, BookLength, BookAppended
  <2> QED BY <2>2 DEF OldResult
<1> QED
  BY <1>1, <1>2, StepAppendsOrLeaves

\* A file that was true stays true: results and reviewed marks are only added.
LEMMA FileSurvives ==
  ASSUME LedgerInv, MarksInv, [LifecycleNext]_lifecycleVars, NEW work, NEW object,
         TrueFile(work, object)
  PROVE  TrueFile(work, object)'
<1>1. MarksGrow
  BY MarksNext
<1>2. \A result : OldResult(result) => OldResult(result)'
  BY ResultsStay
<1>3. extractions # <<>> => \A picks : AllReviewed(picks) => AllReviewed(picks)'
  BY <1>1 DEF MarksGrow, AllReviewed
<1>4. extractions # <<>> => extractions' # <<>> /\ (AllSelected => AllSelected')
  BY <1>1 DEF MarksGrow
<1>5. work.phase \in {"rows", "stored"} => work.phase \in {"session", "rows", "stored"}
  OBVIOUS
<1> QED
  BY <1>2, <1>3, <1>4, <1>5 DEF TrueFile

\* The reads of an export, one after the other, see rows that stay true.
LEMMA ExportReadsTruly ==
  ASSUME ExportInv, MarksInv, FilesInv, NEW e \in Exporters,
         \/ RequestExport(e) \/ ReadSheet(e) \/ ReadResult(e) \/ ReadSession(e)
         \/ ReadMarks(e) \/ StoreObject(e) \/ CompleteExport(e) \/ FailExport(e)
         \/ RecordFailure(e) \/ AbandonExport(e) \/ ExpireExport(e)
  PROVE  /\ \A d \in Exporters \ {e} : exportJob'[d] = exportJob[d] /\ objects'[d] = objects[d]
         /\ TrueFile(exportJob'[e], objects'[e])
<1> DEFINE old == exportJob[e]
           new == exportJob'[e]
<1>0. /\ TrueFile(old, objects[e])
      /\ old = [phase |-> old.phase, content |-> old.content]
      /\ old.content = [result |-> old.content.result, picks |-> old.content.picks]
      /\ exportJob = [d \in Exporters |-> exportJob[d]]
      /\ objects = [d \in Exporters |-> objects[d]]
  BY DEF FilesInv, ExportInv, TrueExportOf, TrueExport
<1>1. \A d \in Exporters \ {e} : exportJob'[d] = exportJob[d] /\ objects'[d] = objects[d]
  BY <1>0 DEF RequestExport, ReadSheet, ReadResult, ReadSession, ReadMarks, StoreObject,
     CompleteExport, FailExport, RecordFailure, AbandonExport, ExpireExport, ExportTo
<1>2. ASSUME \/ RequestExport(e) \/ ReadSheet(e) \/ CompleteExport(e) \/ FailExport(e)
             \/ RecordFailure(e) \/ AbandonExport(e)
      PROVE  TrueFile(new, objects'[e])
  <2>1. new.phase \in {"requested", "sheet", "failing", "over"} /\ objects'[e] = objects[e]
    BY <1>0, <1>2 DEF RequestExport, ReadSheet, CompleteExport, FailExport, RecordFailure,
       AbandonExport, ExportTo
  <2> HIDE DEF old, new
  <2> QED BY <1>0, <2>1 DEF TrueFile
<1>3. ASSUME ReadResult(e) PROVE TrueFile(new, objects'[e])
  <2>1. /\ new.phase = "result" /\ new.content.result = Latest
        /\ objects'[e] = objects[e]
    BY <1>0, <1>3 DEF ReadResult
  <2>2. OldResult(Latest)
    <3>1. calcs # <<>> /\ Latest.status = "READY_FOR_EXPORT"
      BY <1>3 DEF ReadResult, ResultIsReady
    <3> QED BY <3>1 DEF OldResult, Latest, LatestVersion
  <2> HIDE DEF old, new
  <2> QED BY <1>0, <2>1, <2>2 DEF TrueFile
<1>4. ASSUME ReadSession(e) PROVE TrueFile(new, objects'[e])
  <2>1. /\ old.phase = "result" /\ new.phase = "session" /\ new.content = old.content
        /\ objects'[e] = objects[e]
    BY <1>0, <1>4 DEF ReadSession, ExportTo
  <2>2. extractions # <<>> /\ AllSelected
    BY <1>4 DEF ReadSession, MarksInv
  <2> HIDE DEF old, new
  <2> QED BY <1>0, <2>1, <2>2 DEF TrueFile
<1>5. ASSUME ReadMarks(e) PROVE TrueFile(new, objects'[e])
  <2>1. /\ old.phase = "session" /\ new.phase = "rows"
        /\ new.content.result = old.content.result /\ new.content.picks = selected
        /\ objects'[e] = objects[e]
    BY <1>0, <1>5 DEF ReadMarks, SelectedValues
  <2> HIDE DEF old, new
  <2>2. AllReviewed(selected)
    BY <1>0, <2>1 DEF TrueFile, MarksInv, AllSelected, AllReviewed
  <2> QED BY <1>0, <2>1, <2>2 DEF TrueFile
<1>6. ASSUME StoreObject(e) PROVE TrueFile(new, objects'[e])
  <2>1. /\ old.phase = "rows" /\ new.phase = "stored" /\ new.content = old.content
        /\ objects'[e] = old.content
    BY <1>0, <1>6 DEF StoreObject, ExportTo
  <2> HIDE DEF old, new
  <2> QED BY <1>0, <2>1 DEF TrueFile
<1>7. ASSUME ExpireExport(e) PROVE TrueFile(new, objects'[e])
  BY <1>0, <1>7 DEF ExpireExport
<1> QED
  BY <1>1, <1>2, <1>3, <1>4, <1>5, <1>6, <1>7

LEMMA FilesNext ==
  LedgerInv /\ MarksInv /\ ExportInv /\ FilesInv /\ [LifecycleNext]_lifecycleVars
    => FilesInv'
<1> SUFFICES ASSUME LedgerInv, MarksInv, ExportInv, FilesInv, [LifecycleNext]_lifecycleVars
             PROVE  FilesInv'
  OBVIOUS
<1>1. \A e \in Exporters : TrueFile(exportJob'[e], objects'[e])
  <2>1. CASE UNCHANGED <<exportJob, objects>>
    BY <2>1 DEF FilesInv
  <2>2. CASE ExportSheet
    <3>1. PICK e \in Exporters :
            \/ RequestExport(e) \/ ReadSheet(e) \/ ReadResult(e) \/ ReadSession(e)
            \/ ReadMarks(e) \/ StoreObject(e) \/ CompleteExport(e) \/ FailExport(e)
            \/ RecordFailure(e) \/ AbandonExport(e) \/ ExpireExport(e)
      BY <2>2 DEF ExportSheet, ExportsNext
    <3>2. /\ \A d \in Exporters \ {e} :
               exportJob'[d] = exportJob[d] /\ objects'[d] = objects[d]
          /\ TrueFile(exportJob'[e], objects'[e])
      BY <3>1, ExportReadsTruly
    <3> QED BY <3>2 DEF FilesInv
  <2> QED
    BY <2>1, <2>2 DEF LifecycleNext, ExtractSheet, ReviewSheet, CalculateSheet
<1>2. ASSUME NEW e \in Exporters PROVE TrueFile(exportJob[e], objects[e])'
  <2> DEFINE work == exportJob'[e]
             object == objects'[e]
  <2>1. TrueFile(work, object)
    BY <1>1
  <2> HIDE DEF work, object
  <2>2. \A w, o : TrueFile(w, o) =>
          /\ w.phase \in {"result", "session", "rows", "stored"} =>
               OldResult(w.content.result)'
          /\ w.phase \in {"session", "rows", "stored"} => extractions' # <<>> /\ AllSelected'
          /\ w.phase \in {"rows", "stored"} => AllReviewed(w.content.picks)'
          /\ o # NoContent =>
               extractions' # <<>> /\ OldResult(o.result)' /\ AllReviewed(o.picks)'
    BY FileSurvives DEF TrueFile
  <2> QED BY <2>1, <2>2 DEF TrueFile, work, object
<1> QED
  BY <1>2 DEF FilesInv

LEMMA FilesAtInit == LifecycleInit => FilesInv
<1> SUFFICES ASSUME LifecycleInit, NEW e \in Exporters PROVE TrueFile(exportJob[e], objects[e])
  BY DEF FilesInv
<1>1. exportJob[e].phase = "idle" /\ objects[e] = NoContent
  BY DEF LifecycleInit, ExportsInit
<1> QED BY <1>1 DEF TrueFile

\* Whatever is reviewed, approved or calculated while an export reads table
\* after table, a generated file shows reviewed marks and a ready result.
THEOREM ExportsShowReviewedMarks == LifecycleSpec => []ExportedMarksAreReviewed
<1>1. LifecycleInit => LedgerInv /\ MarksInv /\ ExportInv /\ FilesInv
  BY LedgerAtInit, MarksAtInit, ExportAtInit, FilesAtInit
<1>2. LedgerInv /\ MarksInv /\ ExportInv /\ FilesInv /\ [LifecycleNext]_lifecycleVars
        => (LedgerInv /\ MarksInv /\ ExportInv /\ FilesInv)'
  BY LedgerInductive, MarksNext, ExportInductive, FilesNext
<1> QED BY <1>1, <1>2, FilesAreReviewed, PTL DEF LifecycleSpec

----------------------------------------------------------------------------
(* What a calculation adds up: marks that a reviewer gave.                  *)

\* A row that a reviewer wrote for an item, within the item's maximum.
Graded(i, row) ==
  row = ReviewerValue(row.value) /\ row.value \in Nat /\ row.value <= MaxMark[i]

GradesInv ==
  /\ \A q \in Requests : request[q].phase # "idle" /\ request[q].op = "review" =>
       /\ request[q].mark \in Nat
       /\ request[q].phase = "loaded" => request[q].mark <= MaxMark[request[q].item]
  /\ \A i \in Items : selected[i] # 0 => Graded(i, values[i][selected[i]])

\* Rows of a history stay where they are.
RowsStay ==
  extractions # <<>> =>
    \A i \in Items : \A id \in DOMAIN values[i] :
      id \in DOMAIN values'[i] /\ values'[i][id] = values[i][id]

LEMMA GradesAtInit == LifecycleInit => GradesInv
BY DEF LifecycleInit, DbInit, VerificationInit, NoRequest, GradesInv

LEMMA GradesAfterExtraction ==
  ASSUME MarksInv, GradesInv, ExtractSheet PROVE GradesInv' /\ RowsStay
<1>1. CASE UNCHANGED <<extractions, values, session, selected, request>>
  BY <1>1 DEF GradesInv, RowsStay
<1>2. CASE /\ UNCHANGED request /\ extractions = <<>>
           /\ selected' = [i \in Items |-> 0]
  BY <1>2 DEF GradesInv, RowsStay
<1> QED
  BY <1>1, <1>2, ExtractionStartsReview

LEMMA GradesAfterReading ==
  ASSUME MarksInv, GradesInv, NEW q \in Requests,
         \/ CheckReview(q) \/ CheckSubmit(q) \/ CheckApprove(q)
         \/ LoadItem(q) \/ LoadItems(q) \/ Abort(q)
  PROVE  GradesInv' /\ RowsStay
<1> DEFINE Fine(r) == r.phase # "idle" /\ r.op = "review" =>
             /\ r.mark \in Nat
             /\ r.phase = "loaded" => r.mark <= MaxMark[r.item]
<1>1. UNCHANGED tables
  BY DEF CheckReview, CheckSubmit, CheckApprove, Checked, LoadItem, LoadItems, Abort
<1>2. ASSUME NEW op, NEW item, NEW mark, Checked(q, op, item, mark),
             op = "review" => mark \in Nat
      PROVE  \E r : request' = [request EXCEPT ![q] = r] /\ Fine(r)
  <2> DEFINE r == [phase |-> "checked", op |-> op, item |-> item, mark |-> mark,
                   base |-> session.lockVersion]
  <2>1. request' = [request EXCEPT ![q] = r]
    BY <1>2 DEF Checked
  <2>2. Fine(r)
    BY <1>2
  <2> HIDE DEF r, Fine
  <2> QED BY <2>1, <2>2
<1>3. ASSUME CheckReview(q)
      PROVE  \E r : request' = [request EXCEPT ![q] = r] /\ Fine(r)
  <2>1. PICK i \in Items, m \in Marks : Checked(q, "review", i, m)
    BY <1>3 DEF CheckReview
  <2>2. m \in Nat
    BY MarksAssumption
  <2> QED BY <1>2, <2>1, <2>2
<1>4. ASSUME CheckSubmit(q) \/ CheckApprove(q)
      PROVE  \E r : request' = [request EXCEPT ![q] = r] /\ Fine(r)
  <2>1. \E op \in {"submit", "approve"} : Checked(q, op, "all", 0)
    BY <1>4 DEF CheckSubmit, CheckApprove
  <2> QED BY <1>2, <2>1
<1>5. ASSUME LoadItem(q) \/ LoadItems(q)
      PROVE  \E r : request' = [request EXCEPT ![q] = r] /\ Fine(r)
  <2> DEFINE old == request[q]
             r == [phase |-> "loaded", op |-> old.op, item |-> old.item, mark |-> old.mark,
                   base |-> old.base]
  <2>1. TrueDecision(old) /\ old.phase = "checked" /\ Fine(old)
    BY <1>5 DEF MarksInv, GradesInv, LoadItem, LoadItems
  <2>2. old.op # "review" \/ old.mark <= MaxMark[old.item]
    BY <1>5 DEF LoadItem, LoadItems
  <2>3. request' = [request EXCEPT ![q] = [old EXCEPT !.phase = "loaded"]]
    BY <1>5 DEF LoadItem, LoadItems
  <2> HIDE DEF old
  <2>4. r = [old EXCEPT !.phase = "loaded"]
    BY <2>1 DEF TrueDecision
  <2>5. Fine(r)
    BY <2>1, <2>2
  <2> QED BY <2>3, <2>4, <2>5
<1>6. ASSUME Abort(q)
      PROVE  \E r : request' = [request EXCEPT ![q] = r] /\ Fine(r)
  <2>1. Fine(NoRequest)
    BY DEF NoRequest
  <2> QED BY <1>6, <2>1 DEF Abort
<1>7. PICK r : request' = [request EXCEPT ![q] = r] /\ Fine(r)
  BY <1>3, <1>4, <1>5, <1>6
<1>8. \A d \in Requests : request'[d] = IF d = q THEN r ELSE request[d]
  BY <1>7 DEF MarksInv
<1>9. \A d \in Requests : Fine(request'[d])
  BY <1>7, <1>8 DEF GradesInv
<1> QED
  BY <1>1, <1>9 DEF GradesInv, RowsStay

LEMMA GradesAfterCommit ==
  ASSUME MarksInv, GradesInv, NEW q \in Requests,
         CommitReview(q) \/ CommitSubmit(q) \/ CommitApprove(q)
  PROVE  GradesInv' /\ RowsStay
<1>1. request' = [request EXCEPT ![q] = NoRequest] /\ request[q].phase = "loaded"
  BY DEF CommitReview, CommitSubmit, CommitApprove, Committing
<1>2. \A d \in Requests : request'[d] = IF d = q THEN NoRequest ELSE request[d]
  BY <1>1 DEF MarksInv
<1>3. NoRequest.phase = "idle"
  BY DEF NoRequest
<1>4. \A d \in Requests : request'[d].phase # "idle" /\ request'[d].op = "review" =>
        /\ request'[d].mark \in Nat
        /\ request'[d].phase = "loaded" => request'[d].mark <= MaxMark[request'[d].item]
  BY <1>2, <1>3 DEF GradesInv
<1>5. CASE CommitSubmit(q) \/ CommitApprove(q)
  <2>1. UNCHANGED <<values, selected, extractions>>
    BY <1>5 DEF CommitSubmit, CommitApprove
  <2> QED BY <1>4, <2>1 DEF GradesInv, RowsStay
<1>6. CASE CommitReview(q)
  <2> DEFINE i == request[q].item
             mark == request[q].mark
             id == Len(values[i]) + 1
             x == ReviewerValue(mark)
  <2>1. i \in Items /\ request[q].op = "review" /\ mark \in Nat /\ mark <= MaxMark[i]
    BY <1>1, <1>6 DEF CommitReview, Committing, MarksInv, TrueDecision, GradesInv
  <2>2. /\ values' = [values EXCEPT ![i] = Append(values[i], x)]
        /\ selected' = [selected EXCEPT ![i] = id]
    BY <1>6 DEF CommitReview, WithValue, Select
  <2>3. Graded(i, x)
    BY <2>1 DEF Graded, ReviewerValue
  <2> HIDE DEF i, x, mark
  <2>4. PICK S : values[i] \in Seq(S)
    BY <2>1 DEF MarksInv
  <2>5. /\ \A j \in Items \ {i} : values'[j] = values[j]
        /\ Extended(values'[i], values[i], x)
        /\ \A j \in Items : selected'[j] = IF j = i THEN id ELSE selected[j]
    BY <2>1, <2>2 DEF MarksInv, Extended
  <2>6. /\ values'[i][id] = x
        /\ \A n \in DOMAIN values[i] : n \in DOMAIN values'[i] /\ values'[i][n] = values[i][n]
    BY <2>4, <2>5, RowAdded
  <2> HIDE DEF id
  <2>7. RowsStay
    BY <2>5, <2>6 DEF RowsStay
  <2>8. \A j \in Items : selected'[j] # 0 => Graded(j, values'[j][selected'[j]])
    BY <2>3, <2>5, <2>6 DEF GradesInv
  <2> QED BY <1>4, <2>7, <2>8 DEF GradesInv
<1> QED
  BY <1>5, <1>6

LEMMA GradesNext ==
  MarksInv /\ GradesInv /\ [LifecycleNext]_lifecycleVars => GradesInv' /\ RowsStay
<1> SUFFICES ASSUME MarksInv, GradesInv, [LifecycleNext]_lifecycleVars
             PROVE  GradesInv' /\ RowsStay
  OBVIOUS
<1>1. CASE UNCHANGED <<extractions, values, selected, request>>
  BY <1>1 DEF GradesInv, RowsStay
<1>2. CASE ExtractSheet
  BY <1>2, GradesAfterExtraction
<1>3. CASE ReviewSheet
  BY <1>3, GradesAfterReading, GradesAfterCommit DEF ReviewSheet, VerificationNext
<1>4. CASE CalculateSheet
  <2>1. UNCHANGED <<extractions, values, selected, request>>
    BY <1>4 DEF CalculateSheet, CalculationsNext, FindApprovedSession, ComputeResult,
       ReturnLatest, PrepareVersion, FindMismatch, ConfirmLatest, CommitCalculation,
       AbortCalculation
  <2> QED BY <1>1, <2>1
<1>5. CASE ExportSheet
  BY <1>1, <1>5 DEF ExportSheet, ExportsNext
<1> QED
  BY <1>1, <1>2, <1>3, <1>4, <1>5 DEF LifecycleNext

\* A result that adds up a reviewed mark for every item.
Gathered(input, history) ==
  input.id \in DOMAIN history /\ history[input.id] = [value |-> input.value, source |-> "REVIEWER"]
ReviewedResult(result) ==
  /\ result.status \in {"READY_FOR_EXPORT", "TOTAL_MISMATCH"}
  /\ \A i \in Items : /\ Gathered(result.digest[i], values[i])
                       /\ result.digest[i].value <= MaxMark[i]
  /\ result.total = GrandTotal([i \in Items |-> result.digest[i].value])
  /\ result.total <= GrandTotal(MaxMark)

TrueCalculation(work) ==
  /\ work.phase = "found" /\ work.op = "calculate" => extractions # <<>> /\ AllSelected
  /\ work.phase \in {"computed", "write"} \/ (work.phase = "found" /\ work.op = "resolve") =>
       extractions # <<>> /\ ReviewedResult(work.result)

ResultsInv ==
  /\ \A c \in Calculators : TrueCalculation(job[c])
  /\ \A k \in DOMAIN calcs : extractions # <<>> /\ ReviewedResult(calcs[k])

LEMMA ReviewedResults == ResultsInv => ResultsAreReviewed
BY DEF ResultsInv, ReviewedResult, Gathered, ResultsAreReviewed

\* The grand total is a sum.
LEMMA GrandTotalIsTotal ==
  ASSUME NEW marks
  PROVE  GrandTotal(marks) = Total(marks, DOMAIN marks)
BY DEF GrandTotal, FoldFunction, FoldFunctionOnSet, MapThenFoldSet, Total, Sums, SumStep,
   Choice

LEMMA GrandTotals ==
  ASSUME NEW marks, IsFiniteSet(DOMAIN marks), \A i \in DOMAIN marks : marks[i] \in Nat
  PROVE  GrandTotal(marks) \in Nat
<1>1. Naturally(marks, DOMAIN marks)
  BY DEF Naturally
<1> QED
  BY <1>1, GrandTotalIsTotal, TotalIsNatural

LEMMA GrandTotalsGrow ==
  ASSUME NEW marks, NEW maxima, IsFiniteSet(DOMAIN marks), DOMAIN maxima = DOMAIN marks,
         \A i \in DOMAIN marks : /\ marks[i] \in Nat /\ maxima[i] \in Nat
                                /\ marks[i] <= maxima[i]
  PROVE  GrandTotal(marks) <= GrandTotal(maxima)
<1>1. Naturally(marks, DOMAIN marks) /\ Naturally(maxima, DOMAIN marks)
  BY DEF Naturally
<1> QED
  BY <1>1, GrandTotalIsTotal, TotalsGrow

\* The selected marks, added up, are never incomplete or invalid.
LEMMA ComputedIsReviewed ==
  ASSUME MarksInv, GradesInv, AllSelected
  PROVE  ReviewedResult(ComputedResult)
<1> DEFINE marks == [i \in Items |-> values[i][selected[i]].value]
<1>1. \A i \in Items : /\ selected[i] \in DOMAIN values[i]
                       /\ Graded(i, values[i][selected[i]])
  BY DEF MarksInv, GradesInv, AllSelected, Reviewed
<1>2. {n \in Items : selected[n] # 0} = Items
  BY DEF AllSelected
<1>3. SelectedMarks = marks
  BY <1>2 DEF SelectedMarks
<1>4. InputDigest = [i \in Items |-> [id |-> selected[i], value |-> values[i][selected[i]].value]]
  BY DEF InputDigest, AllSelected
<1>5. \A i \in Items : InputDigest[i].id = selected[i] /\ InputDigest[i].value = marks[i]
  BY <1>4
<1>6. [i \in Items |-> InputDigest[i].value] = marks
  BY <1>5
<1>7. \A i \in Items : /\ Gathered(InputDigest[i], values[i])
                       /\ InputDigest[i].value <= MaxMark[i]
  BY <1>1, <1>5 DEF Gathered, Graded, ReviewerValue
<1>8. DOMAIN marks = Items /\ \A i \in Items : marks[i] \in Nat /\ marks[i] <= MaxMark[i]
  BY <1>1 DEF Graded
<1> HIDE DEF marks
<1>9. ~InvalidMarks(marks, MaxMark, PaperMaximum)
  BY <1>8, PaperMaximumAssumption, MaxMarkAssumption DEF InvalidMarks
<1>10. ~IncompleteMarks(marks, Required)
  BY <1>8, RequiredAssumption DEF IncompleteMarks
<1>11. ResultStatus(marks, MaxMark, PaperMaximum, Required, handwritten)
         \in {"READY_FOR_EXPORT", "TOTAL_MISMATCH"}
  BY <1>9, <1>10 DEF ResultStatus
<1>12. /\ ComputedResult.total = GrandTotal(marks) /\ ComputedResult.digest = InputDigest
       /\ ComputedResult.status =
            ResultStatus(marks, MaxMark, PaperMaximum, Required, handwritten)
  BY <1>3, EntryFields DEF ComputedResult
<1>13. GrandTotal(marks) <= GrandTotal(MaxMark)
  BY <1>8, ItemsAssumption, MaxMarkAssumption, GrandTotalsGrow
<1> QED
  BY <1>6, <1>7, <1>11, <1>12, <1>13 DEF ReviewedResult

\* Another version or an accepted mismatch adds up the same marks.
LEMMA RenumberedIsReviewed ==
  ASSUME NEW result, ReviewedResult(result), NEW version,
         NEW resultStatus \in {"READY_FOR_EXPORT", "TOTAL_MISMATCH"}
  PROVE  ReviewedResult(Entry(version, result.total, result.digest, resultStatus))
BY EntryFields DEF ReviewedResult

LEMMA ResultStaysReviewed ==
  ASSUME MarksInv, GradesInv, [LifecycleNext]_lifecycleVars, extractions # <<>>,
         NEW result, ReviewedResult(result)
  PROVE  ReviewedResult(result)'
BY GradesNext DEF RowsStay, ReviewedResult, Gathered

\* What the requests remember and the ledger holds after a step, as of before it.
LEMMA CalculationsReadTruly ==
  ASSUME MarksInv, GradesInv, ResultsInv, LedgerInv, NEW c \in Calculators,
         \/ FindApprovedSession(c) \/ ComputeResult(c) \/ ReturnLatest(c)
         \/ PrepareVersion(c) \/ FindMismatch(c) \/ ConfirmLatest(c)
         \/ AbortCalculation(c)
  PROVE  \E t : TrueCalculation(t) /\ job' = [job EXCEPT ![c] = t]
<1>1. TrueCalculation(job[c])
  BY DEF ResultsInv
<1>2. TrueCalculation(NoJob)
  BY WorkFields DEF TrueCalculation, NoJob
<1>3. CASE FindApprovedSession(c)
  <2>1. extractions # <<>> /\ AllSelected
    BY <1>3 DEF FindApprovedSession, MarksInv
  <2>2. TrueCalculation(Doing("found", "calculate", Pending))
    BY <2>1, WorkFields DEF TrueCalculation
  <2> QED BY <1>3, <2>2 DEF FindApprovedSession
<1>4. CASE ComputeResult(c)
  <2>1. extractions # <<>> /\ AllSelected
    BY <1>1, <1>4 DEF ComputeResult, TrueCalculation
  <2>2. ReviewedResult(ComputedResult)
    BY <2>1, ComputedIsReviewed
  <2>3. TrueCalculation(Doing("computed", "calculate", ComputedResult))
    BY <2>1, <2>2, WorkFields DEF TrueCalculation
  <2> QED BY <1>4, <2>3 DEF ComputeResult
<1>5. CASE ReturnLatest(c) \/ AbortCalculation(c)
  BY <1>2, <1>5 DEF ReturnLatest, AbortCalculation
<1>6. CASE PrepareVersion(c)
  <2> DEFINE r == job[c].result
             e == Entry(LatestVersion + 1, r.total, r.digest, r.status)
  <2>1. extractions # <<>> /\ ReviewedResult(r)
    BY <1>1, <1>6 DEF PrepareVersion, TrueCalculation
  <2>2. job' = [job EXCEPT ![c] = Doing("write", "calculate", e)]
    BY <1>6 DEF PrepareVersion
  <2> HIDE DEF r
  <2>3. ReviewedResult(e)
    BY <2>1, RenumberedIsReviewed DEF ReviewedResult
  <2> HIDE DEF e
  <2>4. TrueCalculation(Doing("write", "calculate", e))
    BY <2>1, <2>3, WorkFields DEF TrueCalculation
  <2> QED BY <2>2, <2>4
<1>7. CASE FindMismatch(c)
  <2>1. PICK k \in DOMAIN calcs :
          job' = [job EXCEPT ![c] = Doing("found", "resolve", calcs[k])]
    BY <1>7 DEF FindMismatch
  <2>2. TrueCalculation(Doing("found", "resolve", calcs[k]))
    BY <2>1, WorkFields DEF TrueCalculation, ResultsInv
  <2> QED BY <2>1, <2>2
<1>8. CASE ConfirmLatest(c)
  <2> DEFINE r == job[c].result
             e == Entry(r.version + 1, r.total, r.digest, "READY_FOR_EXPORT")
  <2>1. extractions # <<>> /\ ReviewedResult(r)
    BY <1>1, <1>8 DEF ConfirmLatest, TrueCalculation
  <2>2. job' = [job EXCEPT ![c] = Doing("write", "resolve", e)]
    BY <1>8 DEF ConfirmLatest
  <2> HIDE DEF r
  <2>3. ReviewedResult(e)
    BY <2>1, RenumberedIsReviewed
  <2> HIDE DEF e
  <2>4. TrueCalculation(Doing("write", "resolve", e))
    BY <2>1, <2>3, WorkFields DEF TrueCalculation
  <2> QED BY <2>2, <2>4
<1> QED
  BY <1>3, <1>4, <1>5, <1>6, <1>7, <1>8

LEMMA ResultsNext ==
  LedgerInv /\ MarksInv /\ GradesInv /\ ResultsInv /\ [LifecycleNext]_lifecycleVars
    => ResultsInv'
<1> SUFFICES ASSUME LedgerInv, MarksInv, GradesInv, ResultsInv,
                    [LifecycleNext]_lifecycleVars
             PROVE  ResultsInv'
  OBVIOUS
<1>1. /\ \A result : ReviewedResult(result) /\ extractions # <<>> => ReviewedResult(result)'
      /\ extractions # <<>> => extractions' # <<>> /\ (AllSelected => AllSelected')
  BY ResultStaysReviewed, MarksNext DEF MarksGrow
<1>2. \A t : TrueCalculation(t) =>
        /\ t.phase = "found" /\ t.op = "calculate" => extractions' # <<>> /\ AllSelected'
        /\ t.phase \in {"computed", "write"} \/ (t.phase = "found" /\ t.op = "resolve") =>
             extractions' # <<>> /\ ReviewedResult(t.result)'
  BY <1>1 DEF TrueCalculation
<1>3. /\ \A c \in Calculators : TrueCalculation(job'[c])
      /\ \/ calcs' = calcs
         \/ \E e : Appends(e) /\ extractions # <<>> /\ ReviewedResult(e)
  <2>1. CASE UNCHANGED <<calcs, job>>
    BY <2>1 DEF ResultsInv
  <2>2. ASSUME CalculateSheet
        PROVE  /\ \A c \in Calculators : TrueCalculation(job'[c])
               /\ \/ calcs' = calcs
                  \/ \E e : Appends(e) /\ extractions # <<>> /\ ReviewedResult(e)
    <3>1. PICK c \in Calculators :
            \/ \/ FindApprovedSession(c) \/ ComputeResult(c) \/ ReturnLatest(c)
               \/ PrepareVersion(c) \/ FindMismatch(c) \/ ConfirmLatest(c)
               \/ AbortCalculation(c)
            \/ CommitCalculation(c)
      BY <2>2 DEF CalculateSheet, CalculationsNext
    <3>2. TrueCalculation(NoJob)
      BY WorkFields DEF TrueCalculation, NoJob
    <3>3. \E t : TrueCalculation(t) /\ job' = [job EXCEPT ![c] = t]
      BY <3>1, <3>2, CalculationsReadTruly, CommitAppends
    <3>4. \A d \in Calculators : TrueCalculation(job'[d])
      BY <3>3, WorkMoves DEF ResultsInv
    <3>5. ASSUME CommitCalculation(c)
          PROVE  \E e : Appends(e) /\ extractions # <<>> /\ ReviewedResult(e)
      <4>1. job[c].phase = "write" /\ Appends(job[c].result)
        BY <3>5, CommitAppends DEF CommitCalculation
      <4>2. extractions # <<>> /\ ReviewedResult(job[c].result)
        BY <4>1 DEF ResultsInv, TrueCalculation
      <4> QED BY <4>1, <4>2
    <3>6. CommitCalculation(c) \/ calcs' = calcs
      BY <3>1, ReadsMove
    <3> QED BY <3>4, <3>5, <3>6
  <2> QED
    BY <2>1, <2>2, ExtractionLeavesResults, ReviewLeavesResults, ExportLeavesResults
       DEF LifecycleNext
<1>4. \A c \in Calculators : TrueCalculation(job[c])'
  <2>1. ASSUME NEW c \in Calculators PROVE TrueCalculation(job[c])'
    <3> DEFINE t == job'[c]
    <3>1. TrueCalculation(t)
      BY <1>3
    <3> HIDE DEF t
    <3> QED BY <1>2, <3>1 DEF TrueCalculation, t
  <2> QED BY <2>1
<1>5. \A k \in DOMAIN calcs' : \A r : r = calcs'[k] =>
        extractions' # <<>> /\ ReviewedResult(r)'
  <2>1. CASE calcs' = calcs
    BY <1>1, <2>1 DEF ResultsInv
  <2>2. ASSUME NEW e, Appends(e), extractions # <<>>, ReviewedResult(e)
        PROVE  \A k \in DOMAIN calcs' : \A r : r = calcs'[k] =>
                 extractions' # <<>> /\ ReviewedResult(r)'
    <3>1. Book(calcs) /\ Extended(calcs', calcs, e)
      BY <2>2 DEF LedgerInv, Appends, Extended
    <3>2. /\ Len(calcs) \in Nat /\ DOMAIN calcs = 1..Len(calcs)
          /\ DOMAIN calcs' = 1..(Len(calcs) + 1)
          /\ \A k \in 1..Len(calcs) : calcs'[k] = calcs[k]
          /\ calcs'[Len(calcs) + 1] = e
      BY <3>1, BookLength, BookAppended
    <3>3. ASSUME NEW k \in DOMAIN calcs' PROVE ReviewedResult(calcs'[k])
      BY <2>2, <3>2 DEF ResultsInv
    <3> QED BY <1>1, <2>2, <3>3
  <2> QED BY <1>3, <2>1, <2>2
<1>6. \A k \in DOMAIN calcs' : extractions' # <<>> /\ ReviewedResult(calcs[k])'
  BY <1>5 DEF ReviewedResult
<1> QED
  BY <1>4, <1>6 DEF ResultsInv

LEMMA ResultsAtInit == LifecycleInit => ResultsInv
<1> SUFFICES ASSUME LifecycleInit PROVE ResultsInv
  OBVIOUS
<1>1. calcs = <<>> /\ job = [c \in Calculators |-> NoJob]
  BY DEF LifecycleInit, DbInit, CalculationsInit
<1>2. DOMAIN calcs = {} /\ \A c \in Calculators : job[c] = NoJob
  BY <1>1
<1>3. TrueCalculation(NoJob)
  BY WorkFields DEF TrueCalculation, NoJob
<1> QED BY <1>2, <1>3 DEF ResultsInv

\* Whenever a calculation read its inputs, it adds up one reviewed mark for
\* every item, is neither incomplete nor invalid, and stays within the sum of
\* the items' maxima.
THEOREM ResultsAddUpReviewedMarks == LifecycleSpec => []ResultsAreReviewed
<1>1. LifecycleInit => LedgerInv /\ MarksInv /\ GradesInv /\ ResultsInv
  BY LedgerAtInit, MarksAtInit, GradesAtInit, ResultsAtInit
<1>2. LedgerInv /\ MarksInv /\ GradesInv /\ ResultsInv /\ [LifecycleNext]_lifecycleVars
        => (LedgerInv /\ MarksInv /\ GradesInv /\ ResultsInv)'
  BY LedgerInductive, MarksNext, GradesNext, ResultsNext
<1> QED BY <1>1, <1>2, ReviewedResults, PTL DEF LifecycleSpec

----------------------------------------------------------------------------
(* The audit log as a history: what an approval rules out for the future.   *)

Approved == \E a \in DOMAIN audit : audit[a].action = "VERIFICATION_APPROVED"
MarkDecisions == {"MARK_VERIFIED", "MARK_CORRECTED"}
SessionDecisions == {"VERIFICATION_SUBMITTED", "VERIFICATION_APPROVED"}

\* The step adds to the audit log nothing, or one row about an action.
Silent == audit' = audit
Tells(action) == \E row : row.action = action /\ Extended(audit', audit, row)
TellsNone(actions) == Silent \/ \E action : action \notin actions /\ Tells(action)

LogInv == \E S : audit \in Seq(S)

LEMMA LogAppended ==
  ASSUME LogInv, NEW row, Extended(audit', audit, row)
  PROVE  /\ LogInv'
         /\ Len(audit) \in Nat /\ DOMAIN audit = 1..Len(audit)
         /\ DOMAIN audit' = 1..(Len(audit) + 1)
         /\ \A k \in 1..Len(audit) : audit'[k] = audit[k]
         /\ audit'[Len(audit) + 1] = row
<1>1. PICK S : audit \in Seq(S)
  BY DEF LogInv
<1>2. audit \in Seq(S \cup {row})
  <2>1. Len(audit) \in Nat /\ audit = [k \in 1..Len(audit) |-> audit[k]]
        /\ \A k \in 1..Len(audit) : audit[k] \in S \cup {row}
    BY <1>1, LenProperties, ElementOfSeq
  <2> QED BY <2>1, IsASeq
<1>3. /\ audit' \in Seq(S \cup {row}) /\ Len(audit') = Len(audit) + 1
      /\ \A k \in 1..Len(audit) : audit'[k] = audit[k]
      /\ audit'[Len(audit) + 1] = row
  BY <1>2, AppendProperties DEF Extended
<1>4. /\ Len(audit) \in Nat /\ DOMAIN audit = 1..Len(audit)
      /\ DOMAIN audit' = 1..(Len(audit) + 1)
  BY <1>2, <1>3, LenProperties
<1> QED
  BY <1>3, <1>4 DEF LogInv

\* Nothing that the log tells is taken back, and a decision that is told
\* after an approval is told late.
LEMMA HistoryGrows ==
  ASSUME LogInv, NEW row, Extended(audit', audit, row)
  PROVE  /\ LogInv'
         /\ Approved => Approved'
         /\ LateDecision => LateDecision'
         /\ LateReviewStep => LateReviewStep'
         /\ row.action = "VERIFICATION_APPROVED" => Approved'
         /\ Approved' => Approved \/ row.action = "VERIFICATION_APPROVED"
         /\ Approved /\ row.action \in MarkDecisions => LateDecision'
         /\ Approved /\ row.action \in SessionDecisions => LateReviewStep'
<1>1. /\ LogInv'
      /\ Len(audit) \in Nat /\ DOMAIN audit = 1..Len(audit)
      /\ DOMAIN audit' = 1..(Len(audit) + 1)
      /\ \A k \in 1..Len(audit) : audit'[k] = audit[k]
      /\ audit'[Len(audit) + 1] = row
  BY LogAppended
<1>2. /\ \A k \in DOMAIN audit : k \in DOMAIN audit' /\ audit'[k] = audit[k]
                                 /\ k < Len(audit) + 1
      /\ Len(audit) + 1 \in DOMAIN audit'
      /\ \A k \in DOMAIN audit' : k \in DOMAIN audit \/ k = Len(audit) + 1
  BY <1>1
<1>3. Approved => Approved'
  BY <1>2 DEF Approved
<1>4. row.action = "VERIFICATION_APPROVED" => Approved'
  BY <1>1, <1>2 DEF Approved
<1>5. Approved' => Approved \/ row.action = "VERIFICATION_APPROVED"
  BY <1>1, <1>2 DEF Approved
<1>6. LateDecision => LateDecision'
  BY <1>2 DEF LateDecision
<1>7. LateReviewStep => LateReviewStep'
  BY <1>2 DEF LateReviewStep
<1>8. Approved /\ row.action \in MarkDecisions => LateDecision'
  BY <1>1, <1>2 DEF LateDecision, Approved, MarkDecisions
<1>9. Approved /\ row.action \in SessionDecisions => LateReviewStep'
  BY <1>1, <1>2 DEF LateReviewStep, Approved, SessionDecisions
<1> QED
  BY <1>1, <1>3, <1>4, <1>5, <1>6, <1>7, <1>8, <1>9

\* The same of a step, whatever it tells.
LEMMA StepTells ==
  ASSUME LogInv, NEW action, Tells(action)
  PROVE  /\ LogInv'
         /\ Approved => Approved'
         /\ LateDecision => LateDecision'
         /\ LateReviewStep => LateReviewStep'
         /\ action = "VERIFICATION_APPROVED" => Approved'
         /\ Approved' => Approved \/ action = "VERIFICATION_APPROVED"
         /\ Approved /\ action \in MarkDecisions => LateDecision'
         /\ Approved /\ action \in SessionDecisions => LateReviewStep'
BY HistoryGrows DEF Tells

LEMMA StepSilent ==
  ASSUME LogInv, Silent
  PROVE  /\ LogInv' /\ Approved' = Approved
         /\ LateDecision' = LateDecision /\ LateReviewStep' = LateReviewStep
BY DEF LogInv, Silent, Approved, LateDecision, LateReviewStep

LEMMA AuditedTells ==
  ASSUME NEW action, NEW entity, NEW new, Audited(action, entity, new)
  PROVE  Tells(action)
<1> DEFINE row == [action |-> action, entity |-> entity, new |-> new]
<1>1. row.action = action
  OBVIOUS
<1>2. Extended(audit', audit, row)
  BY DEF Audited, Extended
<1> QED
  BY <1>1, <1>2 DEF Tells

----------------------------------------------------------------------------
(* What a step of each component does to the rows that tell the story.      *)

\* Extraction writes the rows of a sheet, or leaves them and at most puts the
\* sheet back in the queue.
Queues ==
  /\ UNCHANGED <<extractions, session, selected>>
  /\ status' \in {status, "UPLOADED", "PROCESSING"}
  /\ TellsNone(SessionDecisions)
Fills == /\ extractions = <<>> /\ status' = "REVIEW_REQUIRED"
         /\ session'.status = "OPEN" /\ TellsNone(SessionDecisions)

LEMMA ExtractionTells == ExtractSheet => Queues \/ Fills
<1> SUFFICES ASSUME ExtractSheet PROVE Queues \/ Fills
  OBVIOUS
<1>1. PICK r \in Runs : \/ BeginCompletion(r) \/ BeginManualIngest(r)
                        \/ CompletionStep(r) \/ IngestStep(r) \/ FailureStep(r)
  BY DEF ExtractSheet, ExtractionNext
<1>2. \A action : Tells(action) /\ action \notin SessionDecisions
        => TellsNone(SessionDecisions)
  BY DEF TellsNone
<1>3. Silent => TellsNone(SessionDecisions)
  BY DEF TellsNone
<1>4. CASE UNCHANGED tables
  BY <1>3, <1>4 DEF Queues, Silent
<1>5. CASE FinishUpload(r)
  <2>1. Tells("UPLOAD_COMPLETED")
    BY <1>5, AuditedTells DEF FinishUpload
  <2>2. TellsNone(SessionDecisions)
    BY <1>2, <2>1 DEF SessionDecisions
  <2> QED BY <1>5, <2>2 DEF FinishUpload, Queues
<1>6. CASE ClaimSheet(r) \/ ResetSheet(r)
  BY <1>3, <1>6 DEF ClaimSheet, ResetSheet, Queues, Silent
<1>7. CASE StoreExtraction(r)
  <2>1. Tells("AI_EXTRACTION_INGESTED")
    BY <1>7, AuditedTells DEF StoreExtraction
  <2>2. TellsNone(SessionDecisions)
    BY <1>2, <2>1 DEF SessionDecisions
  <2>3. extractions = <<>> /\ status' = "REVIEW_REQUIRED" /\ session'.status = "OPEN"
    BY <1>7 DEF StoreExtraction, RowsAreNew
  <2> QED BY <2>2, <2>3 DEF Fills
<1>8. CASE AuditFallback(r)
  <2>1. Tells("AI_EXTRACTION_FALLBACK_CREATED")
    BY <1>8, AuditedTells DEF AuditFallback
  <2>2. TellsNone(SessionDecisions)
    BY <1>2, <2>1 DEF SessionDecisions
  <2> QED BY <1>8, <2>2 DEF AuditFallback, Queues
<1>9. \/ UNCHANGED tables
      \/ FinishUpload(r) \/ ClaimSheet(r) \/ ResetSheet(r)
      \/ StoreExtraction(r) \/ AuditFallback(r)
  BY <1>1 DEF BeginCompletion, BeginManualIngest, CompletionStep, FindPendingFile,
     RefuseCompletion, LoadSheet, SkipSheet, FindModel, LoseModelRace, AiAnswers, AiFails,
     IngestStep, CheckIngest, RejectIngest, FailureStep, TransactionFails, ResetFails,
     Crash, Fault
<1> QED
  BY <1>4, <1>5, <1>6, <1>7, <1>8, <1>9

\* A decision selects a mark and says so, or moves the session and says so.
Decides ==
  /\ UNCHANGED <<extractions, status>> /\ session'.status = session.status
  /\ \E action \in MarkDecisions : Tells(action)
Submits ==
  /\ UNCHANGED <<extractions, status, selected>> /\ session'.status = "SUBMITTED"
  /\ Tells("VERIFICATION_SUBMITTED")
Approves ==
  /\ \E q \in Requests : request[q].phase = "loaded"
  /\ UNCHANGED <<extractions, selected>>
  /\ status' = "VERIFIED" /\ session'.status = "APPROVED"
  /\ Tells("VERIFICATION_APPROVED")
Looks == UNCHANGED <<extractions, status, session, selected, audit>>

LEMMA ReviewTells == ReviewSheet => Decides \/ Submits \/ Approves \/ Looks
<1> SUFFICES ASSUME NEW q \in Requests,
                    \/ CheckReview(q) \/ CheckSubmit(q) \/ CheckApprove(q)
                    \/ LoadItem(q) \/ LoadItems(q) \/ Abort(q)
                    \/ CommitReview(q) \/ CommitSubmit(q) \/ CommitApprove(q)
             PROVE  Decides \/ Submits \/ Approves \/ Looks
  BY DEF ReviewSheet, VerificationNext
<1>1. CASE \/ CheckReview(q) \/ CheckSubmit(q) \/ CheckApprove(q)
           \/ LoadItem(q) \/ LoadItems(q) \/ Abort(q)
  BY <1>1 DEF Looks, CheckReview, CheckSubmit, CheckApprove, Checked, LoadItem, LoadItems,
     Abort
<1>2. CASE CommitReview(q)
  <2>1. \E action \in MarkDecisions : \E entity, new : Audited(action, entity, new)
    BY <1>2 DEF CommitReview, MarkDecisions
  <2>2. \E action \in MarkDecisions : Tells(action)
    BY <2>1, AuditedTells
  <2> QED BY <1>2, <2>2 DEF CommitReview, SessionBecomes, Decides
<1>3. CASE CommitSubmit(q)
  BY <1>3, AuditedTells DEF CommitSubmit, SessionBecomes, Submits
<1>4. CASE CommitApprove(q)
  BY <1>4, AuditedTells DEF CommitApprove, Committing, SessionBecomes, Approves
<1> QED
  BY <1>1, <1>2, <1>3, <1>4

\* A commit of a calculation is told; what else it does, the ledger's lemmas say.
LEMMA CalculationTells ==
  CalculateSheet =>
    UNCHANGED <<extractions, session, selected>> /\ TellsNone(SessionDecisions)
<1> SUFFICES ASSUME NEW c \in Calculators,
                    \/ \/ FindApprovedSession(c) \/ ComputeResult(c) \/ ReturnLatest(c)
                       \/ PrepareVersion(c) \/ FindMismatch(c) \/ ConfirmLatest(c)
                       \/ AbortCalculation(c)
                    \/ CommitCalculation(c)
             PROVE  UNCHANGED <<extractions, session, selected>>
                    /\ TellsNone(SessionDecisions)
  BY DEF CalculateSheet, CalculationsNext
<1>1. CASE CommitCalculation(c)
  <2>1. \E action \in {"TOTAL_MISMATCH_RESOLVED", "CALCULATION_CREATED"} : \E entity, new :
          Audited(action, entity, new)
    BY <1>1 DEF CommitCalculation
  <2>2. TellsNone(SessionDecisions)
    BY <2>1, AuditedTells DEF TellsNone, SessionDecisions
  <2> QED BY <1>1, <2>2 DEF CommitCalculation
<1>2. CASE \/ FindApprovedSession(c) \/ ComputeResult(c) \/ ReturnLatest(c)
           \/ PrepareVersion(c) \/ FindMismatch(c) \/ ConfirmLatest(c)
           \/ AbortCalculation(c)
  BY <1>2 DEF FindApprovedSession, ComputeResult, ReturnLatest, PrepareVersion,
     FindMismatch, ConfirmLatest, AbortCalculation, TellsNone, Silent
<1> QED
  BY <1>1, <1>2

----------------------------------------------------------------------------
(* One story about a sheet: its approval, its newest result, its status.    *)

StoryInv ==
  /\ LogInv
  /\ status \in SheetStatuses
  /\ Approved => extractions # <<>> /\ (LateReviewStep \/ session.status = "APPROVED")
  /\ session.status = "APPROVED" => Approved
  /\ \A c \in Calculators : job[c].phase # "idle" => Approved
  /\ calcs # <<>> => Approved
  /\ calcs # <<>> => LateReviewStep \/ Requeued \/ status = SheetStatus(Latest.status)

LEMMA StoryAfterExtraction ==
  ASSUME MarksInv, StoryInv, ExtractSheet PROVE StoryInv'
<1>1. UNCHANGED <<calcs, job>>
  BY ExtractionLeavesResults
<1>2. ASSUME TellsNone(SessionDecisions)
      PROVE  /\ LogInv' /\ (Approved <=> Approved')
             /\ LateReviewStep => LateReviewStep'
  BY <1>2, StepTells, StepSilent DEF StoryInv, TellsNone, SessionDecisions
<1>3. CASE Queues
  <2>1. /\ UNCHANGED <<extractions, session>>
        /\ status' \in {status, "UPLOADED", "PROCESSING"}
        /\ LogInv' /\ (Approved <=> Approved')
        /\ LateReviewStep => LateReviewStep'
    BY <1>2, <1>3 DEF Queues
  <2>2. calcs # <<>> => extractions # <<>>
    BY DEF StoryInv
  <2>3. Latest' = Latest
    BY <1>1 DEF Latest, LatestVersion
  <2>4. calcs # <<>> => (LateReviewStep \/ Requeued \/ status = SheetStatus(Latest.status))'
    BY <1>1, <2>1, <2>2, <2>3 DEF StoryInv, Requeued, SheetStatus
  <2>5. status' \in SheetStatuses
    BY <2>1 DEF StoryInv, SheetStatuses
  <2> QED BY <1>1, <2>1, <2>4, <2>5 DEF StoryInv
<1>4. CASE Fills
  <2>1. ~Approved /\ ~Approved' /\ LogInv'
    BY <1>2, <1>4 DEF Fills, StoryInv
  <2>2. /\ calcs' = <<>> /\ \A c \in Calculators : job'[c].phase = "idle"
        /\ session'.status = "OPEN" /\ status' = "REVIEW_REQUIRED"
    BY <1>1, <1>4, <2>1 DEF Fills, StoryInv
  <2> QED BY <2>1, <2>2 DEF StoryInv, SheetStatuses
<1> QED
  BY <1>3, <1>4, ExtractionTells

LEMMA StoryAfterReview ==
  ASSUME MarksInv, StoryInv, ReviewSheet PROVE StoryInv'
<1>1. UNCHANGED <<calcs, job>>
  BY ReviewLeavesResults
<1>2. Latest' = Latest
  BY <1>1 DEF Latest, LatestVersion
<1>3. CASE Decides
  <2>1. PICK action \in MarkDecisions : Tells(action)
    BY <1>3 DEF Decides
  <2>2. LogInv' /\ (Approved <=> Approved') /\ (LateReviewStep => LateReviewStep')
    BY <2>1, StepTells DEF StoryInv, MarkDecisions
  <2> QED
    BY <1>1, <1>2, <1>3, <2>2 DEF Decides, StoryInv, Requeued, SheetStatus
<1>4. CASE Submits
  <2>1. /\ LogInv' /\ (Approved <=> Approved') /\ (LateReviewStep => LateReviewStep')
        /\ Approved => LateReviewStep'
    BY <1>4, StepTells DEF Submits, StoryInv, SessionDecisions
  <2> QED
    BY <1>1, <1>4, <2>1 DEF Submits, StoryInv
<1>5. CASE Approves
  <2>1. LogInv' /\ Approved' /\ (Approved => LateReviewStep')
    BY <1>5, StepTells DEF Approves, StoryInv, SessionDecisions
  <2>2. extractions # <<>>
    BY <1>5 DEF MarksInv, Approves
  <2> QED
    BY <1>1, <1>5, <2>1, <2>2 DEF Approves, StoryInv, SheetStatuses
<1>6. CASE Looks
  <2>1. /\ LogInv' /\ Approved' = Approved /\ LateReviewStep' = LateReviewStep
    BY <1>6, StepSilent DEF Looks, Silent, StoryInv
  <2> QED
    BY <1>1, <1>2, <1>6, <2>1 DEF Looks, StoryInv, Requeued, SheetStatus
<1> QED
  BY <1>3, <1>4, <1>5, <1>6, ReviewTells

LEMMA StoryAfterCalculation ==
  ASSUME LedgerInv, MarksInv, StoryInv, CalculateSheet PROVE StoryInv'
<1>1. UNCHANGED <<extractions, session, selected>>
  BY CalculationTells
<1>2. LogInv' /\ (Approved <=> Approved') /\ (LateReviewStep => LateReviewStep')
  BY CalculationTells, StepTells, StepSilent DEF StoryInv, TellsNone, SessionDecisions
<1>3. PICK c \in Calculators :
        \/ \/ FindApprovedSession(c) \/ ComputeResult(c) \/ ReturnLatest(c)
           \/ PrepareVersion(c) \/ FindMismatch(c) \/ ConfirmLatest(c)
           \/ AbortCalculation(c)
        \/ CommitCalculation(c)
  BY DEF CalculateSheet, CalculationsNext
<1>4. Approved
  <2>1. \/ job[c].phase # "idle" \/ session.status = "APPROVED"
        \/ \E k \in DOMAIN calcs : TRUE
    BY <1>3 DEF FindApprovedSession, ComputeResult, ReturnLatest, PrepareVersion,
       FindMismatch, ConfirmLatest, AbortCalculation, CommitCalculation
  <2>2. (\E k \in DOMAIN calcs : TRUE) => calcs # <<>>
    OBVIOUS
  <2> QED BY <2>1, <2>2 DEF StoryInv
<1>5. CASE CommitCalculation(c)
  <2>1. Appends(job[c].result)
    BY <1>5, CommitAppends
  <2>2. calcs' # <<>> /\ calcs'[Len(calcs')] = job[c].result
    BY <2>1, AppendedLast
  <2>3. status' = SheetStatus(Latest'.status)
    BY <2>1, <2>2 DEF Appends, Latest, LatestVersion
  <2>4. status' \in SheetStatuses
    BY <2>3 DEF SheetStatus, SheetStatuses
  <2> QED
    BY <1>1, <1>2, <1>4, <2>3, <2>4 DEF StoryInv, SheetStatus
<1>6. CASE UNCHANGED <<calcs, status>>
  <2>1. Latest' = Latest
    BY <1>6 DEF Latest, LatestVersion
  <2> QED
    BY <1>1, <1>2, <1>4, <1>6, <2>1 DEF StoryInv, Requeued, SheetStatus
<1> QED
  BY <1>3, <1>5, <1>6, ReadsMove

LEMMA StoryNext ==
  LedgerInv /\ MarksInv /\ StoryInv /\ [LifecycleNext]_lifecycleVars => StoryInv'
<1> SUFFICES ASSUME LedgerInv, MarksInv, StoryInv, [LifecycleNext]_lifecycleVars
             PROVE  StoryInv'
  OBVIOUS
<1>1. CASE UNCHANGED <<tables, job>>
  <2>1. LogInv' /\ Approved' = Approved /\ LateReviewStep' = LateReviewStep
    BY <1>1, StepSilent DEF Silent, StoryInv
  <2>2. Latest' = Latest
    BY <1>1 DEF Latest, LatestVersion
  <2> QED BY <1>1, <2>1, <2>2 DEF StoryInv, Requeued, SheetStatus
<1> QED
  BY <1>1, StoryAfterExtraction, StoryAfterReview, StoryAfterCalculation
     DEF LifecycleNext, ExportSheet, ExportsNext

LEMMA StoryAtInit == LifecycleInit => StoryInv
<1> SUFFICES ASSUME LifecycleInit PROVE StoryInv
  OBVIOUS
<1>1. /\ audit = <<>> /\ calcs = <<>> /\ status = "PENDING_UPLOAD"
      /\ session.status = "NONE" /\ job = [c \in Calculators |-> NoJob]
  BY DEF LifecycleInit, DbInit, CalculationsInit
<1>2. audit \in Seq({}) /\ DOMAIN audit = {}
  BY <1>1
<1>3. \A c \in Calculators : job[c].phase = "idle"
  BY <1>1, WorkFields DEF NoJob
<1> QED
  BY <1>1, <1>2, <1>3 DEF StoryInv, LogInv, Approved, SheetStatuses

LEMMA StoriesAgree == LedgerInv /\ MarksInv /\ StoryInv => ReportsAgree
<1> SUFFICES ASSUME LedgerInv, MarksInv, StoryInv, ~LateReviewStep PROVE ReportsAgree
  BY DEF ReportsAgree
<1>1. status # "READY_FOR_EXPORT"
  BY DEF StoryInv, SheetStatuses
<1>2. calcs # <<>> => session.status = "APPROVED" /\ AllSelected
  BY DEF StoryInv, MarksInv
<1>3. status = "COMPLETED" => calcs # <<>> /\ Latest.status = "READY_FOR_EXPORT"
  BY DEF LedgerInv, CompletedSheetIsReady
<1>4. calcs # <<>> /\ ~Requeued => status = SheetStatus(Latest.status)
  BY DEF StoryInv
<1>5. StudentLine.total # NoMark => StudentLine.marks = Items
  BY <1>2 DEF StudentLine, Shown, AllSelected
<1>6. "processed" \in Cards => StudentLine.status = "READY_FOR_EXPORT"
  BY <1>3 DEF Cards, StudentLine
<1>7. ClassLine.status = "READY_FOR_EXPORT" /\ ~Requeued =>
        Exportable /\ ClassLine.marks = Items /\ "processed" \in Cards
  BY <1>1, <1>2, <1>4 DEF ClassLine, Exportable, Cards, SheetStatus, AllSelected
<1>8. "totalMismatch" \in Cards /\ ~Requeued =>
        "reviewRequired" \in Cards /\ ~("verified" \in Cards)
  BY <1>4 DEF Cards, SheetStatus
<1> QED
  BY <1>5, <1>6, <1>7, <1>8 DEF ReportsAgree

\* The lines of the reports, the cards of the summary and the gate of the
\* export, written apart, never contradict each other about a sheet, unless a
\* submission, an approval or a completion was committed late.
THEOREM ReportsTellOneStory == LifecycleSpec => []ReportsAgree
<1>1. LifecycleInit => LedgerInv /\ MarksInv /\ StoryInv
  BY LedgerAtInit, MarksAtInit, StoryAtInit
<1>2. LedgerInv /\ MarksInv /\ StoryInv /\ [LifecycleNext]_lifecycleVars
        => (LedgerInv /\ MarksInv /\ StoryInv)'
  BY LedgerInductive, MarksNext, StoryNext
<1> QED BY <1>1, <1>2, StoriesAgree, PTL DEF LifecycleSpec

----------------------------------------------------------------------------
(* A file's marks are the ones its total was computed from.                 *)

Explains(digest) == \A i \in Items : digest[i].id = selected[i]
Shows(picks) == \A i \in Items : picks[i] = selected[i]

ExplainedWork(work) ==
  work.phase \in {"computed", "write"} \/ (work.phase = "found" /\ work.op = "resolve")
    => Explains(work.result.digest)
ExplainedFile(work, object) ==
  /\ work.phase \in {"rows", "stored"} => Shows(work.content.picks)
  /\ object # NoContent => Shows(object.picks)

\* While no decision is late, whatever was computed, recorded, read or
\* exported was so of the marks that are selected now.
ExplainedInv ==
  \/ LateDecision
  \/ /\ \A c \in Calculators : ExplainedWork(job[c])
     /\ \A k \in DOMAIN calcs : Explains(calcs[k].digest)
     /\ \A e \in Exporters : ExplainedFile(exportJob[e], objects[e])

LEMMA ExplainedTotals == FilesInv /\ ExplainedInv => ExportedTotalIsExplained
BY DEF FilesInv, TrueFile, OldResult, ExplainedInv, ExplainedFile, Explains, Shows,
   ExportedTotalIsExplained, Stored

\* The selection moves before the approval, or late.
LEMMA SelectionSettles ==
  ASSUME MarksInv, StoryInv, [LifecycleNext]_lifecycleVars
  PROVE  /\ LateDecision => LateDecision'
         /\ selected' = selected \/ LateDecision' \/ ~Approved'
<1>1. CASE ExtractSheet
  <2>1. \/ UNCHANGED selected /\ TellsNone(SessionDecisions)
        \/ ~Approved /\ TellsNone(SessionDecisions)
    BY <1>1, ExtractionTells DEF Queues, Fills, StoryInv
  <2>2. TellsNone(SessionDecisions) =>
          (LateDecision => LateDecision') /\ (~Approved => ~Approved')
    BY StepTells, StepSilent DEF TellsNone, StoryInv, SessionDecisions
  <2> QED BY <2>1, <2>2
<1>2. CASE ReviewSheet
  <2>1. CASE Decides
    <3>1. PICK action \in MarkDecisions : Tells(action)
      BY <2>1 DEF Decides
    <3>2. /\ LateDecision => LateDecision'
          /\ Approved => LateDecision'
          /\ Approved' => Approved
      BY <3>1, StepTells DEF StoryInv, MarkDecisions
    <3> QED BY <3>2
  <2>2. CASE Submits \/ Approves
    <3>1. UNCHANGED selected /\ \E action : Tells(action)
      BY <2>2 DEF Submits, Approves
    <3> QED BY <3>1, StepTells DEF StoryInv
  <2>3. CASE Looks
    BY <2>3, StepSilent DEF Looks, Silent, StoryInv
  <2> QED BY <1>2, <2>1, <2>2, <2>3, ReviewTells
<1>3. CASE CalculateSheet
  BY <1>3, CalculationTells, StepTells, StepSilent DEF TellsNone, StoryInv
<1>4. CASE UNCHANGED tables
  BY <1>4, StepSilent DEF Silent, StoryInv
<1> QED
  BY <1>1, <1>2, <1>3, <1>4 DEF LifecycleNext, ExportSheet, ExportsNext

\* A calculation reads the selection, or repeats what was read from it.
LEMMA CalculationsExplain ==
  ASSUME LedgerInv, NEW c \in Calculators,
         ExplainedWork(job[c]), \A k \in DOMAIN calcs : Explains(calcs[k].digest),
         \/ FindApprovedSession(c) \/ ComputeResult(c) \/ ReturnLatest(c)
         \/ PrepareVersion(c) \/ FindMismatch(c) \/ ConfirmLatest(c)
         \/ AbortCalculation(c)
  PROVE  \E t : ExplainedWork(t) /\ job' = [job EXCEPT ![c] = t]
<1>1. CASE FindApprovedSession(c)
  <2>1. ExplainedWork(Doing("found", "calculate", Pending))
    BY WorkFields DEF ExplainedWork
  <2> QED BY <1>1, <2>1 DEF FindApprovedSession
<1>2. CASE ComputeResult(c)
  <2>1. ComputedResult.digest = InputDigest
    BY EntryFields DEF ComputedResult
  <2>2. Explains(ComputedResult.digest)
    BY <2>1 DEF Explains, InputDigest
  <2>3. ExplainedWork(Doing("computed", "calculate", ComputedResult))
    BY <2>2, WorkFields DEF ExplainedWork
  <2> QED BY <1>2, <2>3 DEF ComputeResult
<1>3. CASE ReturnLatest(c) \/ AbortCalculation(c)
  <2>1. ExplainedWork(NoJob)
    BY WorkFields DEF ExplainedWork, NoJob
  <2> QED BY <1>3, <2>1 DEF ReturnLatest, AbortCalculation
<1>4. CASE PrepareVersion(c)
  <2> DEFINE r == job[c].result
             e == Entry(LatestVersion + 1, r.total, r.digest, r.status)
  <2>1. Explains(r.digest)
    BY <1>4 DEF PrepareVersion, ExplainedWork
  <2>2. job' = [job EXCEPT ![c] = Doing("write", "calculate", e)]
    BY <1>4 DEF PrepareVersion
  <2>3. e.digest = r.digest
    BY EntryFields
  <2> HIDE DEF r, e
  <2>4. ExplainedWork(Doing("write", "calculate", e))
    BY <2>1, <2>3, WorkFields DEF ExplainedWork
  <2> QED BY <2>2, <2>4
<1>5. CASE FindMismatch(c)
  <2>1. PICK k \in DOMAIN calcs :
          job' = [job EXCEPT ![c] = Doing("found", "resolve", calcs[k])]
    BY <1>5 DEF FindMismatch
  <2>2. ExplainedWork(Doing("found", "resolve", calcs[k]))
    BY WorkFields DEF ExplainedWork
  <2> QED BY <2>1, <2>2
<1>6. CASE ConfirmLatest(c)
  <2> DEFINE r == job[c].result
             e == Entry(r.version + 1, r.total, r.digest, "READY_FOR_EXPORT")
  <2>1. Explains(r.digest)
    BY <1>6 DEF ConfirmLatest, ExplainedWork
  <2>2. job' = [job EXCEPT ![c] = Doing("write", "resolve", e)]
    BY <1>6 DEF ConfirmLatest
  <2>3. e.digest = r.digest
    BY EntryFields
  <2> HIDE DEF r, e
  <2>4. ExplainedWork(Doing("write", "resolve", e))
    BY <2>1, <2>3, WorkFields DEF ExplainedWork
  <2> QED BY <2>2, <2>4
<1> QED
  BY <1>1, <1>2, <1>3, <1>4, <1>5, <1>6

\* A commit records what its request computed.
LEMMA LedgerExplains ==
  ASSUME LedgerInv, CalculateSheet, \A c \in Calculators : ExplainedWork(job[c]),
         \A k \in DOMAIN calcs : Explains(calcs[k].digest)
  PROVE  /\ \A c \in Calculators : ExplainedWork(job'[c])
         /\ \A k \in DOMAIN calcs' : Explains(calcs'[k].digest)
<1>1. PICK c \in Calculators :
        \/ \/ FindApprovedSession(c) \/ ComputeResult(c) \/ ReturnLatest(c)
           \/ PrepareVersion(c) \/ FindMismatch(c) \/ ConfirmLatest(c)
           \/ AbortCalculation(c)
        \/ CommitCalculation(c)
  BY DEF CalculateSheet, CalculationsNext
<1>2. ExplainedWork(NoJob)
  BY WorkFields DEF ExplainedWork, NoJob
<1>3. \E t : ExplainedWork(t) /\ job' = [job EXCEPT ![c] = t]
  BY <1>1, <1>2, CalculationsExplain, CommitAppends
<1>4. \A d \in Calculators : ExplainedWork(job'[d])
  BY <1>3, WorkMoves
<1>5. ASSUME CommitCalculation(c)
      PROVE  \A k \in DOMAIN calcs' : Explains(calcs'[k].digest)
  <2>1. job[c].phase = "write" /\ Appends(job[c].result)
    BY <1>5, CommitAppends DEF CommitCalculation
  <2>2. Explains(job[c].result.digest)
    BY <2>1 DEF ExplainedWork
  <2>3. Book(calcs) /\ Extended(calcs', calcs, job[c].result)
    BY <2>1 DEF LedgerInv, Appends, Extended
  <2>4. /\ Len(calcs) \in Nat /\ DOMAIN calcs = 1..Len(calcs)
        /\ DOMAIN calcs' = 1..(Len(calcs) + 1)
        /\ \A k \in 1..Len(calcs) : calcs'[k] = calcs[k]
        /\ calcs'[Len(calcs) + 1] = job[c].result
    BY <2>3, BookLength, BookAppended
  <2> QED BY <2>2, <2>4
<1>6. CommitCalculation(c) \/ calcs' = calcs
  BY <1>1, ReadsMove
<1> QED
  BY <1>4, <1>5, <1>6

\* An export reads the selection, and files what it read.
LEMMA ExportsExplain ==
  ASSUME ExportInv, ExportSheet,
         \A e \in Exporters : ExplainedFile(exportJob[e], objects[e])
  PROVE  \A e \in Exporters : ExplainedFile(exportJob'[e], objects'[e])
<1>1. PICK e \in Exporters :
        \/ RequestExport(e) \/ ReadSheet(e) \/ ReadResult(e) \/ ReadSession(e)
        \/ ReadMarks(e) \/ StoreObject(e) \/ CompleteExport(e) \/ FailExport(e)
        \/ RecordFailure(e) \/ AbandonExport(e) \/ ExpireExport(e)
  BY DEF ExportSheet, ExportsNext
<1> DEFINE old == exportJob[e]
           new == exportJob'[e]
<1>2. /\ ExplainedFile(old, objects[e])
      /\ old = [phase |-> old.phase, content |-> old.content]
      /\ old.content = [result |-> old.content.result, picks |-> old.content.picks]
      /\ exportJob = [d \in Exporters |-> exportJob[d]]
      /\ objects = [d \in Exporters |-> objects[d]]
  BY DEF ExportInv, TrueExportOf, TrueExport
<1>3. \A d \in Exporters \ {e} : exportJob'[d] = exportJob[d] /\ objects'[d] = objects[d]
  BY <1>1, <1>2 DEF RequestExport, ReadSheet, ReadResult, ReadSession, ReadMarks,
     StoreObject, CompleteExport, FailExport, RecordFailure, AbandonExport, ExpireExport,
     ExportTo
<1>4. CASE \/ RequestExport(e) \/ ReadSheet(e) \/ ReadSession(e) \/ CompleteExport(e)
           \/ FailExport(e) \/ RecordFailure(e) \/ AbandonExport(e)
  <2>1. new.phase \notin {"rows", "stored"} /\ objects'[e] = objects[e]
    BY <1>2, <1>4 DEF RequestExport, ReadSheet, ReadSession, CompleteExport, FailExport,
       RecordFailure, AbandonExport, ExportTo
  <2> HIDE DEF old, new
  <2> QED BY <1>2, <1>3, <2>1 DEF ExplainedFile, new
<1>5. CASE ReadResult(e)
  <2>1. new.phase = "result" /\ objects'[e] = objects[e]
    BY <1>2, <1>5 DEF ReadResult
  <2> QED BY <1>2, <1>3, <2>1 DEF ExplainedFile
<1>6. CASE ReadMarks(e)
  <2>1. new.content.picks = selected /\ objects'[e] = objects[e]
    BY <1>2, <1>6 DEF ReadMarks, SelectedValues
  <2> QED BY <1>2, <1>3, <2>1 DEF ExplainedFile, Shows
<1>7. CASE StoreObject(e)
  <2>1. /\ old.phase = "rows" /\ new.content = old.content
        /\ objects'[e] = old.content
    BY <1>2, <1>7 DEF StoreObject, ExportTo
  <2> HIDE DEF old, new
  <2> QED BY <1>2, <1>3, <2>1 DEF ExplainedFile, new
<1>8. CASE ExpireExport(e)
  BY <1>3, <1>8 DEF ExpireExport
<1> QED
  BY <1>1, <1>4, <1>5, <1>6, <1>7, <1>8

LEMMA ExplainedNext ==
  LedgerInv /\ MarksInv /\ ExportInv /\ FilesInv /\ StoryInv /\ ExplainedInv
    /\ [LifecycleNext]_lifecycleVars => ExplainedInv'
<1> SUFFICES ASSUME LedgerInv, MarksInv, ExportInv, FilesInv, StoryInv, ExplainedInv,
                    [LifecycleNext]_lifecycleVars
             PROVE  ExplainedInv'
  OBVIOUS
<1>1. CASE LateDecision'
  BY <1>1 DEF ExplainedInv
<1>2. CASE ~Approved'
  <2>1. LedgerInv' /\ StoryInv' /\ FilesInv'
    BY LedgerInductive, StoryNext, FilesNext
  <2>2. /\ \A c \in Calculators : job'[c].phase = "idle"
        /\ DOMAIN calcs' = {}
        /\ \A e \in Exporters : /\ exportJob'[e].phase \notin {"rows", "stored"}
                                /\ objects'[e] = NoContent
    <3>1. /\ calcs' = <<>> /\ \A c \in Calculators : job'[c].phase = "idle"
      BY <1>2, <2>1 DEF StoryInv
    <3>2. DOMAIN calcs' = {}
      BY <3>1
    <3>3. \A result : ~OldResult(result)'
      BY <3>2 DEF OldResult
    <3> QED BY <2>1, <3>1, <3>2, <3>3 DEF FilesInv, TrueFile
  <2> QED BY <2>2 DEF ExplainedInv, ExplainedWork, ExplainedFile
<1>3. CASE selected' = selected /\ ~LateDecision'
  <2>1. /\ \A c \in Calculators : ExplainedWork(job[c])
        /\ \A k \in DOMAIN calcs : Explains(calcs[k].digest)
        /\ \A e \in Exporters : ExplainedFile(exportJob[e], objects[e])
    BY <1>3, SelectionSettles DEF ExplainedInv
  <2>2. /\ \A c \in Calculators : ExplainedWork(job'[c])
        /\ \A k \in DOMAIN calcs' : Explains(calcs'[k].digest)
    BY <2>1, LedgerExplains, ExtractionLeavesResults, ReviewLeavesResults,
       ExportLeavesResults DEF LifecycleNext
  <2>3. \A e \in Exporters : ExplainedFile(exportJob'[e], objects'[e])
    BY <2>1, ExportsExplain DEF LifecycleNext, ExtractSheet, ReviewSheet, CalculateSheet
  <2>4. \A c \in Calculators : ExplainedWork(job[c])'
    BY <1>3, <2>2 DEF ExplainedWork, Explains
  <2>5. \A k \in DOMAIN calcs' : Explains(calcs[k].digest)'
    BY <1>3, <2>2 DEF Explains
  <2>6. \A e \in Exporters : ExplainedFile(exportJob[e], objects[e])'
    BY <1>3, <2>3 DEF ExplainedFile, Shows
  <2> QED BY <2>4, <2>5, <2>6 DEF ExplainedInv
<1> QED
  BY <1>1, <1>2, <1>3, SelectionSettles

LEMMA ExplainedAtInit == LifecycleInit => ExplainedInv
<1> SUFFICES ASSUME LifecycleInit PROVE ExplainedInv
  OBVIOUS
<1>1. /\ calcs = <<>> /\ job = [c \in Calculators |-> NoJob]
      /\ exportJob = [e \in Exporters |-> [phase |-> "idle", content |-> NoContent]]
      /\ objects = [e \in Exporters |-> NoContent]
  BY DEF LifecycleInit, DbInit, CalculationsInit, ExportsInit
<1>2. DOMAIN calcs = {} /\ \A c \in Calculators : job[c].phase = "idle"
  BY <1>1, WorkFields DEF NoJob
<1>3. \A e \in Exporters : exportJob[e].phase = "idle" /\ objects[e] = NoContent
  BY <1>1
<1> QED
  BY <1>2, <1>3 DEF ExplainedInv, ExplainedWork, ExplainedFile

\* However an export's reads interleave with decisions and calculations, the
\* marks of a file are those its total was computed from, unless a decision
\* was committed after the approval.
THEOREM ExportsExplainTheirTotals == LifecycleSpec => []ExportedTotalIsExplained
<1> DEFINE Inv == /\ LedgerInv /\ MarksInv /\ ExportInv /\ FilesInv
                  /\ StoryInv /\ ExplainedInv
<1>1. LifecycleInit => Inv
  BY LedgerAtInit, MarksAtInit, ExportAtInit, FilesAtInit, StoryAtInit, ExplainedAtInit
<1>2. Inv /\ [LifecycleNext]_lifecycleVars => Inv'
  BY LedgerInductive, MarksNext, ExportInductive, FilesNext, StoryNext, ExplainedNext
<1>3. Inv => ExportedTotalIsExplained
  BY ExplainedTotals
<1> QED BY <1>1, <1>2, <1>3, PTL DEF LifecycleSpec

----------------------------------------------------------------------------
(* Types: every component keeps its own, and those of the tables.           *)

LEMMA PendingIsTyped == Pending \in Calculation /\ NoJob \in Job
<1>1. [i \in Items |-> [id |-> 0, value |-> NoMark]] \in Digest
  BY DEF Digest
<1>2. "INCOMPLETE" \in Results
  BY DEF Results
<1>3. Pending \in Calculation
  BY <1>1, <1>2 DEF Pending, Entry, Calculation
<1> QED
  BY <1>3 DEF NoJob, Doing, Job

\* What calculate computes, from whatever rows it read.
LEMMA ComputedIsTyped ==
  ASSUME DbTypeOK, MarksInv
  PROVE  ComputedResult \in Calculation
<1>1. \A i \in Items : /\ selected[i] \in Nat
                       /\ selected[i] # 0 => values[i][selected[i]].value \in Nat
  <2> SUFFICES ASSUME NEW i \in Items
               PROVE  /\ selected[i] \in Nat
                      /\ selected[i] # 0 => values[i][selected[i]].value \in Nat
    OBVIOUS
  <2>1. selected[i] \in Nat /\ values[i] \in Seq(MarkValue)
    BY DEF DbTypeOK
  <2>2. selected[i] # 0 => selected[i] \in DOMAIN values[i]
    BY DEF MarksInv, Reviewed
  <2>3. selected[i] # 0 => values[i][selected[i]] \in MarkValue
    BY <2>1, <2>2, ElementOfSeq, LenProperties
  <2> QED BY <2>1, <2>3 DEF MarkValue
<1>2. InputDigest \in Digest
  BY <1>1 DEF InputDigest, Digest
<1>3. GrandTotal(SelectedMarks) \in Nat
  <2>1. PICK marks : marks = SelectedMarks
    OBVIOUS
  <2>2. DOMAIN marks = {n \in Items : selected[n] # 0}
    BY <2>1 DEF SelectedMarks
  <2>3. IsFiniteSet(DOMAIN marks)
    BY <2>2, ItemsAssumption, FS_Subset
  <2>4. \A i \in DOMAIN marks : marks[i] \in Nat
    BY <1>1, <2>1, <2>2 DEF SelectedMarks
  <2> QED BY <2>1, <2>3, <2>4, GrandTotals
<1>4. ResultStatus(SelectedMarks, MaxMark, PaperMaximum, Required, handwritten) \in Results
  BY DEF ResultStatus, Results
<1> QED
  BY <1>2, <1>3, <1>4 DEF ComputedResult, Entry, Calculation

LEMMA CalculationsAreTyped ==
  ASSUME DbTypeOK, CalculationsTypeOK, MarksInv, CalculationsNext
  PROVE  DbTypeOK' /\ CalculationsTypeOK'
<1>1. PICK c \in Calculators :
        \/ FindApprovedSession(c) \/ ComputeResult(c) \/ ReturnLatest(c)
        \/ PrepareVersion(c) \/ FindMismatch(c) \/ ConfirmLatest(c)
        \/ CommitCalculation(c) \/ AbortCalculation(c)
  BY DEF CalculationsNext
<1>2. /\ job \in [Calculators -> Job] /\ job[c] \in Job
      /\ job[c].result \in Calculation
      /\ \A k \in DOMAIN calcs : calcs[k] \in Calculation
      /\ LatestVersion \in Nat
  BY LenProperties, ElementOfSeq DEF CalculationsTypeOK, Job, DbTypeOK, LatestVersion
<1> DEFINE Works(t) == job' = [job EXCEPT ![c] = t]
<1>3. ASSUME NEW t \in Job, Works(t) PROVE CalculationsTypeOK'
  BY <1>2, <1>3 DEF CalculationsTypeOK
<1>4. ASSUME NEW op \in {"calculate", "resolve"}, NEW ph \in {"found", "computed", "write"},
             NEW x \in Calculation
      PROVE  Doing(ph, op, x) \in Job
  BY DEF Doing, Job
<1>5. ASSUME NEW v \in Nat, NEW s \in Results, NEW x \in Calculation
      PROVE  Entry(v, x.total, x.digest, s) \in Calculation
  BY DEF Entry, Calculation
<1>6. \A x \in Calculation : x.status \in Results /\ x.version \in Nat
  BY DEF Calculation
<1>7. ASSUME UNCHANGED tables, NEW t \in Job, Works(t)
      PROVE  DbTypeOK' /\ CalculationsTypeOK'
  BY <1>3, <1>7 DEF DbTypeOK
<1> HIDE DEF Works
<1>8. CASE FindApprovedSession(c)
  BY <1>4, <1>7, <1>8, PendingIsTyped DEF FindApprovedSession, Works
<1>9. CASE ComputeResult(c)
  BY <1>4, <1>7, <1>9, ComputedIsTyped DEF ComputeResult, Works
<1>10. CASE ReturnLatest(c) \/ AbortCalculation(c)
  BY <1>7, <1>10, PendingIsTyped DEF ReturnLatest, AbortCalculation, Works
<1>11. CASE PrepareVersion(c)
  <2>1. /\ UNCHANGED tables
        /\ Works(Doing("write", "calculate",
                       Entry(LatestVersion + 1, job[c].result.total,
                             job[c].result.digest, job[c].result.status)))
    BY <1>11 DEF PrepareVersion, Works
  <2>2. Entry(LatestVersion + 1, job[c].result.total, job[c].result.digest,
              job[c].result.status) \in Calculation
    BY <1>2, <1>5, <1>6
  <2> QED BY <1>4, <1>7, <2>1, <2>2
<1>12. CASE FindMismatch(c)
  <2>1. PICK k \in DOMAIN calcs :
          UNCHANGED tables /\ Works(Doing("found", "resolve", calcs[k]))
    BY <1>12 DEF FindMismatch, Works
  <2> QED BY <1>2, <1>4, <1>7, <2>1
<1>13. CASE ConfirmLatest(c)
  <2>1. /\ UNCHANGED tables
        /\ Works(Doing("write", "resolve",
                       Entry(job[c].result.version + 1, job[c].result.total,
                             job[c].result.digest, "READY_FOR_EXPORT")))
    BY <1>13 DEF ConfirmLatest, Works
  <2>2. "READY_FOR_EXPORT" \in Results /\ job[c].result.version + 1 \in Nat
    BY <1>2, <1>6 DEF Results
  <2>3. Entry(job[c].result.version + 1, job[c].result.total, job[c].result.digest,
              "READY_FOR_EXPORT") \in Calculation
    BY <1>2, <1>5, <2>2
  <2> QED BY <1>4, <1>7, <2>1, <2>3
<1>14. CASE CommitCalculation(c)
  <2>1. CalculationsTypeOK'
    BY <1>3, <1>14, PendingIsTyped DEF CommitCalculation, Works
  <2>2. calcs' \in Seq(Calculation)
    BY <1>2, <1>14 DEF CommitCalculation, DbTypeOK
  <2>3. status' \in SheetStatuses
    BY <1>14 DEF CommitCalculation, SheetStatus, SheetStatuses
  <2>4. audit' \in Seq(AuditRow)
    <3>1. PICK action \in {"TOTAL_MISMATCH_RESOLVED", "CALCULATION_CREATED"} :
            Audited(action, "sheet", job[c].result.version)
      BY <1>14 DEF CommitCalculation
    <3>2. [action |-> action, entity |-> "sheet", new |-> job[c].result.version]
            \in AuditRow
      BY <1>2, <1>6 DEF AuditRow, AuditEntities, AuditActions
    <3> QED BY <3>1, <3>2 DEF Audited, DbTypeOK
  <2>5. UNCHANGED <<uploadTables, extractionTables, values, reviewTables>>
    BY <1>14 DEF CommitCalculation
  <2> QED BY <2>1, <2>2, <2>3, <2>4, <2>5 DEF DbTypeOK
<1> QED
  BY <1>1, <1>8, <1>9, <1>10, <1>11, <1>12, <1>13, <1>14

LEMMA ExportsAreTyped ==
  ASSUME DbTypeOK, ExportsTypeOK, ExportsNext
  PROVE  DbTypeOK' /\ ExportsTypeOK'
<1> DEFINE Work == [phase : ExportPhases, content : Content]
           Export == [status : ExportStatuses, file : BOOLEAN]
           LoggedExport == [action : ExportActions, export : Exporters]
<1>1. PICK e \in Exporters :
        \/ RequestExport(e) \/ ReadSheet(e) \/ ReadResult(e) \/ ReadSession(e)
        \/ ReadMarks(e) \/ StoreObject(e) \/ CompleteExport(e) \/ FailExport(e)
        \/ RecordFailure(e) \/ AbandonExport(e) \/ ExpireExport(e)
  BY DEF ExportsNext
<1>2. DbTypeOK'
  BY DEF ExportsNext, DbTypeOK
<1>3. /\ exportJob \in [Exporters -> Work] /\ exportJob[e] \in Work
      /\ exports \in [Exporters -> Export] /\ exports[e] \in Export
      /\ objects \in [Exporters -> Content]
      /\ exportAudit \in Seq(LoggedExport)
  BY DEF ExportsTypeOK
<1>4. NoContent \in Content
  BY PendingIsTyped DEF NoContent, Content, NoPicks
<1>5. ASSUME NEW from, NEW to \in ExportPhases, ExportTo(e, from, to)
      PROVE  exportJob' \in [Exporters -> Work]
  <2>1. PICK x \in Content : exportJob' = [exportJob EXCEPT ![e] = [phase |-> to, content |-> x]]
    <3>1. exportJob[e].content \in Content
      BY <1>3
    <3> QED BY <1>3, <1>4, <1>5, <3>1 DEF ExportTo
  <2>2. [phase |-> to, content |-> x] \in Work
    BY <1>5
  <2> HIDE DEF Work
  <2> QED BY <1>3, <2>1, <2>2
<1>6. ASSUME NEW action \in ExportActions, ExportAudited(action, e)
      PROVE  exportAudit' \in Seq(LoggedExport)
  <2>1. [action |-> action, export |-> e] \in LoggedExport
    OBVIOUS
  <2> QED BY <1>3, <1>6, <2>1 DEF ExportAudited
<1>7. {"sheet", "requested", "result", "session", "rows", "stored", "failing", "over"}
        \subseteq ExportPhases
      /\ {"PROCESSING", "COMPLETED", "FAILED", "EXPIRED"} \subseteq ExportStatuses
      /\ {"EXPORT_REQUESTED", "EXPORT_COMPLETED", "EXPORT_FAILED"} = ExportActions
  BY DEF ExportPhases, ExportStatuses, ExportActions
<1>8. exportJob' \in [Exporters -> Work]
  <2>1. CASE ReadResult(e)
    <3>1. Latest \in Calculation
      <4>1. calcs \in Seq(Calculation) /\ calcs # <<>>
        BY <2>1 DEF ReadResult, ResultIsReady, DbTypeOK
      <4>2. Len(calcs) \in DOMAIN calcs
        BY <4>1, LenProperties, EmptySeq
      <4> QED BY <4>1, <4>2, ElementOfSeq, LenProperties DEF Latest, LatestVersion
    <3>2. PICK work : work = [exportJob[e] EXCEPT !.phase = "result",
                                              !.content.result = Latest]
      OBVIOUS
    <3>3. work \in Work
      BY <1>3, <1>7, <3>1, <3>2 DEF Content
    <3>4. exportJob' = [exportJob EXCEPT ![e] = work]
      BY <1>3, <2>1, <3>2 DEF ReadResult
    <3> HIDE DEF Work
    <3> QED BY <1>3, <3>3, <3>4
  <2>2. CASE ReadMarks(e)
    <3>1. selected \in [Items -> Nat]
      BY DEF DbTypeOK
    <3>2. PICK work : work = [exportJob[e] EXCEPT !.phase = "rows",
                                              !.content.picks = selected]
      OBVIOUS
    <3>3. work \in Work
      BY <1>3, <1>7, <3>1, <3>2 DEF Content
    <3>4. exportJob' = [exportJob EXCEPT ![e] = work]
      BY <1>3, <2>2, <3>2 DEF ReadMarks, SelectedValues
    <3> HIDE DEF Work
    <3> QED BY <1>3, <3>3, <3>4
  <2>3. CASE CompleteExport(e)
    <3> HIDE DEF Work
    <3> QED BY <1>5, <1>7, <2>3 DEF CompleteExport
  <2>4. CASE \/ RequestExport(e) \/ ReadSheet(e) \/ ReadSession(e) \/ StoreObject(e)
             \/ FailExport(e) \/ RecordFailure(e) \/ AbandonExport(e)
    <3> HIDE DEF Work
    <3> QED
      BY <1>5, <1>7, <2>4 DEF RequestExport, ReadSheet, ReadSession, StoreObject,
         FailExport, RecordFailure, AbandonExport
  <2>5. CASE ExpireExport(e)
    BY <1>3, <2>5 DEF ExpireExport
  <2> QED BY <1>1, <2>1, <2>2, <2>3, <2>4, <2>5
<1>9. exports' \in [Exporters -> Export]
  <2>1. CASE RequestExport(e) \/ RecordFailure(e) \/ ExpireExport(e)
    <3>1. PICK x \in ExportStatuses : exports' = [exports EXCEPT ![e].status = x]
      BY <1>7, <2>1 DEF RequestExport, RecordFailure, ExpireExport
    <3> QED BY <1>3, <3>1
  <2>2. CASE CompleteExport(e)
    <3>1. exports' = [exports EXCEPT ![e] = [status |-> "COMPLETED", file |-> TRUE]]
      BY <2>2 DEF CompleteExport
    <3> QED BY <1>3, <1>7, <3>1
  <2>3. CASE \/ ReadSheet(e) \/ ReadResult(e) \/ ReadSession(e) \/ ReadMarks(e)
             \/ StoreObject(e) \/ FailExport(e) \/ AbandonExport(e)
    BY <1>3, <2>3 DEF ReadSheet, ReadResult, ReadSession, ReadMarks, StoreObject,
       FailExport, AbandonExport
  <2> QED BY <1>1, <2>1, <2>2, <2>3
<1>10. objects' \in [Exporters -> Content]
  <2>1. exportJob[e].content \in Content
    BY <1>3
  <2> HIDE DEF Work
  <2> QED
    BY <1>1, <1>3, <2>1 DEF RequestExport, ReadSheet, ReadResult, ReadSession, ReadMarks,
       StoreObject, CompleteExport, FailExport, RecordFailure, AbandonExport, ExpireExport
<1>11. exportAudit' \in Seq(LoggedExport)
  <2> HIDE DEF Work, LoggedExport
  <2> QED
    BY <1>1, <1>3, <1>6, <1>7 DEF RequestExport, ReadSheet, ReadResult, ReadSession,
       ReadMarks, StoreObject, CompleteExport, FailExport, RecordFailure, AbandonExport,
       ExpireExport
<1> QED
  BY <1>2, <1>8, <1>9, <1>10, <1>11 DEF ExportsTypeOK

LEMMA LifecycleTypesInit == LifecycleInit => LifecycleTypesOK
<1> SUFFICES ASSUME LifecycleInit PROVE LifecycleTypesOK
  OBVIOUS
<1>1. DbTypeOK /\ ExtractionTypeOK
  BY TypesInit DEF LifecycleInit, Init, TypeOK
<1>2. VerificationTypeOK
  BY DEF LifecycleInit, VerificationInit, VerificationTypeOK, NoRequest, Request,
     SessionOp, RequestPhase
<1>3. CalculationsTypeOK
  BY PendingIsTyped DEF LifecycleInit, CalculationsInit, CalculationsTypeOK
<1>4. ExportsTypeOK
  BY PendingIsTyped DEF LifecycleInit, ExportsInit, ExportsTypeOK, NoContent, Content,
     NoPicks, ExportPhases, ExportStatuses
<1> QED
  BY <1>1, <1>2, <1>3, <1>4 DEF LifecycleTypesOK

LEMMA LifecycleTypesNext ==
  MarksInv /\ LifecycleTypesOK /\ [LifecycleNext]_lifecycleVars => LifecycleTypesOK'
<1> SUFFICES ASSUME MarksInv, LifecycleTypesOK, [LifecycleNext]_lifecycleVars
             PROVE  LifecycleTypesOK'
  OBVIOUS
<1> USE DEF LifecycleTypesOK
<1>1. CASE ExtractSheet
  <2>1. TypeOK'
    BY <1>1, TypesNext DEF ExtractSheet, TypeOK, vars
  <2> QED
    BY <1>1, <2>1 DEF ExtractSheet, TypeOK, VerificationTypeOK, CalculationsTypeOK,
       ExportsTypeOK
<1>2. CASE ReviewSheet
  <2>1. VerificationTypesOK'
    BY <1>2, ReviewTypesNext DEF ReviewSheet, VerificationTypesOK, verificationVars
  <2> QED
    BY <1>2, <2>1 DEF ReviewSheet, VerificationTypesOK, ExtractionTypeOK,
       CalculationsTypeOK, ExportsTypeOK
<1>3. CASE CalculateSheet
  <2>1. DbTypeOK' /\ CalculationsTypeOK'
    BY <1>3, CalculationsAreTyped DEF CalculateSheet
  <2> QED
    BY <1>3, <2>1 DEF CalculateSheet, ExtractionTypeOK, VerificationTypeOK, ExportsTypeOK
<1>4. CASE ExportSheet
  <2>1. DbTypeOK' /\ ExportsTypeOK'
    BY <1>4, ExportsAreTyped DEF ExportSheet
  <2> QED
    BY <1>4, <2>1 DEF ExportSheet, ExtractionTypeOK, VerificationTypeOK,
       CalculationsTypeOK
<1>5. CASE UNCHANGED lifecycleVars
  BY <1>5 DEF DbTypeOK, ExtractionTypeOK, VerificationTypeOK, CalculationsTypeOK,
     ExportsTypeOK
<1> QED
  BY <1>1, <1>2, <1>3, <1>4, <1>5 DEF LifecycleNext

\* Every row of the sheet, and everything a request remembers of it, has the
\* type the schema declares, whichever components work on it at once; a
\* grand total is natural because what is selected is.
THEOREM LifecycleIsTyped == LifecycleSpec => []LifecycleTypesOK
BY MarksAtInit, MarksNext, LifecycleTypesInit, LifecycleTypesNext, PTL
   DEF LifecycleSpec
=============================================================================
