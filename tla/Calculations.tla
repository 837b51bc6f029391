---------------------------- MODULE Calculations ----------------------------
(***************************************************************************)
(* CalculationsService for one sheet: calculate and resolve, any number of *)
(* which may be in progress.  Both derive the next version from the latest *)
(* row they read; the unique index on (sheet, version) decides which of    *)
(* two overlapping requests commits.                                       *)
(*                                                                         *)
(* inputDigest is the SHA-256 of a canonical text; it is modelled by the   *)
(* part of that text that varies, so that equal digests are equal inputs.  *)
(***************************************************************************)
EXTENDS MarkSheetDb, CalculationEngine

CONSTANTS
  Calculators,  \* calculation requests the backend may be handling at once
  Required,     \* items of the scheme that must have a value
  PaperMaximum, \* maximum mark of the scheme version
  MaxVersions   \* bound on the calculation versions of a behaviour

ASSUME RequiredAssumption == Required \subseteq Items
ASSUME PaperMaximumAssumption == PaperMaximum \in Nat \ {0}
ASSUME MaxVersionsAssumption == MaxVersions \in Nat

VARIABLE job  \* what the backend is doing for each calculation request

Entry(version, total, digest, resultStatus) ==
  [version |-> version, total |-> total, digest |-> digest,
   status |-> resultStatus]
Pending ==
  Entry(0, 0, [i \in Items |-> [id |-> 0, value |-> NoMark]], "INCOMPLETE")
Doing(phase, op, result) == [phase |-> phase, op |-> op, result |-> result]
NoJob == Doing("idle", "none", Pending)
Job == [phase : {"idle", "found", "computed", "write"},
        op : {"none", "calculate", "resolve"}, result : Calculation]

CalculationsTypeOK == job \in [Calculators -> Job]
CalculationsInit == job = [c \in Calculators |-> NoJob]

LatestVersion == Len(calcs)
Latest == calcs[LatestVersion]

SelectedMarks ==
  [i \in {n \in Items : selected[n] # 0} |-> values[i][selected[i]].value]
InputDigest ==
  [i \in Items |-> [id |-> selected[i],
                    value |-> IF selected[i] = 0 THEN NoMark
                              ELSE values[i][selected[i]].value]]
ComputedResult ==
  Entry(0, GrandTotal(SelectedMarks), InputDigest,
        ResultStatus(SelectedMarks, MaxMark, PaperMaximum, Required, handwritten))

----------------------------------------------------------------------------
(* calculate: the approved session, its selected values, the latest row.   *)

FindApprovedSession(c) ==
  /\ job[c].phase = "idle"
  /\ session.status = "APPROVED"
  /\ job' = [job EXCEPT ![c] = Doing("found", "calculate", Pending)]
  /\ UNCHANGED tables

ComputeResult(c) ==
  /\ job[c].phase = "found" /\ job[c].op = "calculate"
  /\ job' = [job EXCEPT ![c] = Doing("computed", "calculate", ComputedResult)]
  /\ UNCHANGED tables

\* Mutant: every request calculates.
NeverSameInput(c) == FALSE

SameInputAsLatest(c) ==
  LatestVersion # 0 /\ Latest.digest = job[c].result.digest

\* The latest version already answers the question: nothing is written.
ReturnLatest(c) ==
  /\ job[c].phase = "computed" /\ job[c].op = "calculate"
  /\ SameInputAsLatest(c)
  /\ job' = [job EXCEPT ![c] = NoJob]
  /\ UNCHANGED tables

PrepareVersion(c) ==
  /\ job[c].phase = "computed" /\ job[c].op = "calculate"
  /\ ~SameInputAsLatest(c)
  /\ LET result == job[c].result
     IN  job' = [job EXCEPT ![c] =
           Doing("write", "calculate",
                 Entry(LatestVersion + 1, result.total, result.digest,
                       result.status))]
  /\ UNCHANGED tables

----------------------------------------------------------------------------
(* resolve: the named version, then the check that it is still the latest. *)

\* Mutant: any version can be resolved.
FindAnyVersion(c) ==
  /\ job[c].phase = "idle"
  /\ \E k \in DOMAIN calcs :
       job' = [job EXCEPT ![c] = Doing("found", "resolve", calcs[k])]
  /\ UNCHANGED tables

FindMismatch(c) ==
  /\ job[c].phase = "idle"
  /\ \E k \in DOMAIN calcs :
       /\ calcs[k].status = "TOTAL_MISMATCH"
       /\ job' = [job EXCEPT ![c] = Doing("found", "resolve", calcs[k])]
  /\ UNCHANGED tables

ConfirmLatest(c) ==
  /\ job[c].phase = "found" /\ job[c].op = "resolve"
  /\ LatestVersion # 0 /\ Latest.version = job[c].result.version
  /\ LET result == job[c].result
     IN  job' = [job EXCEPT ![c] =
           Doing("write", "resolve",
                 Entry(result.version + 1, result.total, result.digest,
                       "READY_FOR_EXPORT"))]
  /\ UNCHANGED tables

----------------------------------------------------------------------------
(* The commit of either: one row, the sheet's status, one audit row.       *)

VersionIsNew(version) == \A k \in DOMAIN calcs : calcs[k].version # version

\* Mutants: the sheet takes the result's own status; any result publishes.
SheetStatusOfResult(resultStatus) == resultStatus
SheetStatusCompleted(resultStatus) == "COMPLETED"

SheetStatus(resultStatus) ==
  IF resultStatus = "READY_FOR_EXPORT" THEN "COMPLETED" ELSE "REVIEW_REQUIRED"

CommitCalculation(c) ==
  LET result == job[c].result
  IN  /\ job[c].phase = "write"
      /\ VersionIsNew(result.version)
      /\ Len(calcs) < MaxVersions
      /\ calcs' = Append(calcs, result)
      /\ status' = SheetStatus(result.status)
      /\ Audited(IF job[c].op = "resolve" THEN "TOTAL_MISMATCH_RESOLVED"
                 ELSE "CALCULATION_CREATED", "sheet", result.version)
      /\ job' = [job EXCEPT ![c] = NoJob]
      /\ UNCHANGED <<uploadTables, extractionTables, values, reviewTables>>

\* A refusal, a lost race for the version, an error, a crash.
AbortCalculation(c) ==
  /\ job[c].phase # "idle"
  /\ job' = [job EXCEPT ![c] = NoJob]
  /\ UNCHANGED tables

CalculationsNext ==
  \E c \in Calculators :
    \/ FindApprovedSession(c) \/ ComputeResult(c) \/ ReturnLatest(c)
    \/ PrepareVersion(c) \/ FindMismatch(c) \/ ConfirmLatest(c)
    \/ CommitCalculation(c) \/ AbortCalculation(c)

----------------------------------------------------------------------------
(* Properties.                                                             *)

\* A COMPLETED sheet, one that can be exported, shows a latest calculation
\* that is ready: a lost race for a version never publishes its sheet.
CompletedSheetIsReady ==
  status = "COMPLETED" => calcs # <<>> /\ Latest.status = "READY_FOR_EXPORT"

\* The versions of a sheet are 1, 2, 3, ... without gap or repetition.
VersionsAreConsecutive == \A k \in DOMAIN calcs : calcs[k].version = k

\* Asking again for the same approved values creates no new version; only
\* the resolution of a mismatch repeats the digest of the row before it.
CalculationIsIdempotent ==
  \A k \in DOMAIN calcs \ {1} : calcs[k].digest = calcs[k - 1].digest =>
    calcs[k - 1].status = "TOTAL_MISMATCH" /\ calcs[k].status = "READY_FOR_EXPORT"

\* What the rows promise to reports and exports.
Ledger == INSTANCE CalculationLedger
            WITH ledger <- calcs, published <- status = "COMPLETED"
LedgerIsImplemented == Ledger!Spec
============================================================================
