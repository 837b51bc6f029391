-------------------------- MODULE MarkSheetLifecycle --------------------------
(***************************************************************************)
(* One mark sheet from upload to export: the extraction, the review, the   *)
(* calculation and the export handlers of the backend at work on the same  *)
(* rows, with nothing but the database between them.  A request of any     *)
(* component may run between two steps of a request of any other.          *)
(***************************************************************************)
EXTENDS Extraction, Verification, Exports, Reports

lifecycleVars == <<tables, extractionVars, request, job, exportVars>>

LifecycleInit ==
  DbInit /\ ExtractionInit /\ VerificationInit /\ CalculationsInit /\ ExportsInit

ExtractSheet == ExtractionNext /\ UNCHANGED <<request, job, exportVars>>
ReviewSheet == VerificationNext /\ UNCHANGED <<extractionVars, job, exportVars>>
CalculateSheet ==
  CalculationsNext /\ UNCHANGED <<extractionVars, request, exportVars>>
ExportSheet == ExportsNext /\ UNCHANGED <<extractionVars, request, job>>

LifecycleNext == ExtractSheet \/ ReviewSheet \/ CalculateSheet \/ ExportSheet

LifecycleSpec == LifecycleInit /\ [][LifecycleNext]_lifecycleVars

LifecycleTypesOK ==
  /\ DbTypeOK /\ ExtractionTypeOK /\ VerificationTypeOK
  /\ CalculationsTypeOK /\ ExportsTypeOK

----------------------------------------------------------------------------
(* Properties.                                                             *)

\* Every calculation, whenever its inputs were read, adds up one value that
\* a reviewer wrote for each item, within the item's maximum, so it is never
\* incomplete or invalid, and never more than the items allow together.
ResultsAreReviewed ==
  \A k \in DOMAIN calcs :
    /\ calcs[k].status \in {"READY_FOR_EXPORT", "TOTAL_MISMATCH"}
    /\ \A i \in Items :
         LET input == calcs[k].digest[i]
         IN  /\ input.id \in DOMAIN values[i]
             /\ values[i][input.id] = [value |-> input.value, source |-> "REVIEWER"]
             /\ input.value <= MaxMark[i]
    /\ calcs[k].total = GrandTotal([i \in Items |-> calcs[k].digest[i].value])
    /\ calcs[k].total <= GrandTotal(MaxMark)

\* The marks that are selected are the marks that are exported.
ExportMatchesSelection == Exportable => Latest.digest = InputDigest
============================================================================
