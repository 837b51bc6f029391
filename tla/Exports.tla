-------------------------------- MODULE Exports --------------------------------
(***************************************************************************)
(* ExportsService and the reports it is fed from.  An export is a row that *)
(* is committed before the work starts, an object in the store, and a file *)
(* row committed together with the export's end: three writes that nothing *)
(* makes atomic.  In between, ReportsService.exportData reads the sheets   *)
(* of the scope with one query per table, so that the rows of a sheet may  *)
(* come from different instants.                                           *)
(*                                                                         *)
(* The scope is the sheet of MarkSheetDb.  A row is refused or exported as *)
(* a whole; a mark is known by the id of the value it shows.  Formats and  *)
(* filters are left out.                                                   *)
(***************************************************************************)
EXTENDS Calculations

CONSTANT Exporters  \* export requests the backend may be handling at once

VARIABLES
  exportJob,    \* what the backend is doing for each export request
  exports,      \* exports row of each request, with its file row if any
  objects,      \* the object each request has put in the store, if any
  exportAudit   \* audit_logs rows about exports, in the order of commit

exportVars == <<exportJob, exports, objects, exportAudit>>

ExportPhases == {"idle", "requested", "sheet", "result", "session", "rows",
                 "stored", "failing", "over"}
ExportStatuses == {"NONE", "PROCESSING", "COMPLETED", "FAILED", "EXPIRED"}
ExportActions == {"EXPORT_REQUESTED", "EXPORT_COMPLETED", "EXPORT_FAILED"}
NoPicks == [i \in Items |-> 0]
Content == [result : Calculation, picks : [Items -> Nat]]
NoContent == [result |-> Pending, picks |-> NoPicks]

ExportsTypeOK ==
  /\ exportJob \in [Exporters -> [phase : ExportPhases, content : Content]]
  /\ exports \in [Exporters -> [status : ExportStatuses, file : BOOLEAN]]
  /\ objects \in [Exporters -> Content]
  /\ exportAudit \in Seq([action : ExportActions, export : Exporters])

ExportsInit ==
  /\ exportJob = [e \in Exporters |-> [phase |-> "idle", content |-> NoContent]]
  /\ exports = [e \in Exporters |-> [status |-> "NONE", file |-> FALSE]]
  /\ objects = [e \in Exporters |-> NoContent]
  /\ exportAudit = <<>>

ExportTo(e, from, to) ==
  /\ exportJob[e].phase \in from
  /\ exportJob' = [exportJob EXCEPT
       ![e] = [phase |-> to, content |-> IF to \in {"failing", "over"}
                                         THEN NoContent ELSE @.content]]

ExportAudited(action, e) ==
  exportAudit' = Append(exportAudit, [action |-> action, export |-> e])

----------------------------------------------------------------------------
(* create: the row is committed first, outside the try block.              *)

RequestExport(e) ==
  /\ ExportTo(e, {"idle"}, "requested")
  /\ exports' = [exports EXCEPT ![e].status = "PROCESSING"]
  /\ ExportAudited("EXPORT_REQUESTED", e)
  /\ UNCHANGED objects

(* exportData: the sheet, its newest result, its approved session and the  *)
(* values selected there.  What the gate refuses ends in FailExport.       *)

ReadSheet(e) ==
  /\ ExportTo(e, {"requested"}, "sheet")
  /\ status = "COMPLETED"
  /\ UNCHANGED <<exports, objects, exportAudit>>

ResultIsReady == calcs # <<>> /\ Latest.status = "READY_FOR_EXPORT"

ReadResult(e) ==
  /\ exportJob[e].phase = "sheet"
  /\ ResultIsReady
  /\ exportJob' = [exportJob EXCEPT ![e].phase = "result",
                                    ![e].content.result = Latest]
  /\ UNCHANGED <<exports, objects, exportAudit>>

ReadSession(e) ==
  /\ ExportTo(e, {"result"}, "session")
  /\ session.status = "APPROVED"
  /\ UNCHANGED <<exports, objects, exportAudit>>

\* Mutant: the marks of the oldest values.
FirstValues == [i \in Items |-> IF values[i] = <<>> THEN 0 ELSE 1]

SelectedValues == selected

ReadMarks(e) ==
  /\ exportJob[e].phase = "session"
  /\ exportJob' = [exportJob EXCEPT ![e].phase = "rows",
                                    ![e].content.picks = SelectedValues]
  /\ UNCHANGED <<exports, objects, exportAudit>>

----------------------------------------------------------------------------
(* The object, then the transaction that completes the export.             *)

StoreObject(e) ==
  /\ ExportTo(e, {"rows"}, "stored")
  /\ objects' = [objects EXCEPT ![e] = exportJob[e].content]
  /\ UNCHANGED <<exports, exportAudit>>

\* Mutant: the rows are committed before the object is there.
StoredOrGenerated == {"rows", "stored"}

ReadyToComplete == {"stored"}

\* The file row, the export's end and its audit row; the answer of the
\* commit, or what follows it in the try block, may still fail.
CompleteExport(e) ==
  /\ \E heard \in BOOLEAN :
       ExportTo(e, ReadyToComplete, IF heard THEN "over" ELSE "failing")
  /\ exports' = [exports EXCEPT ![e] = [status |-> "COMPLETED", file |-> TRUE]]
  /\ ExportAudited("EXPORT_COMPLETED", e)
  /\ UNCHANGED objects

\* A refusal of the gate, the limit on rows, an error of the generator, of
\* the store or of the database: the try block is left.
FailExport(e) ==
  /\ ExportTo(e, ExportPhases \ {"idle", "failing", "over"}, "failing")
  /\ UNCHANGED <<exports, objects, exportAudit>>

\* The catch block addresses the export by id, whatever its status is.
RecordFailure(e) ==
  /\ ExportTo(e, {"failing"}, "over")
  /\ exports' = [exports EXCEPT ![e].status = "FAILED"]
  /\ ExportAudited("EXPORT_FAILED", e)
  /\ UNCHANGED objects

\* The backend stops, or the catch block's own transaction fails.
AbandonExport(e) ==
  /\ ExportTo(e, ExportPhases \ {"idle", "over"}, "over")
  /\ UNCHANGED <<exports, objects, exportAudit>>

\* get: the first look at a completed export whose time is up.  The time is
\* an hour or more, so the request that made the export is over.
ExpireExport(e) ==
  /\ exportJob[e].phase = "over"
  /\ exports[e].status = "COMPLETED"
  /\ exports' = [exports EXCEPT ![e].status = "EXPIRED"]
  /\ UNCHANGED <<exportJob, objects, exportAudit>>

ExportsNext ==
  /\ \E e \in Exporters :
       \/ RequestExport(e) \/ ReadSheet(e) \/ ReadResult(e) \/ ReadSession(e)
       \/ ReadMarks(e) \/ StoreObject(e) \/ CompleteExport(e) \/ FailExport(e)
       \/ RecordFailure(e) \/ AbandonExport(e) \/ ExpireExport(e)
  /\ UNCHANGED tables

----------------------------------------------------------------------------
(* Properties.                                                             *)

Stored == {e \in Exporters : objects[e] # NoContent}
ExportRows(e, action) ==
  {k \in DOMAIN exportAudit : exportAudit[k] = [action |-> action, export |-> e]}

\* What the rows say of an export is what happened to it: a completed or an
\* expired one has its file row and the object behind it and never failed; a
\* failed one says so in the audit log, and has a file only if it had been
\* completed before; one that is PROCESSING has neither end nor file.
ExportsAreAccounted ==
  \A e \in Exporters :
    LET done == ExportRows(e, "EXPORT_COMPLETED")
        failed == ExportRows(e, "EXPORT_FAILED")
    IN  /\ exports[e].file <=> done # {}
        /\ exports[e].file => e \in Stored
        /\ exports[e].status \in {"COMPLETED", "EXPIRED"} =>
             Cardinality(done) = 1 /\ failed = {}
        /\ exports[e].status = "FAILED" => Cardinality(failed) = 1
        /\ exports[e].status \in {"NONE", "PROCESSING"} => done \cup failed = {}

\* Whatever was written while the export was reading, a generated file shows
\* a result that was ready and, for every item, a mark a reviewer gave it.
ExportedMarksAreReviewed ==
  \A e \in Stored :
    LET file == objects[e]
    IN  /\ file.result.status = "READY_FOR_EXPORT"
        /\ \E k \in DOMAIN calcs : calcs[k] = file.result
        /\ \A i \in Items :
             /\ file.picks[i] \in DOMAIN values[i]
             /\ values[i][file.picks[i]].source = "REVIEWER"

\* The marks of a generated file are the marks its total was computed from,
\* unless a decision that was in flight at the approval was committed late.
LateDecision ==
  \E a, k \in DOMAIN audit :
    /\ a < k
    /\ audit[a].action = "VERIFICATION_APPROVED"
    /\ audit[k].action \in {"MARK_VERIFIED", "MARK_CORRECTED"}
ExportedTotalIsExplained ==
  LateDecision \/ \A e \in Stored : \A i \in Items :
                    objects[e].picks[i] = objects[e].result.digest[i].id
============================================================================
