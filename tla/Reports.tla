-------------------------------- MODULE Reports --------------------------------
(***************************************************************************)
(* What ReportsService shows of a sheet: its line in a class or a student  *)
(* report, the cards of the summary that count it, and whether an export   *)
(* would accept it.  Three functions of the same rows, written apart.      *)
(***************************************************************************)
EXTENDS Calculations

Shown(column) == IF calcs = <<>> THEN NoMark ELSE Latest[column]

\* The line of a class report: the marks of the approved session by value
\* id, the newest result, and one status for both.
ClassLine ==
  [marks  |-> {i \in Items : session.status = "APPROVED" /\ selected[i] # 0},
   total  |-> Shown("total"),
   status |-> IF calcs = <<>> THEN status ELSE Latest.status]

\* The same sheet in the report of its student, who reads it by himself.
StudentLine ==
  [marks  |-> IF session.status = "APPROVED" THEN {i \in Items : selected[i] # 0}
              ELSE {},
   total  |-> Shown("total"),
   status |-> IF calcs = <<>> THEN status ELSE Latest.status]

\* The cards of the summary that count the sheet.
Cards ==
  (IF status = "COMPLETED" THEN {"processed"} ELSE {})
  \cup (IF status \in {"PENDING_UPLOAD", "UPLOADED"} THEN {"pending"} ELSE {})
  \cup (IF status \in {"VERIFIED", "COMPLETED"} THEN {"verified"} ELSE {})
  \cup (IF status = "REVIEW_REQUIRED" THEN {"reviewRequired"} ELSE {})
  \cup (IF calcs # <<>> /\ Latest.status = "TOTAL_MISMATCH"
        THEN {"totalMismatch"} ELSE {})

\* The gate of exportData for one sheet of the scope.
Exportable ==
  /\ status = "COMPLETED"
  /\ calcs # <<>> /\ Latest.status = "READY_FOR_EXPORT"
  /\ session.status = "APPROVED"

----------------------------------------------------------------------------
(* Property.                                                               *)

\* A submission or an approval that was in flight when the session was
\* approved and is committed after it: it takes the session back to SUBMITTED,
\* or the sheet of a finished calculation back to VERIFIED.
LateReviewStep ==
  \E a, k \in DOMAIN audit :
    /\ a < k
    /\ audit[a].action = "VERIFICATION_APPROVED"
    /\ audit[k].action \in {"VERIFICATION_SUBMITTED", "VERIFICATION_APPROVED"}

\* A completion that overlapped the extraction, or gave a claimed sheet back,
\* and is committed after the rows are there: the sheet is queued again.
Requeued == extractions # <<>> /\ status \in {"UPLOADED", "PROCESSING"}

\* Nobody reads two stories about one sheet: a total that is shown stands
\* beside a mark for every item; a sheet that counts as processed is shown as
\* ready; one that is shown as ready can be exported and is counted as
\* processed; one that is in doubt waits for review, and is not verified.
ReportsAgree ==
  \/ LateReviewStep
  \/ /\ StudentLine.total # NoMark => StudentLine.marks = Items
     /\ "processed" \in Cards => StudentLine.status = "READY_FOR_EXPORT"
     /\ \/ Requeued
        \/ /\ ClassLine.status = "READY_FOR_EXPORT" =>
                Exportable /\ ClassLine.marks = Items /\ "processed" \in Cards
           /\ "totalMismatch" \in Cards =>
                "reviewRequired" \in Cards /\ ~("verified" \in Cards)
============================================================================
