---------------------------- MODULE Verification ----------------------------
(***************************************************************************)
(* Human review of one sheet: MarkSheetsService.reviewItem, submit and     *)
(* approve.  A reviewer looks at the sheet, then sends a decision together *)
(* with the lockVersion that was on the screen.                            *)
(*                                                                         *)
(* A decision is handled in three steps: read the session and compare the  *)
(* version; read the items; commit.  The writes of the commit are          *)
(* addressed by id alone, so nothing compares the version again.           *)
(***************************************************************************)
EXTENDS MarkSheetDb

CONSTANTS
  Requests,   \* decisions the backend may be handling at once
  Reviewers,  \* holders of mark.review
  Verifiers,  \* holders of mark.verify
  Assignee,   \* whose request created the session: assigned_to_id
  Marks,      \* the marks a reviewer may type in
  MaxWrites   \* bound on the decisions committed in a behaviour

ASSUME MarksAssumption == Marks \subseteq Nat
ASSUME MaxWritesAssumption == MaxWrites \in Nat

VARIABLE request  \* what the backend is doing for each decision

RequestPhase == {"idle", "checked", "loaded"}
Review == [phase : RequestPhase, op : {"review"}, item : Items, mark : Marks, base : Nat]
SessionOp == [phase : RequestPhase, op : {"none", "submit", "approve"},
              item : {"all"}, mark : {0}, base : Nat]
Request == Review \cup SessionOp
NoRequest == [phase |-> "idle", op |-> "none", item |-> "all", mark |-> 0,
              base |-> 0]

VerificationTypeOK == request \in [Requests -> Request]
VerificationInit == request = [q \in Requests |-> NoRequest]

extractedMark == extractions[1]
AllSelected == \A i \in Items : selected[i] # 0

Entitled(actor) == actor = Assignee \/ actor \in Verifiers

----------------------------------------------------------------------------
(* The session is read and checked; a decision that shows another version  *)
(* than the row is refused and leaves no trace, so only base = lockVersion *)
(* is started here.                                                        *)

Checked(q, op, item, mark) ==
  /\ request[q].phase = "idle"
  /\ request' = [request EXCEPT
       ![q] = [phase |-> "checked", op |-> op, item |-> item, mark |-> mark,
               base |-> session.lockVersion]]
  /\ UNCHANGED tables

OpenAndAssigned(actor) == session.status = "OPEN" /\ Entitled(actor)

CheckReview(q) ==
  /\ \E actor \in Reviewers : OpenAndAssigned(actor)
  /\ \E i \in Items, m \in Marks : Checked(q, "review", i, m)

CheckSubmit(q) ==
  /\ \E actor \in Reviewers : OpenAndAssigned(actor)
  /\ Checked(q, "submit", "all", 0)

\* Mutant: a session nobody submitted can be approved.
CheckApproveUnsubmitted(q) ==
  /\ Verifiers # {}
  /\ session.status \in {"OPEN", "SUBMITTED"}
  /\ Checked(q, "approve", "all", 0)

CheckApprove(q) ==
  /\ Verifiers # {}
  /\ session.status = "SUBMITTED"
  /\ Checked(q, "approve", "all", 0)

(* The items are read by the next query of the same transaction.           *)

LoadItem(q) ==
  /\ request[q].phase = "checked" /\ request[q].op = "review"
  /\ request[q].mark <= MaxMark[request[q].item]
  /\ request' = [request EXCEPT ![q].phase = "loaded"]
  /\ UNCHANGED tables

\* Mutant: items without a decision are accepted.
LoadAnyItems(q) ==
  /\ request[q].phase = "checked" /\ request[q].op \in {"submit", "approve"}
  /\ request' = [request EXCEPT ![q].phase = "loaded"]
  /\ UNCHANGED tables

LoadItems(q) ==
  /\ request[q].phase = "checked" /\ request[q].op \in {"submit", "approve"}
  /\ AllSelected
  /\ request' = [request EXCEPT ![q].phase = "loaded"]
  /\ UNCHANGED tables

(* A refusal, an error of the database, a crash: nothing was written.      *)
Abort(q) ==
  /\ request[q].phase # "idle"
  /\ request' = [request EXCEPT ![q] = NoRequest]
  /\ UNCHANGED tables

----------------------------------------------------------------------------
(* Commits.  lockVersion is incremented by the database, not computed.     *)

Committing(q, op) ==
  /\ request[q].phase = "loaded" /\ request[q].op = op
  /\ session.lockVersion < MaxWrites
  /\ request' = [request EXCEPT ![q] = NoRequest]

\* Mutant: the version is left alone when the status stays.
SessionBecomesUncounted(newStatus) ==
  session' = [status |-> newStatus,
              lockVersion |-> IF newStatus = session.status THEN session.lockVersion
                              ELSE session.lockVersion + 1]

SessionBecomes(newStatus) ==
  session' = [status |-> newStatus, lockVersion |-> session.lockVersion + 1]

Unchanged(i, mark) == extractedMark[i] = mark

ReviewerValue(mark) == [value |-> mark, source |-> "REVIEWER"]

WithValue(i, mark) == [values EXCEPT ![i] = Append(@, ReviewerValue(mark))]

\* Mutant: the first selection is kept.
SelectOnce(i, id) == [selected EXCEPT ![i] = IF @ = 0 THEN id ELSE @]

Select(i, id) == [selected EXCEPT ![i] = id]

\* A new REVIEWER value is appended to the item's history and selected.
CommitReview(q) ==
  LET i == request[q].item
      mark == request[q].mark
      id == Len(values[i]) + 1
      outcome == IF Unchanged(i, mark) THEN "VERIFIED" ELSE "CORRECTED"
  IN  /\ Committing(q, "review")
      /\ values' = WithValue(i, mark)
      /\ selected' = Select(i, id)
      /\ verdict' = [verdict EXCEPT ![i] = outcome]
      /\ SessionBecomes(session.status)
      /\ Audited(IF Unchanged(i, mark) THEN "MARK_VERIFIED" ELSE "MARK_CORRECTED",
                 i, id)
      /\ UNCHANGED <<status, uploadTables, extractionTables, calcs>>

CommitSubmit(q) ==
  /\ Committing(q, "submit")
  /\ SessionBecomes("SUBMITTED")
  /\ Audited("VERIFICATION_SUBMITTED", "sheet", 0)
  /\ UNCHANGED <<status, uploadTables, extractionTables, values, selected,
                 verdict, calcs>>

CommitApprove(q) ==
  /\ Committing(q, "approve")
  /\ SessionBecomes("APPROVED")
  /\ verdict' = [i \in Items |-> "VERIFIED"]
  /\ status' = "VERIFIED"
  /\ Audited("VERIFICATION_APPROVED", "sheet", 0)
  /\ UNCHANGED <<uploadTables, extractionTables, values, selected, calcs>>

VerificationNext ==
  \E q \in Requests :
    \/ CheckReview(q) \/ CheckSubmit(q) \/ CheckApprove(q)
    \/ LoadItem(q) \/ LoadItems(q) \/ Abort(q)
    \/ CommitReview(q) \/ CommitSubmit(q) \/ CommitApprove(q)

----------------------------------------------------------------------------
(* Review on its own starts where extraction ends.                         *)

ReviewableInit ==
  /\ status = "REVIEW_REQUIRED"
  /\ uploadStatus = "COMPLETED"
  /\ handwritten \in HandwrittenTotals
  /\ modelRow = TRUE
  /\ extractions \in {<<batch>> : batch \in Batch}
  /\ values = AiValues(extractions[1])
  /\ session = [status |-> "OPEN", lockVersion |-> 0]
  /\ selected = [i \in Items |-> 0]
  /\ verdict = [i \in Items |-> "IN_REVIEW"]
  /\ calcs = <<>>
  /\ audit = <<>>

verificationVars == <<tables, request>>
ReviewInit == ReviewableInit /\ VerificationInit
VerificationSpec == ReviewInit /\ [][VerificationNext]_verificationVars

----------------------------------------------------------------------------
(* Properties.                                                             *)

VerificationTypesOK == DbTypeOK /\ VerificationTypeOK

\* A session leaves OPEN only when every single item has a selected value,
\* whichever decisions were in flight: submit read the items earlier.
SubmittedIsComplete == session.status \in {"SUBMITTED", "APPROVED"} => AllSelected

\* What counts for an item is always a value that a reviewer wrote for it,
\* within its maximum; an advisory value is never selected.
SelectionIsReviewed ==
  \A i \in Items : selected[i] # 0 =>
    /\ selected[i] \in DOMAIN values[i]
    /\ values[i][selected[i]].source = "REVIEWER"
    /\ values[i][selected[i]].value <= MaxMark[i]

\* Decisions of overlapping requests are all counted: a client that polls
\* lockVersion misses none of the decisions the audit log shows.
Decisions == {"MARK_VERIFIED", "MARK_CORRECTED", "VERIFICATION_SUBMITTED",
              "VERIFICATION_APPROVED"}
DecisionRows == {k \in DOMAIN audit : audit[k].action \in Decisions}
LockVersionCountsDecisions == session.lockVersion = Cardinality(DecisionRows)

\* The audit log explains every mark that counts: its last row about an item
\* names the value that is selected now.
MarkRows ==
  [i \in Items |-> {k \in DOMAIN audit :
                      /\ audit[k].action \in {"MARK_VERIFIED", "MARK_CORRECTED"}
                      /\ audit[k].entity = i}]
AuditExplainsSelection ==
  \A i \in Items :
    /\ selected[i] = 0 <=> MarkRows[i] = {}
    /\ \A k \in MarkRows[i] : (\A n \in MarkRows[i] : n <= k)
                                => audit[k].new = selected[i]

\* A verdict other than IN_REVIEW rests on a reviewer's value, and an item
\* that says CORRECTED holds another mark than the recognizer read.
VerdictsFollowSelection ==
  \A i \in Items :
    /\ verdict[i] \in {"VERIFIED", "CORRECTED"} => selected[i] # 0
    /\ verdict[i] = "CORRECTED" =>
         values[i][selected[i]].value # extractedMark[i]

\* No approval without a submission before it, and no submission without a
\* decision on every item before that, in the order the audit log records.
ApprovalFollowsReview ==
  \A k \in DOMAIN audit : audit[k].action = "VERIFICATION_APPROVED" =>
    \E s \in 1..(k - 1) :
      /\ audit[s].action = "VERIFICATION_SUBMITTED"
      /\ \A i \in Items : \E m \in MarkRows[i] : m < s
============================================================================
