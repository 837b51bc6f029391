-------------------------- MODULE VerificationProofs --------------------------
(***************************************************************************)
(* Proofs about Verification for every set of items, every number of       *)
(* overlapping decisions and every history: type correctness, and what a   *)
(* submitted session, a selected value, a verdict and the audit log are    *)
(* worth although no commit compares the lock version again.               *)
(***************************************************************************)
EXTENDS Verification, SequenceTheorems, FiniteSetTheorems, TLAPS

USE DEF tables, uploadTables, extractionTables, reviewTables

\* Every column and every request in flight keeps its type.
LEMMA ReviewTypesInit == ReviewableInit /\ VerificationInit => VerificationTypesOK
<1> SUFFICES ASSUME ReviewableInit, VerificationInit PROVE VerificationTypesOK
  OBVIOUS
<1>1. PICK batch \in Batch : extractions = <<batch>>
  BY DEF ReviewableInit
<1>2. extractions \in Seq(Batch)
  BY <1>1
<1>3. values \in [Items -> Seq(MarkValue)]
  <2>1. ASSUME NEW i \in Items PROVE AiValues(batch)[i] \in Seq(MarkValue)
    <3>1. CASE batch[i] = NoMark
      BY <3>1 DEF AiValues
    <3>2. CASE batch[i] # NoMark
      <4>1. [value |-> batch[i], source |-> "AI"] \in MarkValue
        BY <3>2, AiMarksAssumption DEF Batch, MarkValue
      <4> QED BY <3>2, <4>1 DEF AiValues
    <3> QED BY <3>1, <3>2
  <2>2. values = AiValues(batch)
    BY <1>1 DEF ReviewableInit
  <2> QED BY <2>1, <2>2 DEF AiValues
<1>4. request \in [Requests -> Request]
  BY DEF VerificationInit, NoRequest, Request, SessionOp, RequestPhase
<1> QED
  BY <1>2, <1>3, <1>4 DEF ReviewableInit, VerificationTypesOK, DbTypeOK,
     VerificationTypeOK, SheetStatuses, Session, SessionStatuses, Verdicts

\* A review that is being handled names an item and a mark, never "all".
LEMMA ReviewNamesItem ==
  ASSUME VerificationTypesOK, NEW q \in Requests, request[q].op = "review"
  PROVE  request[q].item \in Items /\ request[q].mark \in Nat
<1>1. request[q] \in Request
  BY DEF VerificationTypesOK, VerificationTypeOK
<1>2. CASE request[q] \in Review
  BY <1>2, MarksAssumption DEF Review
<1>3. CASE request[q] \in SessionOp
  BY <1>3 DEF SessionOp
<1> QED
  BY <1>1, <1>2, <1>3 DEF Request

\* Every step of every handler writes rows of the types the schema declares.
LEMMA ReviewTypesNext ==
  VerificationTypesOK /\ [VerificationNext]_verificationVars
    => VerificationTypesOK'
<1> SUFFICES ASSUME VerificationTypesOK, [VerificationNext]_verificationVars
             PROVE  VerificationTypesOK'
  OBVIOUS
<1> USE DEF VerificationTypesOK, VerificationTypeOK, DbTypeOK
<1>1. ASSUME NEW q \in Requests, CheckReview(q) \/ CheckSubmit(q) \/ CheckApprove(q)
      PROVE  VerificationTypesOK'
  <2>1. ASSUME NEW op, NEW item, NEW mark, Checked(q, op, item, mark),
               [phase |-> "checked", op |-> op, item |-> item, mark |-> mark,
                base |-> session.lockVersion] \in Request
        PROVE  VerificationTypesOK'
    BY <2>1 DEF Checked
  <2>2. CASE CheckReview(q)
    <3>1. PICK i \in Items, m \in Marks : Checked(q, "review", i, m)
      BY <2>2 DEF CheckReview
    <3> QED BY <2>1, <3>1 DEF Request, Review, RequestPhase, Session
  <2>3. CASE CheckSubmit(q) \/ CheckApprove(q)
    BY <2>1, <2>3 DEF CheckSubmit, CheckApprove, Request, SessionOp, RequestPhase, Session
  <2> QED BY <1>1, <2>2, <2>3
<1>2. ASSUME NEW q \in Requests, LoadItem(q) \/ LoadItems(q) \/ Abort(q)
      PROVE  VerificationTypesOK'
  <2>1. DbTypeOK'
    BY <1>2 DEF LoadItem, LoadItems, Abort
  <2>2. CASE LoadItem(q) \/ LoadItems(q)
    <3>1. [request[q] EXCEPT !.phase = "loaded"] \in Request
      BY DEF Request, Review, SessionOp, RequestPhase
    <3>2. request' = [request EXCEPT ![q] = [request[q] EXCEPT !.phase = "loaded"]]
      BY <2>2 DEF LoadItem, LoadItems
    <3> QED BY <2>1, <3>1, <3>2
  <2>3. CASE Abort(q)
    BY <2>1, <2>3 DEF Abort, NoRequest, Request, SessionOp, RequestPhase
  <2> QED BY <1>2, <2>2, <2>3
<1>3. NoRequest \in Request
  BY DEF NoRequest, Request, SessionOp, RequestPhase
<1>4. ASSUME NEW q \in Requests, NEW op, Committing(q, op)
      PROVE  VerificationTypeOK'
  BY <1>3, <1>4 DEF Committing
<1>5. ASSUME NEW s \in SessionStatuses, SessionBecomes(s) PROVE session' \in Session
  BY <1>5 DEF SessionBecomes, Session
<1>6. ASSUME NEW action \in AuditActions, NEW entity \in AuditEntities,
             NEW new \in Nat, Audited(action, entity, new)
      PROVE  audit' \in Seq(AuditRow)
  BY <1>6 DEF Audited, AuditRow
<1>7. ASSUME NEW q \in Requests, CommitReview(q) PROVE VerificationTypesOK'
  <2> DEFINE i == request[q].item
             row == [value |-> request[q].mark, source |-> "REVIEWER"]
             id == Len(values[i]) + 1
  <2>1. i \in Items /\ request[q].mark \in Nat
    BY <1>7, ReviewNamesItem DEF CommitReview, Committing
  <2>2. row \in MarkValue /\ values[i] \in Seq(MarkValue) /\ id \in Nat
    <3>1. values[i] \in Seq(MarkValue)
      BY <2>1
    <3>2. Len(values[i]) \in Nat
      BY <3>1
    <3> QED BY <2>1, <3>1, <3>2 DEF MarkValue
  <2>3. values' \in [Items -> Seq(MarkValue)]
    BY <1>7, <2>1, <2>2 DEF CommitReview, WithValue, ReviewerValue
  <2>4. selected' \in [Items -> Nat] /\ verdict' \in [Items -> Verdicts]
    BY <1>7, <2>1, <2>2 DEF CommitReview, Select, Verdicts
  <2>5. session' \in Session
    BY <1>7, <1>5 DEF CommitReview, Session
  <2>6. audit' \in Seq(AuditRow)
    BY <1>7, <1>6, <2>1, <2>2 DEF CommitReview, AuditActions, AuditEntities
  <2>7. VerificationTypeOK'
    BY <1>7, <1>4 DEF CommitReview
  <2> QED BY <1>7, <2>3, <2>4, <2>5, <2>6, <2>7 DEF CommitReview
<1>8. ASSUME NEW q \in Requests, CommitSubmit(q) PROVE VerificationTypesOK'
  BY <1>8, <1>4, <1>5, <1>6 DEF CommitSubmit, SessionStatuses, AuditActions,
     AuditEntities
<1>9. ASSUME NEW q \in Requests, CommitApprove(q) PROVE VerificationTypesOK'
  BY <1>9, <1>4, <1>5, <1>6 DEF CommitApprove, SessionStatuses, AuditActions,
     AuditEntities, Verdicts, SheetStatuses
<1>10. CASE UNCHANGED verificationVars
  BY <1>10 DEF verificationVars
<1> QED
  BY <1>1, <1>2, <1>7, <1>8, <1>9, <1>10 DEF VerificationNext

\* However decisions overlap, the rows and the requests keep their types: the
\* base every other proof about review stands on.
THEOREM ReviewIsTyped == VerificationSpec => []VerificationTypesOK
  BY ReviewTypesInit, ReviewTypesNext, PTL DEF VerificationSpec, ReviewInit

----------------------------------------------------------------------------
(* Decisions on stale reads.  A commit relies on what its request read one *)
(* step earlier; what it read is still true because no decision ever takes *)
(* a selection back and the maximum of an item never changes.              *)

LoadedIsChecked ==
  \A q \in Requests : request[q].phase = "loaded" =>
    /\ request[q].op = "review" => request[q].mark <= MaxMark[request[q].item]
    /\ request[q].op \in {"submit", "approve"} => AllSelected

ReviewInv ==
  /\ VerificationTypesOK
  /\ LoadedIsChecked
  /\ SubmittedIsComplete
  /\ SelectionIsReviewed
  /\ VerdictsFollowSelection

\* What reading leaves alone: the properties about rows only.
LEMMA ReadingKeepsRows ==
  ReviewInv /\ UNCHANGED tables
    => (SubmittedIsComplete /\ SelectionIsReviewed /\ VerdictsFollowSelection)'
BY DEF ReviewInv, SubmittedIsComplete, SelectionIsReviewed,
   VerdictsFollowSelection, AllSelected, extractedMark

LEMMA ReviewInvInit == ReviewableInit /\ VerificationInit => ReviewInv
<1> SUFFICES ASSUME ReviewableInit, VerificationInit PROVE ReviewInv
  OBVIOUS
<1>1. \A i \in Items : selected[i] = 0 /\ verdict[i] = "IN_REVIEW"
  BY DEF ReviewableInit
<1>2. LoadedIsChecked
  BY DEF VerificationInit, NoRequest, LoadedIsChecked
<1>3. SubmittedIsComplete
  BY DEF ReviewableInit, SubmittedIsComplete
<1> QED
  BY ReviewTypesInit, <1>1, <1>2, <1>3 DEF ReviewInv, SelectionIsReviewed,
     VerdictsFollowSelection

LEMMA ReviewInvNext ==
  ReviewInv /\ [VerificationNext]_verificationVars => ReviewInv'
<1> SUFFICES ASSUME ReviewInv, [VerificationNext]_verificationVars
             PROVE  ReviewInv'
  OBVIOUS
<1>1. VerificationTypesOK /\ VerificationTypesOK'
  BY ReviewTypesNext DEF ReviewInv
\* A request that is not loaded now was not loaded by this step.
<1>2. ASSUME UNCHANGED tables,
             \A q \in Requests : request'[q].phase = "loaded" =>
               request'[q] = request[q] /\ request[q].phase = "loaded"
      PROVE  ReviewInv'
  <2>1. LoadedIsChecked'
    BY <1>2 DEF ReviewInv, LoadedIsChecked, AllSelected
  <2> QED BY <1>1, <1>2, <2>1, ReadingKeepsRows DEF ReviewInv
<1>3. ASSUME NEW q \in Requests, CheckReview(q) \/ CheckSubmit(q) \/ CheckApprove(q)
      PROVE  ReviewInv'
  <2>1. ASSUME NEW op, NEW item, NEW mark, Checked(q, op, item, mark)
        PROVE  ReviewInv'
    BY <1>1, <1>2, <2>1 DEF Checked, VerificationTypesOK, VerificationTypeOK
  <2> QED BY <1>3, <2>1 DEF CheckReview, CheckSubmit, CheckApprove
<1>4. ASSUME NEW q \in Requests, LoadItem(q) PROVE ReviewInv'
  <2>1. LoadedIsChecked'
    BY <1>1, <1>4 DEF LoadItem, ReviewInv, LoadedIsChecked, AllSelected,
       VerificationTypesOK, VerificationTypeOK
  <2> QED BY <1>1, <1>4, <2>1, ReadingKeepsRows DEF LoadItem, ReviewInv
<1>5. ASSUME NEW q \in Requests, LoadItems(q) PROVE ReviewInv'
  <2>1. LoadedIsChecked'
    BY <1>1, <1>5 DEF LoadItems, ReviewInv, LoadedIsChecked, AllSelected,
       VerificationTypesOK, VerificationTypeOK
  <2> QED BY <1>1, <1>5, <2>1, ReadingKeepsRows DEF LoadItems, ReviewInv
<1>6. ASSUME NEW q \in Requests, Abort(q) PROVE ReviewInv'
  BY <1>1, <1>2, <1>6 DEF Abort, NoRequest, VerificationTypesOK, VerificationTypeOK
\* A commit that takes no selection back keeps what the others have read.
<1>7. ASSUME NEW q \in Requests, NEW op, Committing(q, op),
             \A i \in Items : selected[i] # 0 => selected'[i] # 0
      PROVE  LoadedIsChecked'
  BY <1>1, <1>7 DEF Committing, NoRequest, ReviewInv, LoadedIsChecked,
     AllSelected, VerificationTypesOK, VerificationTypeOK
<1>8. ASSUME NEW q \in Requests, CommitReview(q) PROVE ReviewInv'
  <2> DEFINE i == request[q].item
             mark == request[q].mark
             id == Len(values[i]) + 1
             row == [value |-> mark, source |-> "REVIEWER"]
             outcome == IF Unchanged(i, mark) THEN "VERIFIED" ELSE "CORRECTED"
  <2>1. i \in Items /\ mark \in Nat
    BY <1>1, <1>8, ReviewNamesItem DEF CommitReview, Committing
  <2>2. mark <= MaxMark[i]
    BY <1>8 DEF CommitReview, Committing, ReviewInv, LoadedIsChecked
  <2>3. values[i] \in Seq(MarkValue) /\ values \in [Items -> Seq(MarkValue)]
        /\ selected \in [Items -> Nat] /\ verdict \in [Items -> Verdicts]
    BY <1>1, <2>1 DEF VerificationTypesOK, DbTypeOK
  <2>4. row \in MarkValue /\ Len(values[i]) \in Nat
    BY <2>1, <2>3 DEF MarkValue
  <2>5. /\ values' = [values EXCEPT ![i] = Append(values[i], row)]
        /\ selected' = [selected EXCEPT ![i] = id]
        /\ verdict' = [verdict EXCEPT ![i] = outcome]
        /\ UNCHANGED extractions
        /\ session'.status = session.status
    BY <1>8, <2>1, <2>3 DEF CommitReview, SessionBecomes, WithValue, Select,
       ReviewerValue
  <2>6. /\ selected'[i] = id /\ id # 0 /\ verdict'[i] = outcome
        /\ values'[i] = Append(values[i], row)
        /\ id \in DOMAIN values'[i] /\ values'[i][id] = row
    <3>1. Len(Append(values[i], row)) = id /\ Append(values[i], row)[id] = row
          /\ DOMAIN Append(values[i], row) = 1..id
      BY <2>3, <2>4
    <3> QED BY <2>1, <2>3, <2>4, <2>5, <3>1
  <2>7. \A j \in Items \ {i} : /\ selected'[j] = selected[j]
                              /\ verdict'[j] = verdict[j]
                              /\ values'[j] = values[j]
    BY <2>1, <2>3, <2>5
  <2>8. SubmittedIsComplete'
    BY <2>5, <2>6, <2>7 DEF ReviewInv, SubmittedIsComplete, AllSelected
  <2>9. SelectionIsReviewed'
    BY <2>2, <2>6, <2>7 DEF ReviewInv, SelectionIsReviewed
  <2>10. VerdictsFollowSelection'
    <3>1. extractedMark' = extractedMark
      BY <2>5 DEF extractedMark
    <3>2. outcome = "CORRECTED" => mark # extractedMark[i]
      BY DEF Unchanged
    <3> QED BY <2>6, <2>7, <3>1, <3>2 DEF ReviewInv, VerdictsFollowSelection
  <2>11. LoadedIsChecked'
    BY <1>7, <1>8, <2>6, <2>7 DEF CommitReview
  <2> QED BY <1>1, <2>8, <2>9, <2>10, <2>11 DEF ReviewInv
<1>9. ASSUME NEW q \in Requests, CommitSubmit(q) PROVE ReviewInv'
  <2>1. AllSelected /\ UNCHANGED <<values, selected, verdict, extractions>>
    BY <1>9 DEF CommitSubmit, Committing, ReviewInv, LoadedIsChecked
  <2>2. LoadedIsChecked'
    BY <1>7, <1>9, <2>1 DEF CommitSubmit
  <2> QED
    BY <1>1, <2>1, <2>2 DEF ReviewInv, SubmittedIsComplete, AllSelected,
       SelectionIsReviewed, VerdictsFollowSelection, extractedMark
<1>10. ASSUME NEW q \in Requests, CommitApprove(q) PROVE ReviewInv'
  <2>1. AllSelected /\ UNCHANGED <<values, selected, extractions>>
    BY <1>10 DEF CommitApprove, Committing, ReviewInv, LoadedIsChecked
  <2>2. \A i \in Items : verdict'[i] = "VERIFIED"
    BY <1>10 DEF CommitApprove
  <2>3. LoadedIsChecked'
    BY <1>7, <1>10, <2>1 DEF CommitApprove
  <2> QED
    BY <1>1, <2>1, <2>2, <2>3 DEF ReviewInv, SubmittedIsComplete, AllSelected,
       SelectionIsReviewed, VerdictsFollowSelection
<1>11. CASE UNCHANGED verificationVars
  BY <1>1, <1>2, <1>11 DEF verificationVars
<1> QED
  BY <1>3, <1>4, <1>5, <1>6, <1>8, <1>9, <1>10, <1>11 DEF VerificationNext

\* A session is SUBMITTED or APPROVED only with a selected value for every
\* item, although submit and approve read the items before they commit.
THEOREM SubmittedSheetsAreComplete == VerificationSpec => []SubmittedIsComplete
<1>1. ReviewInv => SubmittedIsComplete
  BY DEF ReviewInv
<1> QED BY ReviewInvInit, ReviewInvNext, <1>1, PTL DEF VerificationSpec, ReviewInit

\* The value that counts for an item was written by a reviewer and is within
\* the item's maximum, whatever the recognizer reported.
THEOREM SelectedMarksAreReviewed == VerificationSpec => []SelectionIsReviewed
<1>1. ReviewInv => SelectionIsReviewed
  BY DEF ReviewInv
<1> QED BY ReviewInvInit, ReviewInvNext, <1>1, PTL DEF VerificationSpec, ReviewInit

\* A verdict rests on a selected value; CORRECTED means that this value is
\* not what the recognizer read.
THEOREM VerdictsAreEarned == VerificationSpec => []VerdictsFollowSelection
<1>1. ReviewInv => VerdictsFollowSelection
  BY DEF ReviewInv
<1> QED BY ReviewInvInit, ReviewInvNext, <1>1, PTL DEF VerificationSpec, ReviewInit

----------------------------------------------------------------------------
(* The audit log and the lock version as records of review: the version    *)
(* counts every decision, the last row about an item explains its mark,    *)
(* and an approval has a complete review before it.                        *)

Submissions == {k \in DOMAIN audit : audit[k].action = "VERIFICATION_SUBMITTED"}

SubmissionsFollowMarks ==
  \A s \in Submissions : \A i \in Items : \E m \in MarkRows[i] : m < s

\* A session left OPEN, and an approval found it, after a logged submission.
SubmissionIsLogged ==
  /\ session.status \in {"SUBMITTED", "APPROVED"} => Submissions # {}
  /\ \A q \in Requests : request[q].op = "approve" => Submissions # {}

AuditInv ==
  /\ ReviewInv
  /\ LockVersionCountsDecisions
  /\ AuditExplainsSelection
  /\ SubmissionsFollowMarks
  /\ SubmissionIsLogged
  /\ ApprovalFollowsReview

LogGrew ==
  /\ Len(audit) + 1 \in Nat
  /\ DOMAIN audit = 1..Len(audit)
  /\ DOMAIN audit' = 1..(Len(audit) + 1)
  /\ \A k \in 1..Len(audit) : audit'[k] = audit[k]
NewRow == audit'[Len(audit) + 1]

\* A commit adds one row at the end and leaves the others where they are.
LEMMA LogGrows ==
  ASSUME VerificationTypesOK, NEW action \in AuditActions,
         NEW entity \in AuditEntities, NEW new \in Nat,
         Audited(action, entity, new)
  PROVE  LogGrew /\ NewRow = [action |-> action, entity |-> entity, new |-> new]
<1> DEFINE row == [action |-> action, entity |-> entity, new |-> new]
<1>1. audit \in Seq(AuditRow) /\ row \in AuditRow
  BY DEF VerificationTypesOK, DbTypeOK, AuditRow
<1>2. audit' = Append(audit, row)
  BY DEF Audited
<1> QED BY <1>1, <1>2 DEF LogGrew, NewRow

\* Every decision adds one to the version and one decision to the log.
LEMMA VersionCounts ==
  ASSUME VerificationTypesOK, LockVersionCountsDecisions,
         NEW action \in Decisions, NEW entity \in AuditEntities, NEW new \in Nat,
         Audited(action, entity, new), NEW s, SessionBecomes(s)
  PROVE  LockVersionCountsDecisions'
<1>1. action \in AuditActions
  BY DEF Decisions, AuditActions
<1>2. LogGrew /\ NewRow.action = action
  BY <1>1, LogGrows
<1>3. DecisionRows' = DecisionRows \cup {Len(audit) + 1} /\ Len(audit) + 1 \notin DecisionRows
  BY <1>2 DEF DecisionRows, LogGrew, NewRow, Decisions
<1>4. IsFiniteSet(DecisionRows)
  <2>1. DecisionRows \subseteq 1..Len(audit) /\ IsFiniteSet(1..Len(audit))
    BY <1>2, FS_Interval DEF DecisionRows, LogGrew
  <2> QED BY <2>1, FS_Subset
<1>5. Cardinality(DecisionRows') = Cardinality(DecisionRows) + 1
  BY <1>3, <1>4, FS_AddElement
<1> QED BY <1>5 DEF LockVersionCountsDecisions, SessionBecomes

\* A row about the session is not a row about an item's mark.
LEMMA MarkRowsKept ==
  ASSUME VerificationTypesOK, NEW action \in AuditActions,
         action \notin {"MARK_VERIFIED", "MARK_CORRECTED"},
         Audited(action, "sheet", 0), NEW i \in Items
  PROVE  /\ MarkRows'[i] = MarkRows[i]
         /\ \A k \in MarkRows[i] : audit'[k] = audit[k]
<1>1. LogGrew /\ NewRow.action = action
  BY LogGrows DEF AuditEntities
<1> QED BY <1>1 DEF MarkRows, LogGrew, NewRow

LEMMA AuditInvInit == ReviewableInit /\ VerificationInit => AuditInv
<1> SUFFICES ASSUME ReviewableInit, VerificationInit PROVE AuditInv
  OBVIOUS
<1>1. ReviewInv
  BY ReviewInvInit
<1>2. /\ DOMAIN audit = {} /\ session.lockVersion = 0 /\ session.status = "OPEN"
      /\ \A i \in Items : selected[i] = 0
      /\ \A q \in Requests : request[q].op = "none"
  BY DEF ReviewableInit, VerificationInit, NoRequest
<1>3. LockVersionCountsDecisions
  <2>1. DecisionRows = {}
    BY <1>2 DEF DecisionRows, LogGrew, NewRow, Decisions
  <2> QED BY <1>2, <2>1, FS_EmptySet DEF LockVersionCountsDecisions
<1>4. AuditExplainsSelection
  BY <1>2 DEF AuditExplainsSelection, MarkRows
<1>5. SubmissionsFollowMarks /\ SubmissionIsLogged /\ ApprovalFollowsReview
  BY <1>2 DEF SubmissionsFollowMarks, SubmissionIsLogged, Submissions,
     ApprovalFollowsReview
<1> QED BY <1>1, <1>3, <1>4, <1>5 DEF AuditInv

\* Steps that write no row keep the log and all that it says.
LEMMA ReadingKeepsLog ==
  ASSUME AuditInv, ReviewInv', UNCHANGED tables,
         \A q \in Requests : request'[q].op = "approve" => Submissions # {}
  PROVE  AuditInv'
<1>1. LockVersionCountsDecisions'
  BY DEF AuditInv, LockVersionCountsDecisions, DecisionRows
<1>2. AuditExplainsSelection'
  BY DEF AuditInv, AuditExplainsSelection, MarkRows
<1>3. SubmissionsFollowMarks' /\ SubmissionIsLogged' /\ ApprovalFollowsReview'
  BY DEF AuditInv, SubmissionsFollowMarks, SubmissionIsLogged, Submissions,
     ApprovalFollowsReview, MarkRows
<1> QED BY <1>1, <1>2, <1>3 DEF AuditInv

\* The next decision, whichever it is and whatever it was based on, is
\* counted, explained and in its place in the order of the log.
LEMMA AuditInvNext ==
  AuditInv /\ [VerificationNext]_verificationVars => AuditInv'
<1> SUFFICES ASSUME AuditInv, [VerificationNext]_verificationVars
             PROVE  AuditInv'
  OBVIOUS
<1>1. ReviewInv /\ ReviewInv' /\ VerificationTypesOK /\ VerificationTypesOK'
  BY ReviewInvNext DEF AuditInv, ReviewInv
<1>2. ASSUME NEW q \in Requests, CheckReview(q) \/ CheckSubmit(q) \/ CheckApprove(q)
      PROVE  AuditInv'
  <2>1. ASSUME NEW op, NEW item, NEW mark, Checked(q, op, item, mark),
               op = "approve" => Submissions # {}
        PROVE  AuditInv'
    BY <1>1, <2>1, ReadingKeepsLog DEF Checked, AuditInv, SubmissionIsLogged,
       VerificationTypesOK, VerificationTypeOK
  <2>2. CheckApprove(q) => Submissions # {}
    BY DEF CheckApprove, AuditInv, SubmissionIsLogged
  <2> QED BY <1>2, <2>1, <2>2 DEF CheckReview, CheckSubmit, CheckApprove
<1>3. ASSUME NEW q \in Requests, LoadItem(q) \/ LoadItems(q) \/ Abort(q)
      PROVE  AuditInv'
  <2>1. \A p \in Requests : request'[p].op \in {request[p].op, "none"}
    <3>1. CASE LoadItem(q) \/ LoadItems(q)
      <4>1. request' = [request EXCEPT ![q] = [request[q] EXCEPT !.phase = "loaded"]]
        BY <3>1 DEF LoadItem, LoadItems
      <4>2. [request[q] EXCEPT !.phase = "loaded"].op = request[q].op
        BY <1>1 DEF VerificationTypesOK, VerificationTypeOK, Request, Review, SessionOp
      <4> QED BY <1>1, <4>1, <4>2 DEF VerificationTypesOK, VerificationTypeOK
    <3>2. CASE Abort(q)
      BY <1>1, <3>2 DEF Abort, NoRequest, VerificationTypesOK, VerificationTypeOK
    <3> QED BY <1>3, <3>1, <3>2
  <2> QED
    BY <1>1, <1>3, <2>1, ReadingKeepsLog DEF LoadItem, LoadItems, Abort,
       AuditInv, SubmissionIsLogged
<1>4. ASSUME NEW q \in Requests, NEW op, Committing(q, op)
      PROVE  \A p \in Requests : request'[p].op = "approve" =>
                                  request[p].op = "approve"
  BY <1>1, <1>4 DEF Committing, NoRequest, VerificationTypesOK, VerificationTypeOK
<1>5. ASSUME NEW q \in Requests, CommitReview(q) PROVE AuditInv'
  <2> DEFINE i == request[q].item
             id == Len(values[i]) + 1
  <2>1. PICK action \in {"MARK_VERIFIED", "MARK_CORRECTED"} : Audited(action, i, id)
    BY <1>5 DEF CommitReview
  <2>2. i \in Items /\ id \in Nat /\ id # 0
    <3>1. i \in Items
      BY <1>1, <1>5, ReviewNamesItem DEF CommitReview, Committing
    <3>2. values[i] \in Seq(MarkValue)
      BY <1>1, <3>1 DEF VerificationTypesOK, DbTypeOK
    <3> QED BY <3>1, <3>2
  <2>3. action \in AuditActions /\ action \in Decisions /\ i \in AuditEntities
    BY <2>1, <2>2 DEF AuditActions, Decisions, AuditEntities
  <2>4. LogGrew /\ NewRow = [action |-> action, entity |-> i, new |-> id]
    BY <1>1, <2>1, <2>2, <2>3, LogGrows
  <2>5. selected'[i] = id /\ \A j \in Items \ {i} : selected'[j] = selected[j]
    BY <1>1, <1>5, <2>2 DEF CommitReview, Select, VerificationTypesOK, DbTypeOK
  <2>6. /\ MarkRows'[i] = MarkRows[i] \cup {Len(audit) + 1}
        /\ \A j \in Items \ {i} : MarkRows'[j] = MarkRows[j]
    BY <2>1, <2>2, <2>4 DEF MarkRows, LogGrew, NewRow
  <2>7. LockVersionCountsDecisions'
    <3>1. SessionBecomes(session.status)
      BY <1>5 DEF CommitReview
    <3> QED BY <1>1, <2>1, <2>2, <2>3, <3>1, VersionCounts DEF AuditInv
  <2>8. AuditExplainsSelection'
    <3>1. ASSUME NEW j \in Items, j # i
          PROVE  /\ selected'[j] = 0 <=> MarkRows'[j] = {}
                 /\ \A k \in MarkRows'[j] : (\A m \in MarkRows'[j] : m <= k)
                      => audit'[k].new = selected'[j]
      <4>1. \A k \in MarkRows[j] : audit'[k] = audit[k]
        BY <2>4 DEF MarkRows, LogGrew
      <4> QED BY <2>5, <2>6, <3>1, <4>1 DEF AuditInv, AuditExplainsSelection
    <3>2. ASSUME NEW k \in MarkRows'[i], \A m \in MarkRows'[i] : m <= k
          PROVE  audit'[k].new = selected'[i]
      <4>1. k = Len(audit) + 1
        <5>1. k \in 1..(Len(audit) + 1) /\ Len(audit) + 1 <= k
          BY <2>2, <2>4, <2>6, <3>2 DEF MarkRows, LogGrew
        <5> QED BY <2>4, <5>1 DEF LogGrew
      <4> QED BY <2>4, <2>5, <4>1 DEF NewRow
    <3> QED BY <2>2, <2>5, <2>6, <3>1, <3>2 DEF AuditExplainsSelection
  <2>9. Submissions' = Submissions
    BY <2>1, <2>4 DEF Submissions, LogGrew, NewRow
  <2>10. SubmissionsFollowMarks'
    BY <2>6, <2>9 DEF AuditInv, SubmissionsFollowMarks
  <2>11. SubmissionIsLogged'
    BY <1>4, <1>5, <2>9 DEF CommitReview, SessionBecomes, AuditInv, SubmissionIsLogged
  <2>12. ApprovalFollowsReview'
    <3>1. ASSUME NEW k \in DOMAIN audit', audit'[k].action = "VERIFICATION_APPROVED"
          PROVE  k \in DOMAIN audit /\ audit[k].action = "VERIFICATION_APPROVED"
      BY <2>1, <2>4, <3>1 DEF LogGrew, NewRow
    <3>2. ASSUME NEW k \in DOMAIN audit, NEW s \in 1..(k - 1)
          PROVE  audit'[s] = audit[s]
      BY <2>4 DEF LogGrew
    <3> QED BY <2>6, <3>1, <3>2 DEF AuditInv, ApprovalFollowsReview
  <2> QED
    BY <1>1, <2>7, <2>8, <2>10, <2>11, <2>12 DEF AuditInv
\* What the two decisions about the whole session have in common.
<1>6. ASSUME NEW q \in Requests,
             NEW action \in {"VERIFICATION_SUBMITTED", "VERIFICATION_APPROVED"},
             Audited(action, "sheet", 0), NEW s, SessionBecomes(s),
             UNCHANGED selected
      PROVE  /\ LockVersionCountsDecisions' /\ AuditExplainsSelection'
             /\ \A i \in Items : MarkRows'[i] = MarkRows[i]
  <2>1. action \in AuditActions /\ action \in Decisions /\ "sheet" \in AuditEntities
    BY DEF AuditActions, Decisions, AuditEntities
  <2>2. \A i \in Items : /\ MarkRows'[i] = MarkRows[i]
                        /\ \A k \in MarkRows[i] : audit'[k] = audit[k]
    BY <1>1, <1>6, <2>1, MarkRowsKept
  <2>3. AuditExplainsSelection'
    BY <1>6, <2>2 DEF AuditInv, AuditExplainsSelection
  <2>4. LockVersionCountsDecisions'
    BY <1>1, <1>6, <2>1, VersionCounts DEF AuditInv
  <2> QED BY <2>2, <2>3, <2>4
<1>7. ASSUME NEW q \in Requests, CommitSubmit(q) PROVE AuditInv'
  <2>1. /\ LockVersionCountsDecisions' /\ AuditExplainsSelection'
        /\ \A i \in Items : MarkRows'[i] = MarkRows[i]
    BY <1>6, <1>7 DEF CommitSubmit
  <2>2. LogGrew /\ NewRow.action = "VERIFICATION_SUBMITTED"
    <3>1. Audited("VERIFICATION_SUBMITTED", "sheet", 0)
      BY <1>7 DEF CommitSubmit
    <3>2. "VERIFICATION_SUBMITTED" \in AuditActions /\ "sheet" \in AuditEntities
      BY DEF AuditActions, AuditEntities
    <3> QED BY <1>1, <3>1, <3>2, LogGrows
  <2>3. Submissions' = Submissions \cup {Len(audit) + 1}
    BY <2>2 DEF Submissions, LogGrew, NewRow
  <2>4. \A i \in Items : \E m \in MarkRows[i] : m <= Len(audit)
    <3>1. AllSelected
      BY <1>1, <1>7 DEF CommitSubmit, Committing, ReviewInv, LoadedIsChecked
    <3>2. \A i \in Items : MarkRows[i] # {} /\ MarkRows[i] \subseteq 1..Len(audit)
      BY <2>2, <3>1 DEF AllSelected, AuditInv, AuditExplainsSelection, MarkRows,
         LogGrew
    <3> QED BY <2>2, <3>2 DEF LogGrew
  <2>5. SubmissionsFollowMarks'
    <3>1. \A i \in Items : \E m \in MarkRows[i] : m < Len(audit) + 1
      <4>1. \A i \in Items : MarkRows[i] \subseteq Nat
        BY <2>2 DEF MarkRows, LogGrew
      <4>2. Len(audit) \in Nat
        BY <1>1 DEF VerificationTypesOK, DbTypeOK
      <4> QED BY <2>4, <4>1, <4>2
    <3> QED BY <2>1, <2>3, <3>1 DEF AuditInv, SubmissionsFollowMarks
  <2>6. SubmissionIsLogged'
    BY <2>3 DEF SubmissionIsLogged
  <2>7. ApprovalFollowsReview'
    <3>1. ASSUME NEW k \in DOMAIN audit', audit'[k].action = "VERIFICATION_APPROVED"
          PROVE  k \in DOMAIN audit /\ audit[k].action = "VERIFICATION_APPROVED"
      BY <2>2, <3>1 DEF LogGrew, NewRow
    <3>2. ASSUME NEW k \in DOMAIN audit, NEW s \in 1..(k - 1)
          PROVE  audit'[s] = audit[s]
      BY <2>2 DEF LogGrew
    <3> QED BY <2>1, <3>1, <3>2 DEF AuditInv, ApprovalFollowsReview
  <2> QED BY <1>1, <2>1, <2>5, <2>6, <2>7 DEF AuditInv
<1>8. ASSUME NEW q \in Requests, CommitApprove(q) PROVE AuditInv'
  <2>1. /\ LockVersionCountsDecisions' /\ AuditExplainsSelection'
        /\ \A i \in Items : MarkRows'[i] = MarkRows[i]
    BY <1>6, <1>8 DEF CommitApprove
  <2>2. LogGrew /\ NewRow.action = "VERIFICATION_APPROVED"
    <3>1. Audited("VERIFICATION_APPROVED", "sheet", 0)
      BY <1>8 DEF CommitApprove
    <3>2. "VERIFICATION_APPROVED" \in AuditActions /\ "sheet" \in AuditEntities
      BY DEF AuditActions, AuditEntities
    <3> QED BY <1>1, <3>1, <3>2, LogGrows
  <2>3. Submissions' = Submissions
    BY <2>2 DEF Submissions, LogGrew, NewRow
  <2>4. PICK t \in Submissions : TRUE
    BY <1>8 DEF CommitApprove, Committing, AuditInv, SubmissionIsLogged
  <2>5. SubmissionsFollowMarks'
    BY <2>1, <2>3 DEF AuditInv, SubmissionsFollowMarks
  <2>6. SubmissionIsLogged'
    BY <2>3, <2>4 DEF SubmissionIsLogged
  <2>7. ApprovalFollowsReview'
    <3>1. ASSUME NEW k \in DOMAIN audit', audit'[k].action = "VERIFICATION_APPROVED",
                 k # Len(audit) + 1
          PROVE  k \in DOMAIN audit /\ audit[k].action = "VERIFICATION_APPROVED"
      BY <2>2, <3>1 DEF LogGrew, NewRow
    <3>2. ASSUME NEW k \in DOMAIN audit, NEW s \in 1..(k - 1)
          PROVE  audit'[s] = audit[s]
      BY <2>2 DEF LogGrew
    <3>3. /\ t \in 1..Len(audit) /\ audit'[t].action = "VERIFICATION_SUBMITTED"
          /\ \A i \in Items : \E m \in MarkRows'[i] : m < t
      BY <2>1, <2>2, <2>4 DEF AuditInv, SubmissionsFollowMarks, Submissions,
         LogGrew
    <3> QED BY <2>1, <2>2, <3>1, <3>2, <3>3 DEF AuditInv, ApprovalFollowsReview, LogGrew
  <2> QED BY <1>1, <2>1, <2>5, <2>6, <2>7 DEF AuditInv
<1>9. CASE UNCHANGED verificationVars
  BY <1>1, <1>9, ReadingKeepsLog DEF verificationVars, AuditInv, SubmissionIsLogged
<1> QED
  BY <1>2, <1>3, <1>5, <1>7, <1>8, <1>9 DEF VerificationNext

\* A client that polls lockVersion misses no decision: overlapping commits
\* are counted one by one, for the database increments the version.
THEOREM NoDecisionIsLost == VerificationSpec => []LockVersionCountsDecisions
<1>1. AuditInv => LockVersionCountsDecisions
  BY DEF AuditInv
<1> QED BY AuditInvInit, AuditInvNext, <1>1, PTL DEF VerificationSpec, ReviewInit

\* The last audit row about an item names the value selected for it, in
\* whatever order overlapping reviews of the item were committed.
THEOREM AuditLogExplainsMarks == VerificationSpec => []AuditExplainsSelection
<1>1. AuditInv => AuditExplainsSelection
  BY DEF AuditInv
<1> QED BY AuditInvInit, AuditInvNext, <1>1, PTL DEF VerificationSpec, ReviewInit

\* In the audit log every approval has a submission before it, which has a
\* decision about every single item before it.
THEOREM ApprovalsFollowReviews == VerificationSpec => []ApprovalFollowsReview
<1>1. AuditInv => ApprovalFollowsReview
  BY DEF AuditInv
<1> QED BY AuditInvInit, AuditInvNext, <1>1, PTL DEF VerificationSpec, ReviewInit
================================================================================
