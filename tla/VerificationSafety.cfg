CONSTANTS
  q1 = q1
  q2 = q2
  d1 = d1
  d2 = d2
  ann = ann
  vera = vera
  zoe = zoe
  NoMark = NoMark
  HandwrittenTotals = {{}}
  Items <- MCItems
  MaxMark <- MCMaxMark
  AiMarks <- MCAiMarks
  Requests <- MCRequests
  Reviewers <- MCReviewers
  Verifiers <- MCVerifiers
  Assignee = ann
  Marks <- MCMarks
  MaxWrites = 5
SPECIFICATION VerificationSpec
SYMMETRY Symmetry
CHECK_DEADLOCK FALSE
INVARIANTS
  SubmittedIsComplete
  LockVersionCountsDecisions
  AuditExplainsSelection
  ApprovalFollowsReview
