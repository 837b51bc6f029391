CONSTANTS
  q1 = q1
  q2 = q2
  r1 = r1
  r2 = r2
  d1 = d1
  d2 = d2
  c1 = c1
  c2 = c2
  e1 = e1
  ann = ann
  vera = vera
  NoMark = NoMark
  HandwrittenTotals <- MCNoTotal
  Items <- MCTwoItems
  MaxMark <- MCMax
  AiMarks <- MCAiMarks
  Cells <- MCTwoItems
  ManualBatches <- MCManual
  FaultKinds = {}
  MaxFaults = 0
  Runs <- MCRuns
  Requests <- MCRequests
  Reviewers <- MCReviewers
  Verifiers <- MCVerifiers
  Assignee = ann
  Marks <- MCOneMark
  MaxWrites = 5
  Calculators <- MCOneCalculator
  Required <- MCTwoItems
  PaperMaximum = 2
  MaxVersions = 2
  Exporters <- MCExporters
SPECIFICATION LifecycleSpec
SYMMETRY Symmetry
CHECK_DEADLOCK FALSE
INVARIANTS
  ResultsAreReviewed
  ExportsAreAccounted
  ExportedMarksAreReviewed
  ExportedTotalIsExplained
