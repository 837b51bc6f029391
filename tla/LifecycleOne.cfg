CONSTANTS
  q1 = q1
  q2 = q2
  r1 = r1
  r2 = r2
  d1 = d1
  d2 = d2
  c1 = c1
  c2 = c2
  e1 = e1
  ann = ann
  vera = vera
  NoMark = NoMark
  HandwrittenTotals <- MCTotals
  Items <- MCOneItem
  MaxMark <- MCMax
  AiMarks <- MCAiMarks
  Cells <- MCOneItem
  ManualBatches <- MCManual
  FaultKinds = {}
  MaxFaults = 0
  Runs <- MCRuns
  Requests <- MCRequests
  Reviewers <- MCReviewers
  Verifiers <- MCVerifiers
  Assignee = ann
  Marks <- MCMarks
  MaxWrites = 5
  Calculators <- MCCalculators
  Required <- MCOneItem
  PaperMaximum = 2
  MaxVersions = 3
  Exporters <- MCNoExporter
SPECIFICATION LifecycleSpec
SYMMETRY Symmetry
CHECK_DEADLOCK FALSE
INVARIANTS
  LifecycleTypesOK
  CompletedSheetIsReady
  CalculationIsIdempotent
  ReportsAgree
PROPERTIES
  LedgerIsImplemented
