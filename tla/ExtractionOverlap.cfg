CONSTANTS
  q1 = q1
  q2 = q2
  r1 = r1
  r2 = r2
  r3 = r3
  NoMark = NoMark
  HandwrittenTotals = {{}}
  Items <- MCItems
  MaxMark <- MCMaxMark
  AiMarks <- MCAiMarks
  Cells <- MCCells
  ManualBatches <- MCNoManual
  Runs <- MCRuns
  FaultKinds = {}
  MaxFaults = 0
SPECIFICATION Spec
INVARIANTS CompletionIsIdempotent
