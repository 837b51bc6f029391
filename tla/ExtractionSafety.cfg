CONSTANTS
  q1 = q1
  q2 = q2
  r1 = r1
  r2 = r2
  r3 = r3
  NoMark = NoMark
  HandwrittenTotals = {{}}
  Items <- MCItems
  MaxMark <- MCMaxMark
  AiMarks <- MCAiMarks
  Cells <- MCCells
  ManualBatches <- MCManual
  Runs <- MCRuns
  FaultKinds = {"upload", "claim", "ingest", "fallback", "audit", "reset", "crash"}
  MaxFaults = 3
SPECIFICATION FairSpec
INVARIANTS
  ReviewableSheetHasSession
  FallbackAuditIsTrue
  ProcessingHasHandler
PROPERTIES
  SuggestionsAreWrittenOnce
  UploadIsExtracted
  SettledReviewStays
