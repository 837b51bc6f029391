CONSTANTS
  Q = Q
  a = a
  c1 = c1
  c2 = c2
  e1 = e1
  e2 = e2
  professor = professor
  offering = offering
  assignment = assignment
  NoPart = NoPart
  NoRecord = NoRecord
  Papers <- MCPapers
  Drafts <- MCDrafts
  Submissions <- MCSubmissions
  Clerks <- MCClerks
  MaxVersion = 2
  MaxCaptures = 1
  Records <- MCRecords
  Parents <- MCParents
  Accounts <- MCAccounts
  Contents <- MCContents
  Editors <- MCEditors
  MaxWrites = 4
SPECIFICATION AdministrationSpec
SYMMETRY Symmetry
CHECK_DEADLOCK FALSE
INVARIANTS
  VersionsAreNumbered
  PublishedPaperHasScheme
  PublishedOnce
  CapturesAreMarkable
  AcceptedSchemesAreComplete
  HistoryIsGapless
