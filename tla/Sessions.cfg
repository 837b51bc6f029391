SPECIFICATION Spec
CONSTANTS
  r1 = r1
  r2 = r2
  None = None
  Calls <- MCRequests
  Kinds = {"mobile", "web"}
  MaxAttempts = 1
  MaxSessions = 3
  MaxFailures = 2
  MaxVersion = 1
INVARIANTS
  OneLiveSession
  LockoutInTurn
  ReuseIsExplained
  StoredPairIsCurrent
PROPERTIES
  RevokedForGood
  SignOutIsFinal
SYMMETRY MCSymmetry
CHECK_DEADLOCK FALSE
