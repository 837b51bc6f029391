SPECIFICATION Spec
CONSTANTS
  r1 = r1
  r2 = r2
  None = None
  Calls <- MCRequests
  Kinds = {"web"}
  MaxAttempts = 2
  MaxSessions = 3
  MaxFailures = 2
  MaxVersion = 1
INVARIANTS
  RotatedOnce
CHECK_DEADLOCK FALSE
