CONSTANTS
  p1 = p1
  p2 = p2
  p3 = p3
  a1 = a1
  a2 = a2
  None = None
  Captures <- MCCaptures
  Attempts <- MCAttempts
  attemptOf <- MCAttemptOf
  FaultKinds = {"offline", "request", "answer", "kill", "expiry", "overlap"}
  MaxFaults = 2
SPECIFICATION QueueFairSpec
CHECK_DEADLOCK FALSE
INVARIANTS
  QueueTypeOK
  HistoryIsTrue
  ImageIsKeptUntilStored
  NoCaptureIsLostInTurn
PROPERTIES
  CaptureIsDeliveredUnlessBlocked
