CONSTANTS
  p1 = p1
  p2 = p2
  p3 = p3
  a1 = a1
  a2 = a2
  None = None
  Captures <- MCTwoCaptures
  Attempts <- MCAttempts
  attemptOf <- MCOwnAttempt
  FaultKinds = {"answer"}
  MaxFaults = 1
SPECIFICATION QueueFairSpec
CHECK_DEADLOCK FALSE
PROPERTIES
  CaptureIsDelivered
