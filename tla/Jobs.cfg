CONSTANTS
  j1 = j1
  j2 = j2
  x = x
  y = y
  s1 = s1
  s2 = s2
  w1 = w1
  w2 = w2
  None = None
  Jobs <- MCJobs
  Payloads <- MCPayloads
  Submissions <- MCSubmissions
  Clients <- MCClients
  Workers <- MCWorkers
  FaultKinds = {"slow", "redis", "crash"}
  MaxFaults = 2
SPECIFICATION JobFairSpec
INVARIANTS
  EnqueuedOnce
  UnfinishedJobHasWork
PROPERTIES
  JobIsFinished
