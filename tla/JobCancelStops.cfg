\* A job cancelled before its executor is registered runs on.
SPECIFICATION Spec
CONSTANTS
  j1 = j1  j2 = j2  c1 = c1  c2 = c2  k1 = k1  k2 = k2
  None = None  Admin = Admin
  Jobs <- TwoJobs
  Commands <- TwoCommands
  Keys <- TwoKeys
  Requests <- EndingRequests
  Calls = {"cancel", "close", "release"}
  MaxRestarts = 0
  PipeCapacity = 2
INVARIANT CancelledMeansStopped
CHECK_DEADLOCK FALSE
