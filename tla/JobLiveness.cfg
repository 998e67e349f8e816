\* Requests whose worker ends: every task and every administrative call returns,
\* and a restart at any point leaves a server of jobs as promised.
SPECIFICATION FairSpec
CONSTANTS
  j1 = j1  j2 = j2  c1 = c1  c2 = c2  k1 = k1  k2 = k2
  None = None  Admin = Admin
  Jobs <- TwoJobs
  Commands <- TwoCommands
  Keys <- TwoKeys
  Requests <- EndingRequests
  Calls = {"close", "release"}
  MaxRestarts = 1
  PipeCapacity = 2
PROPERTIES
  ImplementsJobService
  EveryTaskEnds
  AdminCallReturns
CHECK_DEADLOCK FALSE
