\* Every control path of two jobs, with all calls and faults.
SPECIFICATION Spec
CONSTANTS
  j1 = j1  j2 = j2  c1 = c1  c2 = c2  k1 = k1  k2 = k2
  None = None  Admin = Admin
  Jobs <- TwoJobs
  Commands <- TwoCommands
  Keys <- TwoKeys
  Requests <- MixedRequests
  Calls = {"cancel", "close", "release"}
  MaxRestarts = 0
  PipeCapacity = 2
SYMMETRY Symmetry
INVARIANTS
  TypeOK
  OneLiveWorker
  NoOrphanWorker
  ExecutorOfHolder
  EventsOfReader
  RightModelLoaded
  CancelledNeverCompletes
  CompletedIsClean
  OneJobPerCommand
PROPERTY ResultStands
\* Every job may be finished and no client calls again.
CHECK_DEADLOCK FALSE
