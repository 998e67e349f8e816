\* Two clients' calls at a time, with a restart and failed requests.
SPECIFICATION Spec
CONSTANTS
  h1 = h1  h2 = h2  p1 = p1  p2 = p2
  RowLocks = TRUE
  None = None  Reaper = Reaper
  Calls <- TwoCalls
  Pods <- TwoPods
  Modes = {"persistent", "portable"}
  Grants = {"unlimited"}
  MaxCrashes = 2
  MaxFaults = 2
SYMMETRY Symmetry
INVARIANTS
  TypeOK
  PlanMakesOneWorkspace
  JournaledPodIsStopped
  DeletedMeansTerminated
  PodHasCredential
\* The workspace may be deleted, or its startup refused.
CHECK_DEADLOCK FALSE
