\* A client's calls one at a time beside the reaper, with restarts and a fault.
SPECIFICATION FairSpec
CONSTANTS
  h1 = h1  h2 = h2  p1 = p1  p2 = p2
  RowLocks = TRUE
  None = None  Reaper = Reaper
  Calls <- OneCall
  Pods <- TwoPods
  Modes = {"persistent", "portable"}
  Grants = {"live"}
  MaxCrashes = 2
  MaxFaults = 1
PROPERTY OverdueIsStopped
CHECK_DEADLOCK FALSE
