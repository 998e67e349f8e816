\* The reaper takes a start for an expired workspace, and its pod runs on.
SPECIFICATION FairSpec
CONSTANTS
  h1 = h1  h2 = h2  p1 = p1  p2 = p2
  RowLocks = TRUE
  None = None  Reaper = Reaper
  Calls <- OneCall
  Pods <- TwoPods
  Modes = {"portable"}
  Grants = {"live"}
  MaxCrashes = 0
  MaxFaults = 0
PROPERTY ExpiryStopsCompute
CHECK_DEADLOCK FALSE
