\* A failed image2image job that keeps the model never ends.
SPECIFICATION FairSpec
CONSTANTS
  j1 = j1  j2 = j2  c1 = c1  c2 = c2  k1 = k1  k2 = k2
  None = None  Admin = Admin
  Jobs <- OneJob
  Commands <- TwoCommands
  Keys <- TwoKeys
  Requests <- KeptImage2Image
  Calls = {"cancel", "close", "release"}
  MaxRestarts = 0
  PipeCapacity = 2
PROPERTY EveryTaskEnds
CHECK_DEADLOCK FALSE
