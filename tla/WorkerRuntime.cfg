SPECIFICATION Spec
CONSTANTS
  None = None
  Layers = 7
  TokenPixels = 4
  Suffix = 1
  MaxStrength = 4
  MaxJobs = 4
  Requests <- MCRequests
  Loads <- MCLoads
INVARIANTS
  TypeOK
  JobStartsClean
  MemoryFloorsHold
  DeltaIsTokenLocal
  EditStaysInMask
