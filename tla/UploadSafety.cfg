\* Two uploads with moves, deletions and saves queued behind a scan, and a restart.
SPECIFICATION Spec
CONSTANTS
  r1 = r1    u1 = u1  u2 = u2  n1 = n1  cA = cA  cB = cB
  loras = loras  vae = vae
  None = None  Broken = Broken
  Calls <- OneCall
  Uploads <- TwoUploads
  Names <- OneName
  ModelKinds <- TwoKinds
  Data <- TwoData
  Chunks = 1
  Stamps = {1, 2, 3, 4, 5, 6}
  MaxWrites = 2
  MaxCrashes = 1
SYMMETRY Symmetry
INVARIANTS
  TypeOK
  FreshEntryIsTrue
PROPERTIES
  CompletedIsStored
  NoOverwrite
\* Uploads may be over and no client calls again.
CHECK_DEADLOCK FALSE
