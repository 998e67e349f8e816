\* Two clients' calls at a time over one migration, with one failure or restart and one write.
SPECIFICATION Spec
CONSTANTS
  h1 = h1  h2 = h2  m1 = m1
  None = None  Torn = Torn  Old = Old  Prior = Prior  Source = Source
  Calls <- TwoCalls
  Migs <- OneMigration
  Files = 1
  Chunks = 2
  MaxWrites = 1
  MaxFaults = 1
INVARIANTS
  TypeOK
  SwitchIsVerified
  ProgressIsReceived
PROPERTY ImportedIsManifested
SYMMETRY CallSymmetry
CHECK_DEADLOCK FALSE
