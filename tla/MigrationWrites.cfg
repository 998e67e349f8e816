\* A write that passed the middleware before the seal and lands after the manifest.
SPECIFICATION Spec
CONSTANTS
  h1 = h1  h2 = h2  m1 = m1
  None = None  Torn = Torn  Old = Old  Prior = Prior  Source = Source
  Calls <- TwoCalls
  Migs <- OneMigration
  Files = 1
  Chunks = 2
  MaxWrites = 1
  MaxFaults = 0
PROPERTY SwitchKeepsWrites
CHECK_DEADLOCK FALSE
