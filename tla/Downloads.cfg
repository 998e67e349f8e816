\* A transfer of each provider, with a restart or a failed state write.
SPECIFICATION FairSpec
CONSTANTS
  t1 = t1  t2 = t2  n1 = n1  n2 = n2  cA = cA  cB = cB
  None = None  Broken = Broken
  Transfers <- TwoTransfers
  Names <- TwoNames
  Contents = {cA, cB}
  Sources <- AllSources
  Wanted <- EachItsOwn
  Size = 2
  MaxQueue = 1
  MaxTroubles = 1
INVARIANTS
  TypeOK
  ActiveIsOwned
  FaultStrandsOne
  CompletedIsInstalled
PROPERTIES
  InstalledIsWhole
  NoOverwrite
  PendingSettles
  CloseEnds
\* Every transfer may be settled and no client calls again.
CHECK_DEADLOCK FALSE
