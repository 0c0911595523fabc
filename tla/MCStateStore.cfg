SPECIFICATION FairSpec
CONSTANTS
  Threads = {t1, t2}
  NoThread = NoThread
  InitialValue = 1
  MaxCalls = 3
  IOErrors = TRUE
INVARIANTS
  NeverTorn
  UniqueResults
  AckedDurable
  CorruptNeverServed
PROPERTIES
  CorruptPreserved
  LockReleased
  Linearizable
