SPECIFICATION Spec
CONSTANTS
  Threads = {t1}
  NoThread = NoThread
  InitialValue = 1
  MaxCalls = 1
  IOErrors = FALSE
INVARIANTS
  UnusableMeansNotReady
