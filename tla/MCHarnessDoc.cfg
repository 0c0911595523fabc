SPECIFICATION Spec
CONSTANTS
  MaxRestarts = 1
  MaxCrashes = 0
  MaxSignals = 1
INVARIANTS
  SigtermEndsRun
CHECK_DEADLOCK FALSE
