SPECIFICATION FairSpec
CONSTANTS
  MaxRestarts = 3
  MaxCrashes = 1
  MaxSignals = 1
INVARIANTS
  PassMeansKept
  PassMeansStayedStopped
  TornDown
  UnpauseRetried
  SignalNeverPasses
PROPERTIES
  EveryRunEnds
CHECK_DEADLOCK FALSE
