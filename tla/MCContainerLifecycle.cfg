SPECIFICATION FairSpec
CONSTANTS
  Attempts = 1
  Grace = 10
  Poll = 1
  Files <- MCFiles
  Configs <- MCConfigs
  Default <- MCDefault
  Crowded = {"app"}
  MaxFaults = 2
  MaxCommands = 1
INVARIANTS
  GracefulStop
  BrokenMeansStale
  HealthyIsReady
PROPERTIES
  StopIsFinal
  Settles
CHECK_DEADLOCK FALSE
