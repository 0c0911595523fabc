SPECIFICATION FairSpec
CONSTANTS
  Requests = {r1}
  Pausable = {"state", "app"}
  InitialValue = 1
  MaxFaults = 3
PROPERTIES
  EveryCallEnds
CHECK_DEADLOCK FALSE
