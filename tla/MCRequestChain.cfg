SPECIFICATION Spec
CONSTANTS
  Requests = {r1, r2}
  Pausable = {}
  InitialValue = 1
  MaxFaults = 2
SYMMETRY Symmetry
INVARIANTS
  AtMostOnce
  AnswersAreTrue
  RealTimeOrder
PROPERTIES
  KeepsPromise
CHECK_DEADLOCK FALSE
