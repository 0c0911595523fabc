SPECIFICATION Spec
CONSTANTS
  Checks = {"audit", "security", "smoke", "repro", "patch"}
INVARIANTS
  GreenIsClean
  FailureIsClean
  CleanTakesTheRest
CHECK_DEADLOCK FALSE
