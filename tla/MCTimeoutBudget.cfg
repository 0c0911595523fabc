SPECIFICATION BudgetSpec
CONSTANTS
  MaxInner = 3
  MaxOuter = 7
  MaxMargin = 2
INVARIANTS
  InnerFiresFirst
  CallerWaitBounded
CHECK_DEADLOCK FALSE
