SPECIFICATION Spec
CONSTANTS
  Deadline = 5
  Interval = 2
  CallTime = 3
  Oversleep = 1
INVARIANTS
  NeverQuietlyStarved
  AttemptsBounded
  DoneInTime
PROPERTIES
  RestoresAsPromised
CHECK_DEADLOCK FALSE
