CONSTANTS
  MaxItems = 4
  FlushEvery = 3
  MaxEvents = 6
  MaxBurst = 2
  Torn = torn
SPECIFICATION Spec
INVARIANTS
  BookIsKept
CHECK_DEADLOCK FALSE
