CONSTANTS
  MaxConnects = 3
  MaxFaults = 1
  MaxUserOps = 1
  MaxSends = 3
  WriteFaults = TRUE
  JoinTimesOut = TRUE
  ExitWindow = TRUE
SPECIFICATION FairSpec
INVARIANT WrittenOnce
CHECK_DEADLOCK FALSE
