CONSTANTS
  MaxConnects = 2
  MaxFaults = 1
  MaxUserOps = 0
  MaxSends = 3
  WriteFaults = TRUE
  JoinTimesOut = FALSE
  ExitWindow = FALSE
SPECIFICATION FairSpec
PROPERTY Reconnects
CHECK_DEADLOCK FALSE
