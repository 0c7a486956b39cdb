CONSTANTS
  MaxConnects = 5
  MaxFaults = 2
  MaxUserOps = 2
  MaxSends = 4
  WriteFaults = TRUE
  JoinTimesOut = FALSE
  ExitWindow = FALSE
SPECIFICATION FairSpec
INVARIANTS OneReader CommandsStayInSession WorkerFindsPort
PROPERTY UiReturns Heals ImplementsChannel
CHECK_DEADLOCK FALSE
