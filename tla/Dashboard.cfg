CONSTANTS
  Logs <- MCLogs
  LinesPerTick = 2
  ReplayMax = 3
  MaxLive = 2
  MaxOps = 5
  MaxLinks = 2
  ConnectDuringReplay = FALSE
SPECIFICATION FairSpec
INVARIANTS SourcesStayApart ReplayFeedsInOrder CacheIsFresh LiveIsPersisted
PROPERTY ReplayEnds
CHECK_DEADLOCK FALSE
