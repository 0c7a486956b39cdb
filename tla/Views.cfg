CONSTANTS
  HourLen = 6
  HoursPerDay = 3
  DaysPerWeek = 2
  DaysPerMonth = 4
  ReplayMax = 3
  Ladder <- MCLadder
  NightHours = {0}
  SerialLineMax = 8
  FieldMax = 5
  Secret <- MCSecret
  Start = {10, 12, 33}
  Gaps <- MCGaps
  Kinds <- MCKinds
  MaxReadings = 4
  MaxHours = 5
  MaxChars = 7
  Kw = {0, 1, 4, 5, 12}
  RowLimits <- MCRowLimits
  Char = {"x", "n", ",", "bs", "nl"}
  Commands <- MCCommands
  TabEvery = 6
  MetricsEvery = 3
  DataBytes = 2
  FrameBytes = 3
  MaxLists = 3
  LinkStates = {"CONNECTED", "DISCONNECTED"}
SPECIFICATION Spec
INVARIANTS
  HeatmapIsExact
  ViewsAgree
  ReplayLooksLikeLive
  FallbackIsSurfaced
  CapacityFollowsLadder
  CommandArrives
  SecretsStayMasked
  OpenTabIsFresh
  ShownAsPrinted
CHECK_DEADLOCK FALSE
