CONSTANTS
  Networks = {}
  Brokers = {b1}
  Clients = {1, 2}
  Empty = empty
  None = none
SPECIFICATION Spec
INVARIANTS
  AckedSurvives
  OneClient
PROPERTY
  Rearms
CHECK_DEADLOCK FALSE
