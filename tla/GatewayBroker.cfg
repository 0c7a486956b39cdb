CONSTANTS
  Networks = {}
  Brokers = {b1, b2}
  Clients = {1, 2}
  Empty = empty
  None = none
SPECIFICATION Spec
PROPERTY
  SavedBrokerIsUsed
CHECK_DEADLOCK FALSE
