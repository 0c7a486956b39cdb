CONSTANTS
  Phase <- MCPhase
  Readings <- MCReadings
  Gaps = {20, 60}
  MaxSamples = 5
  MaxResets = 1
SPECIFICATION Spec
INVARIANTS ActiveIsOpen OpenedOnce CooldownKept LastingOutageIsReported
CHECK_DEADLOCK FALSE
