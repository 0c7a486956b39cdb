CONSTANTS
  FrameMax = 3
  LineMax = 4
  Window = 2
  Payloads <- MCPayloads
  Kaifa <- MCKaifa
  Typed <- MCTyped
  Csv <- MCCsv
  Preformatted <- MCPreformatted
  MaxFrames = 3
  MaxLines = 1
  MaxFaults = 1
SPECIFICATION Spec
INVARIANTS TypeOK CleanLineIsExact DamageIsLocal GapsAreCounted AveragesAreRecent
CHECK_DEADLOCK FALSE
