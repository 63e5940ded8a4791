SPECIFICATION Spec
CONSTANTS
  TicksPerMs = 2
  Interval = 8
  Deadlines <- ShortDeadlines
  BlockTimes <- ShortBlockTimes
  MaxStart = 9
  MaxOverrun = 6
  GasLimit = 13
  MaxGas = 30
INVARIANTS
  TypeOK
  NoDrift
  SlotsFillRemainingTime
PROPERTIES
  GasNeverShrinks
CHECK_DEADLOCK FALSE
