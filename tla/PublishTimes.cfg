SPECIFICATION Spec
CONSTANTS
  MaxTime = 9
  MaxGap = 2
INVARIANTS
  TypeOK
  TimeToFirstBlock
  InterBlockInterval
CHECK_DEADLOCK FALSE
