SPECIFICATION Spec
CONSTANTS
  MaxBlock = 3
  MaxFlashblock = 3
  BlockTimes = {1, 2}
  Values = {1, 2, 3}
INVARIANTS
  MinTimestampHonoured
CHECK_DEADLOCK FALSE
