SPECIFICATION Spec
CONSTANTS
  MaxBlocks = 2
  MaxTxs = 5
  MaxKeys = 3
  MaxStarts = 3
INVARIANTS
  EventLogged
CHECK_DEADLOCK FALSE
