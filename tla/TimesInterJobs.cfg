SPECIFICATION Spec
CONSTANTS
  MaxTime = 9
  MaxGap = 2
INVARIANTS
  InterJobsInterval
CHECK_DEADLOCK FALSE
