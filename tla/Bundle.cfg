SPECIFICATION Spec
CONSTANTS
  MaxBlock = 3
  MaxFlashblock = 3
  BlockTimes = {1, 2}
  Values = {1, 2, 3}
INVARIANTS
  TypeOK
  RejectedNeverEligible
  DroppedForGood
  InclusionHonoursBounds
  EditChangesHash
CHECK_DEADLOCK FALSE
