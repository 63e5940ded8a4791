SPECIFICATION Spec
CONSTANTS
  NumJobs = 2
  MaxInFlight = 2
  Target = 2
  Orders = {o1, o2}
  o1 = o1
  o2 = o2
  BuilderSigner = TRUE
  MaxPayload = 5
SYMMETRY OrderSymmetry
INVARIANTS
  TypeOK
  IndicesContiguous
  BaseOnFirst
  BaseAtMostOnce
  PublishedIsCommitted
  BlockIsItsFlashblocks
  TargetReached
CHECK_DEADLOCK FALSE
