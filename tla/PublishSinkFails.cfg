SPECIFICATION FairSpec
CONSTANTS
  NumJobs = 1
  MaxInFlight = 1
  Target = 2
  Orders = {o1}
  o1 = o1
  BuilderSigner = FALSE
  MaxPayload = 6
PROPERTIES
  JobEnds
CHECK_DEADLOCK FALSE
