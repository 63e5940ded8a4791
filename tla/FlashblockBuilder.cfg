SPECIFICATION FairSpec
CONSTANTS
  NumJobs = 2
  MaxInFlight = 1
  Target = 2
  Orders = {o1}
  o1 = o1
  BuilderSigner = FALSE
  MaxPayload = 0
  Clients = {c1}
  c1 = c1
  Capacity = 1
  MaxPublished = 6
INVARIANTS
  GapFreeView
  ClientAssemblesBlock
PROPERTIES
  ImplementsPublish
  ClientsNeverHoldUpJobs
CHECK_DEADLOCK FALSE
