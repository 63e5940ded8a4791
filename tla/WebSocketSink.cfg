SPECIFICATION FairSpec
CONSTANTS
  Clients = {c1, c2}
  c1 = c1
  c2 = c2
  Capacity = 1
  MaxPublished = 3
INVARIANTS
  TypeOK
  Accounting
  NoLossWithoutLag
  InOrder
  PublishFailsOnlyAfterStop
PROPERTIES
  FailureIsPermanent
  ImplementsFeed
  ShutdownCompletes
  DeliveredOrGone
  DialAnswered
CHECK_DEADLOCK FALSE
