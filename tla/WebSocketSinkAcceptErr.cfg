SPECIFICATION FairSpec
CONSTANTS
  Clients = {c1, c2}
  c1 = c1
  c2 = c2
  Capacity = 1
  MaxPublished = 2
PROPERTIES
  AlwaysListening
CHECK_DEADLOCK FALSE
