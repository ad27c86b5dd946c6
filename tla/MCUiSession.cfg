SPECIFICATION FairSpec
CONSTANTS
  Clients = {g1, g2}
  MaxClients = 2
  QueueLimit = 1
  MaxRequests = 2
  MaxLeases = 2
  RequestKinds = {"applied", "stop"}
CHECK_DEADLOCK FALSE
INVARIANTS OneFate OwnResult AppliedOnce VisibilityTruth
PROPERTIES Taken
