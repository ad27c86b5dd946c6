SPECIFICATION FairSpec
CONSTANTS
  WindowCapacity = 2
  NoDeadline = NoDeadline
  NoRequest = NoRequest
  Tabs = {"t1", "t2"}
  Requests <- MixedRequests
  Plain <- MixedPlain
  MaxNow = 1
INVARIANTS AtMostOnce SameAnswer PendingHasReceipt CommittedMeansEntered
PROPERTIES WaitEnds
