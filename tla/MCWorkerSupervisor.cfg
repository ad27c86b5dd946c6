CONSTANTS
  MaxInvocations = 3
  InvocationLimit = 2
  Budget = 3
SPECIFICATION FairSpec
CHECK_DEADLOCK FALSE
INVARIANTS OwnResult OwnAnswer TimeoutTruth NoneLeft
PROPERTIES Ends NoOrphan
