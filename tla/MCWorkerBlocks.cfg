CONSTANTS
  MaxInvocations = 3
  InvocationLimit = 2
  Budget = 3
SPECIFICATION HostFairSpec
PROPERTY Ends
CHECK_DEADLOCK FALSE
