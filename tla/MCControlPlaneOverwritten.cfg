SPECIFICATION FairSpec
CONSTANTS
  WindowCapacity = 2
  NoDeadline = NoDeadline
  NoRequest = NoRequest
  Tabs = {"t1"}
  Requests <- SendRequests
  Plain <- SendPlain
  MaxNow = 1
PROPERTY AcceptedSettles
