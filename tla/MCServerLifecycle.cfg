CONSTANTS
  Guis = {g1}
  a = a
  b = b
  g1 = g1
  Images <- MCImages
  own <- MCOwn
  Pids = {p1, p2}
  MaxServers = 3
  None = None
SPECIFICATION FairSpec
CHECK_DEADLOCK FALSE
INVARIANTS ImageMatches LiveIsListed StoppedStaysStopped SuppressedOnlyIfStopped
PROPERTIES Recovers
