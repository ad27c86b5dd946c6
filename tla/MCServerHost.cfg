SPECIFICATION ServerFairSpec
CONSTANTS
  Connections = {c1, c2, c3}
  MaxConnections = 3
  MaxPending = 3
  Budget = 2
  Shutdowns = {c3}
CHECK_DEADLOCK FALSE
PROPERTIES ServerServesInOrder ServerServed
