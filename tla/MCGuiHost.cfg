SPECIFICATION GuiFairSpec
CONSTANTS
  Connections = {c1, c2, c3}
  MaxConnections = 2
  MaxPending = 2
INVARIANTS NoneStranded
PROPERTIES GuiServesInOrder GuiServed
