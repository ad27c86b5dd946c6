CONSTANTS
  Transactions = {t1, t2}
  Paths = {a, b}
  MaxObjects = 6
  MaxUserActs = 1
  Intrusive = FALSE
SYMMETRY Symmetric
SPECIFICATION Spec
CHECK_DEADLOCK FALSE
INVARIANTS NothingLost RefusedOnlyIfTouched
PROPERTIES EndsExact
