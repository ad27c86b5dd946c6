CONSTANTS
  Procs = {p1, p2}
  Sessions = {s1, s2}
  Requests = {r1, r2}
  Devices = {d1}
  Leases = {l0, l1, l2}
  Earlier = {l0}
  LockIds = {1, 2, 3}
  LeaseRecordLimit = 2
SPECIFICATION Spec
CHECK_DEADLOCK FALSE
SYMMETRY Symmetric
INVARIANTS OpenIsRecorded OneOwner EndedMeansClosed ReadyMeansQuiet AtMostOnce
