SPECIFICATION Spec
CONSTANTS
  Request = {r1, r2, r3}
  Key = {k1}
  NoKey = NoKey
  NoTask = NoTask
  Cleaner = {c1}
  PendingLimit = 2
  IdemTtl = 1
  SuccessTtl = 1
  FailedTtl = 1
  Retention = 1
  CleanupInterval = 0
  MaxRequeues = 0
  FaultKinds = {}
  MaxFaults = 0
SYMMETRY Symmetry
INVARIANTS
  OneTaskPerKey
