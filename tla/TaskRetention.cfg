SPECIFICATION FairSpec
CONSTANTS
  Request = {r1}
  Key = {k1}
  NoKey = NoKey
  NoTask = NoTask
  Cleaner = {c1, c2}
  PendingLimit = 1
  IdemTtl = 1
  SuccessTtl = 1
  FailedTtl = 1
  Retention = 1
  CleanupInterval = 0
  MaxRequeues = 0
  FaultKinds = {"rmtree"}
  MaxFaults = 2
PROPERTIES
  ClosedIsReclaimed
  ReservationResolved
