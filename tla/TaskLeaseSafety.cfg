SPECIFICATION Spec
CONSTANTS
  Task = {t1}
  Worker = {w1, w2}
  Reconciler = {r1}
  HeartbeatTimeout = 1
  MaxRetries = 1
  ProgressCalls = 1
  MaxFaults = 1
SYMMETRY Symmetry
INVARIANTS
  TypeOK
  FencingInv
  RunningOwnsFence
  SingleWriter
  StaleMeansExpired
  PendingIndexExact
  RetriesBounded
  DeadLetterHasVerdict
PROPERTIES
  LiveLeaseKeepsFence
  LostVerdictFinal
CHECK_DEADLOCK FALSE
