SPECIFICATION Spec
CONSTANTS
  Task = {t1}
  Worker = {w1}
  Reconciler = {r1}
  HeartbeatTimeout = 2
  MaxRetries = 1
  ProgressCalls = 2
  MaxFaults = 0
INVARIANTS
  HeartbeatKeepsLease
CHECK_DEADLOCK FALSE
