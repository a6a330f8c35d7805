SPECIFICATION Spec
CONSTANTS
  Task = {t1}
  Worker = {w1}
  Reconciler = {r1}
  HeartbeatTimeout = 1
  MaxRetries = 1
  ProgressCalls = 1
  MaxFaults = 1
PROPERTIES
  PendingFailedOnlyUnleased
CHECK_DEADLOCK FALSE
