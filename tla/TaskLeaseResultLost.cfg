SPECIFICATION Spec
CONSTANTS
  Task = {t1}
  Worker = {w1}
  Reconciler = {r1}
  HeartbeatTimeout = 1
  MaxRetries = 1
  ProgressCalls = 1
  MaxFaults = 0
PROPERTIES
  ResultPersisted
CHECK_DEADLOCK FALSE
