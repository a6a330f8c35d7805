SPECIFICATION Spec
PROPERTIES
  HealthFollowsBase
  RefreshSettles
  WaitsEnd
CHECK_DEADLOCK FALSE
