\* A heartbeat handler that outlives its client overlaps the next one.
CONSTANTS
  Workers = {1}
  Devices = {d1}
  MaxSessions <- OneEach
  LeaseTTL = 2
  HeartbeatTTL = 2
  Boots = {b1}
  Slots = {1, 2}
  MaxFence = 1
  MaxTime = 3
  Scopes <- Everyone
  Kinds = {"abort"}
SPECIFICATION MCSpec
INVARIANT ServedLeaseIsValid
CHECK_DEADLOCK FALSE
