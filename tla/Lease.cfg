\* Renewal, release, expiry and takeover of routes while heartbeats are in flight:
\* one worker with two devices competing for its one place and every disturbance
\* once, and two workers between which a route moves when its lease has expired.
CONSTANTS
  Workers = {1, 2}
  Devices = {d1, d2}
  MaxSessions <- OneEach
  LeaseTTL = 2
  HeartbeatTTL = 2
  Boots = {b1}
  Slots = {1}
  MaxFence = 2
  MaxTime = 3
  Scopes <- RenewOrMove
  Kinds = {"abort", "release", "drain", "end", "restart"}
SPECIFICATION MCSpec
INVARIANTS ServedLeaseIsValid NoLeakedLease TypeOK IndexCoversLeases OneOwnerPerEpoch NoSplitBrain
PROPERTY Takeover
CHECK_DEADLOCK FALSE
