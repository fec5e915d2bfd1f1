SPECIFICATION Spec
CONSTANTS
    MaxGen = 2
    ReorderLimit = 2
    PendingLimit = 1
    ReplayWindow = 64
    ForwardJump = 1024
    PlcLimit = 0
    Profiles = {"udp", "wss"}
    MaxPackets = 3
    MaxFaults = 1
    MaxSessions = 2
INVARIANTS TypeOK GrantsReturned RecoveryFinishes
PROPERTIES ServerUnderstood FactsAreHeard
CHECK_DEADLOCK FALSE
