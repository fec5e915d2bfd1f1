\* The uplink of one session, over WSS with a clock and over UDP with a network
\* that loses, repeats and reorders.
SPECIFICATION Spec
CONSTANTS
    TsMod = 32
    MaxAgeOf <- MCMaxAge
    InCapOf <- MCInCap
    Window = 3
    MaxRecoveries = 2
    PacedNeeded = 1
    RebaseAfter = 4
    MaxInvalid = 2
    Frames = 1
    Jitter = 4
    ReplaySize = 4
    MaxJump = 3
    UdpQueue = 1
    Reacks = 1
    Sources = {"a"}
    Timers = {"t1", "t2"}
    MaxSent <- MCMaxSent
    MaxClock <- MCMaxClock
    MaxSkip <- MCMaxSkip
    Keepalives = TRUE
INVARIANTS
    TypeOK
    GapTimerArmed
    RecoveriesBounded
PROPERTIES
    AtMostOnce
    DecodedInOrder
    FreshAtPush
