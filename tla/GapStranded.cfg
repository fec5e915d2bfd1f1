\* A gap timer wakes up while another one, forgotten, is delivering.
SPECIFICATION Spec
CONSTANTS
    TsMod = 32
    MaxAgeOf <- MCMaxAge
    InCapOf <- MCInCap
    Window = 3
    MaxRecoveries = 2
    PacedNeeded = 1
    RebaseAfter = 4
    MaxInvalid = 2
    Frames = 1
    Jitter = 4
    ReplaySize = 4
    MaxJump = 3
    UdpQueue = 1
    Reacks = 0
    Sources = {"a"}
    Timers = {"t1", "t2", "t3", "t4", "t5"}
    MaxSent <- MCGapSent
    MaxClock <- MCNoClock
    MaxSkip <- MCMaxSkip
    Keepalives = FALSE
INVARIANTS
    GapWaitBounded
