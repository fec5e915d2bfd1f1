\* Two responses of up to two packets, any order of the event loop.
SPECIFICATION Spec
CONSTANTS
    MaxGeneration = 4
    TerminalLimit = 1
    MaxSpeeches = 2
    MaxPackets = 2
    SegmentSizes = {1}
    Prompt = FALSE
    MediaCap = 1
    FrameChunks = 1
    UserCancels = FALSE
    Hardware = FALSE
INVARIANTS
    TypeOK
    SlotHeld
    LayersAgree
    RecordsKept
PROPERTIES
    NoMediaAfterStop
