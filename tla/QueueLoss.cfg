\* A packet is dropped before response.begin has been taken as a command.
SPECIFICATION Spec
CONSTANTS
    MaxGeneration = 4
    TerminalLimit = 1
    MaxSpeeches = 2
    MaxPackets = 2
    SegmentSizes = {1}
    Prompt = TRUE
    MediaCap = 1
    FrameChunks = 1
    UserCancels = FALSE
    Hardware = FALSE
INVARIANTS
    CompletedIsComplete
