\* Cancels, closes and hardware failures crossing the stops of the server.
SPECIFICATION Spec
CONSTANTS
    MaxGeneration = 4
    TerminalLimit = 1
    MaxSpeeches = 2
    MaxPackets = 1
    SegmentSizes = {1}
    Prompt = TRUE
    MediaCap = 1
    FrameChunks = 2
    UserCancels = TRUE
    Hardware = TRUE
INVARIANTS
    ServerAccepts
    EndpointAccepts
