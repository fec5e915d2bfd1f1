\* A silent endpoint cannot hold a response or the agent.
SPECIFICATION FairSpec
CONSTANTS
    MaxGeneration = 4
    TerminalLimit = 1
    MaxSpeeches = 2
    MaxPackets = 1
    SegmentSizes = {1}
    Prompt = TRUE
    MediaCap = 1
    FrameChunks = 1
    UserCancels = FALSE
    Hardware = FALSE
PROPERTIES
    PlaybackReleased
    AgentReleased
