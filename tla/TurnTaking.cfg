SPECIFICATION Spec
CONSTANTS
    Texts = {"a", "b"}
    PendingLimit = 2
    MaxTurns = 4
    MaxEdges = 2
    MaxResponses = 2
INVARIANTS PlaybackAttributed
PROPERTIES CleanTurnAnswered
CHECK_DEADLOCK FALSE
