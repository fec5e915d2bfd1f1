\* One call over either transport.
SPECIFICATION Spec
CONSTANTS
    AudioCap = 1
    MaxPushes = 2
    MaxSegments = 2
    MaxChunks = 3
    Messages <- AllMessages
    MaxAnswers = 3
INVARIANTS
    TypeOK
    FinalNamesItsSegment
    Released
PROPERTIES
    Ends
CHECK_DEADLOCK FALSE
