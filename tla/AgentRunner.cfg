SPECIFICATION Spec
CONSTANTS
    InCap = 2
    MaxSegments = 2
INVARIANTS TypeOK NoPcmAfterClose TtsOutlivesSession
PROPERTIES EndMeansDelivered FailureSeen CloseAnswered ResourcesReleased
CHECK_DEADLOCK FALSE
