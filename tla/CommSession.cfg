SPECIFICATION FairSpec
CONSTANTS
    ClockModulus = 5
    MaxStep = 2
    RxTimeout = 1
    HeartbeatTimeout = 3
    RequestTimeout = 2
    SessionModulus = 2
    Challenges = {0, 1}
    TxLength = 2
INVARIANTS
    CommInv
PROPERTIES
    ExecutedInSession
    SessionEndsForCause
    RequestResolved
    TransmissionEnds
