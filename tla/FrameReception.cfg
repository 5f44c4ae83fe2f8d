CONSTANTS
    ClockModulus = 4
    RxBufferSize = 4
    TxBufferSize = 1
    RxTimeout = 2
    Timesteps = {2}
    ChunkSizes = {1, 2, 6, 17}
    PopSizes = {1, 4, 20}
    Bursts <- MCBursts
    Responses <- MCResponses
SPECIFICATION Spec
INVARIANTS
    ReceptionIsParse
    FreshBurstHeard
    AnswerInOnePiece
PROPERTIES
    ImplementsFrameLink
