SPECIFICATION Spec
CONSTANTS
    BufferSize = 4
    SizeModulus = 6
    ClockModulus = 5
    Steps = {1, 2}
    Decimations = {2}
    Probes = {0, 255}
    HoldTimes = {2}
    Timeouts = {0, 2}
    EntrySizes = {2, 3}
    Evaluations = {"true", "false", "failed"}
    ProbeRange = 256
    IdModulus = 1
INVARIANTS
    TypeOK
    CompletedBufferIsFull
    CompletesOnceAcquired
    FirstTriggerHeld
    TimeoutRespected
