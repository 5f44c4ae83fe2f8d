SPECIFICATION FairSpec
CONSTANTS
    BufferSize = 5
    SizeModulus = 7
    ClockModulus = 4
    Steps = {1}
    Decimations = {2}
    Probes = {0, 255}
    HoldTimes = {0}
    Timeouts = {0}
    EntrySizes = {0, 2}
    ProbeRange = 256
    IdModulus = 1
    Evaluations = {"true"}
PROPERTIES
    AcquisitionEnds
