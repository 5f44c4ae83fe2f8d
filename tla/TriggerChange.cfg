CONSTANTS
    CharBits = 2
    BiggestSize = 4
    InitialMemory <- MCInitialMemory
    AppWrites <- MCAppWrites
    HostWrites <- MCHostWrites
    TriggerConfigs <- MCConfigs
    RpvValues <- MCRpvValues
    Garbage = {0, 1}
SPECIFICATION Spec
INVARIANTS
    ChangeAsDocumented
