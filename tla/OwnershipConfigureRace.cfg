SPECIFICATION Spec
CONSTANTS
    LoopCount = 1
    LoopsKeepUp = FALSE
    Preemptive = FALSE
    ClientUses = {"ConfigureDatalog"}
    ConfigOutcomes = {"OK"}
INVARIANT MainWritesAlone
