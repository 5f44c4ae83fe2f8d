SPECIFICATION Spec
CONSTANTS
    LoopCount = 2
    LoopsKeepUp = TRUE
    Preemptive = FALSE
    ClientUses = {"ConfigureDatalog", "ArmTrigger"}
    ConfigOutcomes = {"OK"}
INVARIANTS
    TypeOK
    OwnershipInv
    MainWritesAlone
    OwnLoopOnly
    CommandsForThisOwnership
PROPERTIES
    ImplementsLease
