SPECIFICATION FairSpec
CONSTANTS
    LoopCount = 1
    LoopsKeepUp = TRUE
    Preemptive = TRUE
    ClientUses = {"ConfigureDatalog", "ResetDatalogger", "ArmTrigger", "DisarmTrigger", "ReadAcquisition"}
    ConfigOutcomes = {"OK", "Refused", "InvalidRequest"}
PROPERTIES
    HandoverCompletes
    RequestAnswered
