CONSTANTS
    AddressSize = 2
    Supports64Bits = TRUE
    ProtocolVersion <- MCProtocolVersion
    SoftwareId <- MCSoftwareId
    MaxDisplayName = 64
    MaxLoopName = 32
    MinTxBuffer = 18
    RxTimeout = 50000
    HeartbeatTimeout = 5000000
    MaxOperands = 3
    MaxSignal = 3
    Devices <- MCDevices
    Configurations <- MCConfigurations
    Statuses <- MCStatuses
    Acquisitions <- MCAcquisitions
    Challenges = {0, 65535}
    MaxSessions = 2
    MaxConfigures = 2
SPECIFICATION Spec
INVARIANTS
    AnswersTellDevice
    EnumerationComplete
    AcceptedAsSent
    AcceptedIsSafe
