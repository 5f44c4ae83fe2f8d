SPECIFICATION Spec
CONSTANTS
    AddrSize = 1
    AddressSpace = 5
    MaxTxBufferSize = 16
    Bits = {1, 2}
    ForbiddenRanges <- MCForbidden
    ReadonlyRanges <- MCReadonly
    RpvSize <- MCRpvSize
    Configs <- MCConfigs
    Requests <- MCRequests
    TxSizes = {5, 8, 16}
INVARIANTS
    TypeOK
    ForbiddenNotRead
    ReadServed
    WritesAsRequested
    LastMayBeUnacknowledged
    PublishedAnswered
PROPERTIES
    ProtectedUntouched
