SPECIFICATION LiveSpec
CONSTANTS
    Byte = 4
    SectorLimit = 4
    PrdCount = 2
    SectorSize = 2
    MaxChunk = 8
    Retries = 2
    WordSpan = 8
    Requests <- MCRequests
    MaxCalls = 3
INVARIANTS
    TypeOK
    ReturnsAfterCompletion
    SlotUndisturbed
    RequestInFis
PROPERTIES
    CallReturns
    CauseAcknowledged
CHECK_DEADLOCK FALSE
