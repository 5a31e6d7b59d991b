\* The port never answers and the call runs out of polls.
SPECIFICATION LiveSpec
CONSTANTS
    Byte = 4
    SectorLimit = 4
    PrdCount = 2
    SectorSize = 2
    MaxChunk = 8
    Retries = 2
    WordSpan = 8
    Requests <- MCRequests
    MaxCalls = 3
INVARIANTS
    SuccessMeansDone
CHECK_DEADLOCK FALSE
