SPECIFICATION LiveSpec
CONSTANTS
    QueueSize = 4
    TailSpan = 8
    Retries = 2
    Failing = {1, 3}
    MaxCommands = 4
INVARIANTS
    TypeOK
    OwnCompletion
    HeadBehindTail
    OneEntryPerCall
PROPERTIES
    CallReturns
CHECK_DEADLOCK FALSE
