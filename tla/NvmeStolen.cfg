\* The handler takes the completion the caller is polling for.
SPECIFICATION LiveSpec
CONSTANTS
    QueueSize = 4
    TailSpan = 8
    Retries = 2
    Failing = {1, 3}
    MaxCommands = 4
INVARIANTS
    TimeoutMeansSilence
CHECK_DEADLOCK FALSE
