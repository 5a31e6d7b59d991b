SPECIFICATION WifiSpec
CONSTANTS
    t1 = t1
    t2 = t2
    Callers <- MCCallers
    CmdQueueSize = 2
    TxQueueSize = 3
    TailSpan = 6
    MaxCalls = 8
SYMMETRY MCSymmetry
INVARIANTS
    WifiTypeOK
    QueueHoldsUnread
CHECK_DEADLOCK FALSE
