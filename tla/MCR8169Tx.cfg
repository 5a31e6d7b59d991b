SPECIFICATION LiveSpec
CONSTANTS
    RingSize = 3
    TailSpan = 6
    Frames = {f1, f2}
    NoFrame = NoFrame
    Senders = {t1, t2}
    Serialized = TRUE
    StoresInOrder = TRUE
INVARIANTS
    TypeOK
    Contiguous
    NoOverwrite
PROPERTIES
    ImplementsPipe
    KeepsMoving
