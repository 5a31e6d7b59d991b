SPECIFICATION LiveSpec
CONSTANTS
    short = short
    long = long
    RingSize = 3
    TailSpan = 6
    Frames <- MCFrames
    FrameLen <- MCFrameLen
    NoFrame = NoFrame
    BufferSize = 4
    MaxLen = 5
    CallerSizes = {2, 3}
    Readers = {t1, t2}
    Serialized = TRUE
    StoresInOrder = TRUE
INVARIANTS
    TypeOK
    Contiguous
    WholeFrames
PROPERTIES
    ImplementsPipe
    Drains
