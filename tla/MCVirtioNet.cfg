SPECIFICATION Spec
CONSTANTS
    short = short
    long = long
    QueueSize = 3
    IndexSpan = 9
    Frames <- MCFrames
    FrameLen <- MCFrameLen
    NoFrame = NoFrame
    CallerSizes = {2, 3}
INVARIANTS
    TypeOK
    RunsDry
PROPERTIES
    ImplementsPipe
CHECK_DEADLOCK FALSE
