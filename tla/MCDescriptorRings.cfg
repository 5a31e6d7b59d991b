SPECIFICATION Spec
CONSTANTS
    RingSize = 3
    TailSpan = 6
    MaxFrames = 8
INVARIANTS
    TypeOK
    GenerationBlind
PROPERTIES
    InOrder
    OneRound
    OnceDry
CHECK_DEADLOCK FALSE
