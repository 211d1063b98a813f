SPECIFICATION Spec
CONSTANTS
    Sample = {0, 1}
    Silence = 0
    FrameSize = 10
    Blocks <- MCBlocks
    MaxSamples = 14
INVARIANTS
    TypeOK
    RingHoldsTail
PROPERTY ImplementsWindow
