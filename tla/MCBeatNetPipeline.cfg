SPECIFICATION Spec
CONSTANTS
    SR_BEATNET = 4
    FRAME_LENGTH = 4
    HOP_SIZE = 2
    SampleRates = {1, 9}
    BlockSizes = {0, 1, 4}
    MaxRatio = 3
    MaxCalls = 4
INVARIANTS
    TypeOK
    FramesAreFresh
    WarmUp
    DriftBounded
PROPERTY DiffToFrameBefore
