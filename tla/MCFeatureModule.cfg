SPECIFICATION Spec
CONSTANTS
    HopLengths = {1, 2, 3, 7}
    MaxAudio = 30
INVARIANT RangeInvertsFrames
