SPECIFICATION MCSpec
CONSTANTS
    Configurations <- AllConfigurations
    Audios <- Tracks
    None = None
    Capacity = 2
    PlotWidth = 3
    MaxCalls = 2
    MaxHops = 15
INVARIANTS
    TypeOK
    WindowUnbroken
    ChunksInOrder
    EstimatorExclusive
    NetworkStepsOnce
PROPERTY CallsEnd
