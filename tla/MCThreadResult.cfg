SPECIFICATION MCSpec
CONSTANTS
    Configurations <- RealtimeThread
    Audios <- Tracks
    None = None
    Capacity = 1
    PlotWidth = 3
    MaxCalls = 1
    MaxHops = 0
INVARIANT ThreadMakesNoDifference
