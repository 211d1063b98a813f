SPECIFICATION MCSpec
CONSTANTS
    Fps = 20
    MinTempo = 3
    MaxTempo = 4
    MinMeter = 2
    MaxMeter = 3
    ParticleSize = 2
    DownParticleSize = 2
    IgThreshold = 40
    OffsetFrames = 0
    ObservationB <- B56
    ObservationD <- B56
    Plots = {}
    TempoSpread = 6007
    Activations <- FewActivations
    CallSizes = {1, 3}
    MaxFrames = 4
    MaxParticles = 3
    MaxDownParticles = 4
INVARIANT ParticleSizeKept
