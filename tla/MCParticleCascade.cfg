SPECIFICATION MCSpec
CONSTANTS
    Fps = 20
    MinTempo = 3
    MaxTempo = 5
    MinMeter = 2
    MaxMeter = 3
    ParticleSize = 1
    DownParticleSize = 1
    IgThreshold = 40
    OffsetFrames = 1
    ObservationB <- B56
    ObservationD <- N2
    Plots = {"downbeat_particles"}
    TempoSpread = 3000
    Activations <- AllActivations
    CallSizes = {2, 6}
    MaxFrames = 8
    MaxParticles = 2
    MaxDownParticles = 3
INVARIANTS
    TypeOK
    BeatsApart
    EnoughToDelete
PROPERTIES
    IntervalsKept
    ImplementsPromise
