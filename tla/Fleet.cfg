SPECIFICATION FleetFairSpec
CONSTANTS
    w1 = w1
    t1 = t1
    t2 = t2
    Workers <- OneWorker
    Timers <- TwoTimers
    Spares = {}
    ModelLists <- Models
    Loads = {}
    DeadTimeout = 3
    DeadGrace = 1
    MaxCallbacks = 1
    Stalling = {}
    Boot = {"STARTING", "READY"}
    MaxMissed = 1
    StrayBeats = FALSE
INVARIANTS
    FleetTypeOK
    PromptIsNeverDead
PROPERTIES
    GraceIsKept
    CrashedIsForgotten
    DrainCompletes
