SPECIFICATION FleetFairSpec
CONSTANTS
    w1 = w1
    t1 = t1
    t2 = t2
    Workers <- OneWorker
    Timers <- TwoTimers
    Spares = {}
    ModelLists <- Models
    Loads = {}
    DeadTimeout = 2
    DeadGrace = 1
    MaxCallbacks = 1
    Stalling = {}
    Boot = {"STARTING", "READY"}
    MaxMissed = 2
    StrayBeats = FALSE
PROPERTY UnknownReregisters
