SPECIFICATION FairSpec
CONSTANTS
    w1 = w1
    t1 = t1
    t2 = t2
    Workers <- OneId
    Timers <- TwoTimers
    ModelLists <- Models
    Loads = {"load"}
    DeadTimeout = 3
    DeadGrace = 1
    MaxCallbacks = 2
    Stalling = {}
INVARIANTS
    TypeOK
    SilenceIsWatched
PROPERTIES
    NoResurrection
    SilentIsDetected
    ImplementsMembership
