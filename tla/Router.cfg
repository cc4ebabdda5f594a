SPECIFICATION Spec
CONSTANTS
    w1 = w1
    w2 = w2
    w3 = w3
    h1 = h1
    h2 = h2
    h3 = h3
    Workers <- ThreeWorkers
    Handlers <- TwoHandlers
    CostPerHour <- MCCost
    CounterPeriod = 2
    maxRetries = 2
SYMMETRY HandlerSymmetry
INVARIANTS
    TypeOK
    InFlightAccurate
    QuietPickIsBest
    BadGatewayIsEarned
PROPERTY ImplementsRouting
