SPECIFICATION Spec
CONSTANTS
    w1 = w1
    w2 = w2
    w3 = w3
    h1 = h1
    h2 = h2
    h3 = h3
    Workers <- TwoWorkers
    Handlers <- ThreeHandlers
    CostPerHour <- MCCost
    CounterPeriod = 2
    maxRetries = 3
SYMMETRY HandlerSymmetry
INVARIANT NeverPanics
