SPECIFICATION FairSpec
CONSTANTS
    w1 = w1
    w2 = w2
    h1 = h1
    Nobody = Nobody
    Workers <- TwoWorkers
    Handlers <- OneHandler
    ModelLists <- Lists
    ModelsOf <- MCModelsOf
    DeadTimeout = 0
    maxRetries = 3
    Hanging = {w2}
    Endpoints = {"workers", "worker", "stats", "models", "metrics", "warnings"}
INVARIANTS
    TypeOK
    QuietReportIsExact
    ReportIsPlausible
PROPERTY GoneIsLeftAlone
