SPECIFICATION Spec
CONSTANTS
    p1 = p1
    h1 = h1
    n1 = n1
    n2 = n2
    metered = metered
    open = open
    None = None
    Poppers <- OnePopper
    Requests <- ThreeRequests
    PriorityOf <- MCPriorityOf
    Capacity = 2
    Keys <- TwoKeys
    Budgets = {0, 1}
    Minute = 2
    MaxAccrued = 2
    KeyOf <- MCKeyOf
    RequestsPerMin <- MCRequestsPerMin
    MaxWait <- MCMaxWait
    Concurrency = 1
    Latencies = {1, 3}
    Fallback = 2
INVARIANTS
    TypeOK
    BudgetKept
    SnapshotIsCurrent
PROPERTY AdmissionIsSound
CHECK_DEADLOCK FALSE
