SPECIFICATION FairSpec
CONSTANTS
    p1 = p1
    p2 = p2
    h1 = h1
    n3 = n3
    n1 = n1
    n2 = n2
    l1 = l1
    None = None
    Poppers <- TwoPoppers
    Requests <- FiveRequests
    PriorityOf <- MCPriorityOf
    Capacity = 2
INVARIANT TypeOK
PROPERTIES
    NoOvertakeOfEarlier
    ImplementsLaneQueue
    HighIsServed
CHECK_DEADLOCK FALSE
