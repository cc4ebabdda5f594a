SPECIFICATION UpstreamEndsSpec
CONSTANTS
    d1 = d1
    d2 = d2
    a = a
    s = s
    None = None
    Poppers <- OneDispatcher
    Requests <- OneOfEach
    Streams = {s}
    PriorityOf <- MCPriorityOf
    Capacity = 1
    ChainLength = 2
    maxAttempts = 2
    ChunkBuffer = 1
    MaxChunks = 3
PROPERTY StreamIsClosed
CHECK_DEADLOCK FALSE
