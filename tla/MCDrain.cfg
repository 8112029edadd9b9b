SPECIFICATION ServiceSafety
CONSTANTS
    p1 = p1
    p2 = p2
    r1 = r1
    r2 = r2
    Pools <- MCPools
    Requests <- MCRequests
    NoPool = NoPool
    SampleCount = 2
    QueryTimeout = 1
    ExplainTimeout = 1
    WriteTimeout = 3
    MaxOverhead = 0
INVARIANT
    RequestsLostOnlyAfterDrainTimeout
\* The process exits.
CHECK_DEADLOCK FALSE
