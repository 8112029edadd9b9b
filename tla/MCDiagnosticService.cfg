SPECIFICATION ServiceSpec
CONSTANTS
    p1 = p1
    p2 = p2
    r1 = r1
    r2 = r2
    Pools <- MCPools
    Requests <- OneRequest
    NoPool = NoPool
    SampleCount = 3
    QueryTimeout = 3
    ExplainTimeout = 3
    WriteTimeout = 14
    MaxOverhead = 3
INVARIANTS
    LateOnlyByOverhead
    ServiceTypeOK
    SuccessMeansAllExplained
    ReportsStayOnOnePool
PROPERTIES
    ValidateEnds
    SignalEndsProcess
\* The process exits.
CHECK_DEADLOCK FALSE
