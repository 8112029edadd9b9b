SPECIFICATION Spec
CONSTANTS
    K = 2
    Weights <- MCWeights
    MaxWeight = 5
    MaxRuns = 2
INVARIANTS
    TypeOK
    SuccessMeansDeadline
    TotalsAgree
    NoSessionSurvives
    EveryPickIsProportional
PROPERTIES
    QueriesRunBound
    Returns
\* The command returns.
CHECK_DEADLOCK FALSE
