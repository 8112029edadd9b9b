SPECIFICATION Spec
CONSTANTS
    Requests = {r1, r2, r3}
    Schemas = {"s1", "s2"}
    MaxOpen = 2
    MaxIdle = 1
    MaxBorrows = 1
INVARIANTS
    TypeOK
    RunsInItsOwnSchema
PROPERTIES
    EveryBorrowerIsServed
