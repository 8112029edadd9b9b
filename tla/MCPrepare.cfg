SPECIFICATION PrepareSpec
CONSTANTS
    N = 2
    Warehouses = 2
    Districts = 1
    Customers = 10
    Orders = 10
    LinesPerOrder = 1
    Items = 2
    BatchSize = 4
    Foreign = {"orders"}
    Slow = {"customer"}
    MaxCommands = 2
INVARIANTS
    PrepareTypeOK
    NoBindingLeftBehind
    RetainedHintForcesPlanIfAny
    FixtureIsExact
    SchemaIsReady
    WaitErrorNamesPending
PROPERTIES
    CommandEnds
\* The last command ends, and TiDB may have nothing left to do.
CHECK_DEADLOCK FALSE
