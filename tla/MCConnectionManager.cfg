SPECIFICATION Spec
CONSTANTS
    c1 = c1
    c2 = c2
    u1 = u1
    u2 = u2
    Main = Main
    NoDB = NoDB
    Replacers <- MCReplacers
    Users <- MCUsers
INVARIANTS
    TypeOK
    EveryOpenPoolHasOneOwner
    ActivePoolIsPingedAndOpen
PROPERTIES
    NeverGivenASupersededPool
    CallersReturn
    ImplementsLifecycle
