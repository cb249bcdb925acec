SPECIFICATION Spec
CONSTANTS
    maxium = 3
    growth_rate = 2
    seed = 1
    radical = TRUE
    RefBound = 2
INVARIANTS
    NodesAccounted
PROPERTIES
    KeepsItsPromise
    Reclaimed
