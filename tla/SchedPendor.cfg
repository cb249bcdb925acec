SPECIFICATION Spec
CONSTANTS
    c1 = c1
    c2 = c2
    NoCall = NoCall
    Calls <- MCCalls
    pendor_size = 3
PROPERTIES
    KeepsItsPromise
    TurnServesAll
    OuterCallsAreMade
