SPECIFICATION TreeSpec
CONSTANTS
    r = r
    m = m
    a = a
    b = b
    c = c
    e = e
    NoNode = NoNode
    Animi <- MCAnimi
    Compactor <- MCCompactor
    UniqueSub <- MCUniqueSub
    Relays <- MCRelays
    StopPass <- MCPass
    GoonPass <- MCPass
    Subors <- MCSubors
    MaxDepth = 7
INVARIANT TreeTypeOK
PROPERTIES
    StopIsObeyedUnlessWalkedAgain
    CutShortOnlyIfAsked
