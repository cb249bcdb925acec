SPECIFICATION TimerSpec
CONSTANTS
    p1 = p1
    p2 = p2
    p3 = p3
    NoPupa = NoPupa
    Pupas <- MCPupas
    Intervals <- MCIntervals
    MaxAge = 2
INVARIANTS
    HandleAgrees
    OneShotOnce
PROPERTIES
    NoTimerStarves
    OneShotFires
