SPECIFICATION Spec
CONSTANTS
    Tors = {t1, t2, t3}
    Fds = {4, 5, 6}
    TOR_SIZE = 2
    NoTor = NoTor
    OtherReady = 1
INVARIANTS
    WatchExact
PROPERTIES
    ReadyIsServed
    CallsAreDue
