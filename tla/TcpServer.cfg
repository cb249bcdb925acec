SPECIFICATION Spec
CONSTANTS
    c1 = c1
    c2 = c2
    Fd1 = Fd1
    Fd2 = Fd2
    Fd3 = Fd3
    Children <- MCChildren
    Fds <- MCFds
    Root = Root
    NoFd = NoFd
INVARIANTS
    WatchedIsOpen
    EachFileHasItsKeeper
    EachObjectHasItsPlace
    AlarmIsOwn
    WatchedWhileBlocked
PROPERTIES
    NoSilentEnd
    GoneIsNoticed
