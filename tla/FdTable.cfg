CONSTANTS
    p1 = p1
    p2 = p2
    p3 = p3
    epoll = epoll
    listener = listener
    U32 = 5
    FirstFd = 1
    FdLimit = 4
    Object <- MCObject
    Special <- MCSpecial
    Inherited <- MCInherited
SPECIFICATION TableSpec
SYMMETRY Symmetry
INVARIANTS
    TableTypeOK
    NextFdAboveBound
PROPERTY NoSilentRebind
