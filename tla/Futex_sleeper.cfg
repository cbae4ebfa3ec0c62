CONSTANTS
    n1 = n1
    n2 = n2
    n3 = n3
    t1 = t1
    t2 = t2
    t3 = t3
    Thread <- MCThread
    Addr <- MCAddr
    Notify <- MCNotify
    WakeVal <- MCWakeVal
    Timed <- MCTimed
    MaxWaiters = 3
    MaxReported = 3
SPECIFICATION Spec
SYMMETRY Symmetry
INVARIANT SleeperReachable
