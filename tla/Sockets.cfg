SPECIFICATION Spec
CONSTANTS
    s1 = s1
    s2 = s2
    Sock <- MCSock
    Programs <- MCPrograms
    MaxConns = 1
    MaxBytes = 2
SYMMETRY Symmetry
INVARIANTS
    
    PeerNamed
    ListenerKept
    UdpNames
    ListenersSurvive
CHECK_DEADLOCK FALSE
