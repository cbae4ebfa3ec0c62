SPECIFICATION Spec
CONSTANTS
    s1 = s1
    s2 = s2
    Sock <- MCSock
    Programs <- MCPrograms
    MaxConns = 1
    MaxBytes = 2
SYMMETRY Symmetry
INVARIANTS
    PortSurvives
CHECK_DEADLOCK FALSE
