CONSTANTS
    ARENA_SIZE = 4
    Align = 2
    FIRST_ARENA_BASE = 2
    PAGE_SIZE = 3
    InitMem = 3
    MaxMem = 12
    U32 = 16
    Length <- MCLength
SPECIFICATION AllocSpec
INVARIANTS
    AllocTypeOK
    
PROPERTIES
    NoOverlap
    ExtensionFresh
