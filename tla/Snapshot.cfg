SPECIFICATION Spec
CONSTANTS
    m1 = m1
    m2 = m2
    m3 = m3
    Module = {m1, m2, m3}
    NoHash = NoHash
    Data <- MCData
    Version = {1, 2}
    Programs <- MCPrograms
    FirstFd = 1
    FdLimit = 4
    MaxPages = 3
    MaxCount = 1
INVARIANTS
    
    MemoryRestored
    
