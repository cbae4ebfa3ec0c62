CONSTANTS
    Pipe = {p1}
    MaxFd = 6
    MaxBytes = 2
    MaxDups = 1
    Programs <- MCPrograms
    Events <- MCEvents
    MaxCounter = 2
    MaxAdded = 3
    MaxEntries = 1
    MaxAsked = 1
SPECIFICATION Spec
CHECK_DEADLOCK FALSE
INVARIANTS
    StreamFifo
    EventConserved
    NeverSleepsReady
    
PROPERTY TimedWaitReturns
