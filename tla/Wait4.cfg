CONSTANTS
    n1 = n1
    n2 = n2
    n3 = n3
    n4 = n4
    t1 = t1
    t2 = t2
    p1 = p1
    child_event = child_event
    AnyPid = AnyPid
    Thread <- MCThread
    Pid <- MCPid
    Notify <- MCNotify
SPECIFICATION FairSpec
INVARIANTS
    TypeOK
    ReapsMatchEntries
PROPERTY ParkedWakes
CHECK_DEADLOCK FALSE
