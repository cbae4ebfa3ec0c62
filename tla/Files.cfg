CONSTANTS
    Name = {1, 2}
    Preopen <- MCPreopen
    HostDirs <- MCHostDirs
    GuestPath <- MCGuestPath
    Fd = {3, 4}
    MaxOpen = 1
    MaxInode = 1
    MaxSize = 3
    MaxNodes = 5
    Chunk = 2
    RecLen = 2
    OpenFlags <- MCOpenFlags
    Lens <- MCLens
SPECIFICATION Spec
CHECK_DEADLOCK FALSE
INVARIANTS
    CwdUnderRoot
    
    ReadvIsRead
    DirStream
 
