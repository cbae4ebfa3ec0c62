SPECIFICATION Spec
CONSTANTS
    a4 = a4
    b6 = b6
    Thread = {t1, t2}
    Name = {n1, n2}
    V4 = {a4}
    V6 = {b6}
    Answers <- MCAnswers
    Denylists <- MCDenylists
    TTLs = {0, 2}
    Timeout = 1
    MaxCacheEntries = 1
    ScratchBytes = 110
INVARIANTS
    Fresh
    ListWellFormed
PROPERTIES
    LookupEnds
