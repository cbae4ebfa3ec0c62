CONSTANTS
    ARENA_SIZE = 10
    Align = 2
    Length <- MCLength
SPECIFICATION ListSpec
INVARIANT EntriesAreRuns
PROPERTY ImplementsArena
