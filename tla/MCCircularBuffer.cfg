CONSTANTS
    N = 10
    NULL = NULL
    p1 = p1
    p2 = p2
    Entries <- MCEntries
SPECIFICATION Spec
INVARIANTS
    TypeOK
    Occupancy
    FindIsByteAtOffset
    SeekThenFind
PROPERTY LogSpec
