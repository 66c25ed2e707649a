CONSTANTS
    Client = {c1, c2}
    Stream <- OneLineEach
    Stored <- Empty
    Capacity = 2
    BUFFER_SIZE = 8
    BUFSIZ = 2
    Junk = {}
    Split = {}
    Impatient = {}
    Signals = FALSE
    Faults = FALSE
    MaxFd = 3
    MaxRuns = 1
    c1 = c1
    c2 = c2
    a1 = a1
    b1 = b1
    a2 = a2
    a3 = a3
    NL = NL
    SeekHead = SeekHead
    Comma = Comma
    SeekTail = SeekTail
    NoClient = NoClient
    NULL = NULL
SPECIFICATION Spec
CHECK_DEADLOCK FALSE
INVARIANTS
    AnsweredWhenDone
