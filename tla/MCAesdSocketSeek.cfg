CONSTANTS
    Client = {c1, c2}
    Stream <- SeekSecondLine
    Stored <- TwoLinesStored
    Capacity = 2
    BUFFER_SIZE = 8
    BUFSIZ = 3
    Junk = {15}
    Split = {c2}
    Impatient = {}
    Signals = FALSE
    Faults = TRUE
    MaxFd = 3
    MaxRuns = 2
    c1 = c1
    c2 = c2
    a1 = a1
    b1 = b1
    a2 = a2
    a3 = a3
    NL = NL
    SeekHead = SeekHead
    Comma = Comma
    SeekTail = SeekTail
    NoClient = NoClient
    NULL = NULL
SPECIFICATION Spec
CHECK_DEADLOCK FALSE
INVARIANTS
    TypeOK
    OneStreamAtATime
    DescriptorsAccountedFor
    WholePacketsStayWhole
PROPERTIES
    SeekReadsFromTarget
