CONSTANTS
    Client = {c1, c2}
    Stream <- TwoLines
    Stored <- Empty
    Capacity = 1
    BUFFER_SIZE = 8
    BUFSIZ = 1
    Junk = {}
    Split = {c1, c2}
    Impatient = {c1}
    Signals = TRUE
    Faults = FALSE
    MaxFd = 3
    MaxRuns = 2
    c1 = c1
    c2 = c2
    a1 = a1
    b1 = b1
    a2 = a2
    a3 = a3
    NL = NL
    SeekHead = SeekHead
    Comma = Comma
    SeekTail = SeekTail
    NoClient = NoClient
    NULL = NULL
SPECIFICATION FairSpec
CHECK_DEADLOCK FALSE
INVARIANTS
    PacketsStored
    ReplyHasOwnPacket
PROPERTIES
    EveryPacketAnswered
