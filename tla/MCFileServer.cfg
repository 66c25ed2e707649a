CONSTANTS
    Client = {c1}
    Stream <- OnePacket
    Stored <- Empty
    Capacity = 2
    BUFFER_SIZE = 8
    BUFSIZ = 2
    Junk = {}
    Split = {}
    Impatient = {c1}
    Signals = TRUE
    Faults = TRUE
    MaxFd = 3
    MaxRuns = 2
    MaxStamps = 1
    Stamp <- OneStamp
    c1 = c1
    a1 = a1
    b1 = b1
    Tick = Tick
    NL = NL
    SeekHead = SeekHead
    Comma = Comma
    SeekTail = SeekTail
    NoClient = NoClient
    NULL = NULL
    NoSize = NoSize
    Timer = Timer
SPECIFICATION FileFairSpec
CHECK_DEADLOCK FALSE
INVARIANTS
    FileTypeOK
    OneWriterAtATime
    TimestampsStayOutside
    ReplyIsFileWithPacket
PROPERTIES
    FileOnlyGrows
    TimestampsGoOn
