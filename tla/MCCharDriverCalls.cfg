CONSTANTS
    N = 2
    Proc = {t1, t2}
    File = {f1}
    Ptr = {m1, m2, m3}
    Payloads <- TwoLengths
    Counts = {1, 2}
    Seeks <- Forward
    SeekTos <- TwoTargets
    Junk = {1}
    UserFaults = FALSE
    MaxLoads = 1
    MaxPos = 1
    MaxPartial = 2
    a = a
    Byte = {a, NL}
    NL = NL
    Zero = Zero
    NULL = NULL
    NoProc = NoProc
    Garbage = Garbage
SPECIFICATION FairSpec
CHECK_DEADLOCK FALSE
INVARIANTS
    TypeOK
    UnloadUnregisters
    LockHeldInside
PROPERTIES
    ReadReturnsContents
    SeekLandsOnPackedTarget
    LlseekStaysInside
    EveryCallReturns
