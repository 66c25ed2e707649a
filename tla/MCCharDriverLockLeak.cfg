CONSTANTS
    N = 2
    Proc = {t1, t2}
    File = {f1}
    Ptr = {m1, m2, m3}
    Payloads <- OneLine
    Counts = {2}
    Seeks <- OneSeek
    SeekTos <- OutOfRange
    Junk = {0}
    UserFaults = FALSE
    MaxLoads = 1
    MaxPos = 2
    MaxPartial = 1
    a = a
    Byte = {a, NL}
    NL = NL
    Zero = Zero
    NULL = NULL
    NoProc = NoProc
    Garbage = Garbage
SPECIFICATION Spec
CHECK_DEADLOCK FALSE
INVARIANT
    LockHeldInside
