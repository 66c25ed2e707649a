CONSTANTS
    N = 2
    Proc = {t1, t2}
    File = {f1}
    Ptr = {m1, m2, m3, m4}
    Payloads <- FaultyWrites
    Counts = {1}
    Seeks <- Back
    SeekTos <- OutOfRange
    Junk = {1}
    UserFaults = TRUE
    MaxLoads = 2
    MaxPos = 0
    MaxPartial = 3
    a = a
    Byte = {a, NL}
    NL = NL
    Zero = Zero
    NULL = NULL
    NoProc = NoProc
    Garbage = Garbage
SPECIFICATION Spec
SYMMETRY Symmetry
CHECK_DEADLOCK FALSE
INVARIANTS
    NoDanglingPointers
    MutualExclusion
PROPERTIES
    LineSpec
    FileOpsOrphanNothing
