CONSTANTS
    Thread = {t1, t2}
    Block = {b1, b2, b3}
    Mutex = {m1, m2}
    Faults = TRUE
    MaxStarts = 4
    MaxHolds = 2
    NULL = NULL
    NoOne = NoOne
    Caller = Caller
SPECIFICATION FairSpec
CHECK_DEADLOCK FALSE
INVARIANTS
    TypeOK
    DataHasOneOwner
    HolderOwnsMutex
    SuccessMeansReleased
PROPERTIES
    EveryThreadReturns
