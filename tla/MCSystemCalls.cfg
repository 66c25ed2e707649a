CONSTANTS
    Pid = {p1, p2, p3}
    Root = p1
    Commands <- AnyOutcome
    Outputs = {f1}
    Faults = TRUE
    Interrupts = TRUE
    MaxCalls = 2
    Terminal = Terminal
    Empty = Empty
    NULL = NULL
    Nobody = Nobody
SPECIFICATION FairSpec
CHECK_DEADLOCK FALSE
INVARIANTS
    CallerKeepsItsOutput
    ChildrenReaped
    ResultsNotWorse
PROPERTIES
    OutputIsInFile
    EveryCallEnds
