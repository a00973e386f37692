SPECIFICATION SpecWorkspace
CONSTANTS
    n1 = n1
    n2 = n2
    t1 = t1
    Names = {n1, n2}
    Threads = {t1}
    Proposals = {p1}
    Start <- MCStart
    MaxWrites = 1
    MaxBody = 3
    MaxTyped = 1
INVARIANTS ReferencesResolve
PROPERTIES CaptureReuses AgentTouchesOwnEntries
CHECK_DEADLOCK FALSE
