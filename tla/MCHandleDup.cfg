CONSTANTS
    t1 = t1
    t2 = t2
    d1 = d1
    d2 = d2
    d3 = d3
    d4 = d4
    None = None
    Threads <- MCThreads
    Disps <- MCDisps
    MaxHandles = 2
    MaxCalls = 2
    MaxReceived = 2

SPECIFICATION Spec
SYMMETRY Symmetry
INVARIANT TableDispatchersOpen
CHECK_DEADLOCK FALSE
