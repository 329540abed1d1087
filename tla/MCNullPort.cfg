\* Two sends of the same port c, from a and from b.
CONSTANTS
    t1 = t1
    t2 = t2
    None = None
    Threads <- MCThreads
    Ports <- MCPorts
    PeerOf <- MCPeerOf
    Calls <- CallsSameCarried
    OpPorts = {}
    ClosePorts = {}
    MaxCalls = 1
SPECIFICATION Spec
INVARIANT NoNullPort
CHECK_DEADLOCK FALSE
