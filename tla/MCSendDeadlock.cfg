\* a sends c while c sends a.
CONSTANTS
    t1 = t1
    t2 = t2
    None = None
    Threads <- MCThreads
    Ports <- MCPorts
    PeerOf <- MCPeerOf
    Calls <- CallsCrossed
    OpPorts = {}
    ClosePorts = {}
    MaxCalls = 1
SPECIFICATION Spec
PROPERTY CallsReturn
CHECK_DEADLOCK FALSE
