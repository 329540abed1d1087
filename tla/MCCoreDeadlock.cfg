\* Two threads: a sends its peer b while b sends c.
CONSTANTS
    t1 = t1
    t2 = t2
    ha = ha
    hb = hb
    hc = hc
    hd = hd
    None = None
    Threads <- MCThreads
    Ports <- MCPorts
    PeerOf <- MCPeerOf
    Handles <- MCHandles
    PortOf <- MCPortOf
    Writes <- WritesChained
    MaxCalls = 1
SPECIFICATION Spec
PROPERTY TransitEnds
CHECK_DEADLOCK FALSE
