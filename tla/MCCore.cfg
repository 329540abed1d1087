\* Two threads calling WriteMessage, ReadMessage and Close on three handles.
CONSTANTS
    t1 = t1
    t2 = t2
    ha = ha
    hb = hb
    hc = hc
    hd = hd
    None = None
    Threads <- MCThreads
    Ports <- MCPorts
    PeerOf <- MCPeerOf
    Handles <- MCHandles
    PortOf <- MCPortOf
    Writes <- MCWrites
    MaxCalls = 2
SPECIFICATION Spec
INVARIANTS TypeOK HandlesMatchPorts
PROPERTIES TransitEnds SendLinearizable
CHECK_DEADLOCK FALSE
