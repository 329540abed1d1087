\* One thread sends a message carrying c and then a's peer b.
CONSTANTS
    t1 = t1
    t2 = t2
    None = None
    Threads <- MCThreads
    Ports <- MCPorts
    PeerOf <- MCPeerOf
    Calls <- CallsPeerSecond
    OpPorts = {"c"}
    ClosePorts = {}
    MaxCalls = 2
SPECIFICATION Spec
INVARIANT NoLockLeak
CHECK_DEADLOCK FALSE
