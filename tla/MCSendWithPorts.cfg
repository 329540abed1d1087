\* Two threads racing sends that carry ports, with other locked operations.
CONSTANTS
    t1 = t1
    t2 = t2
    None = None
    Threads <- MCThreads
    Ports <- MCPorts
    PeerOf <- MCPeerOf
    Calls <- CallsRace
    OpPorts = {"c"}
    ClosePorts = {}
    MaxCalls = 2
SPECIFICATION Spec
INVARIANTS TypeOK SequenceRolledBack TakenOnce
CHECK_DEADLOCK FALSE
