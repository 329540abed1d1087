\* The receiving port is closed with a transferred port queued.
CONSTANTS
    n1 = n1
    n2 = n2
    None = None
    Nodes <- MCNodes
    Endpoints <- MCEndpoints
    PeerOf <- MCPeerOf
    HomeOf <- MCHomeOf
    MaxSends <- SendsTransferOnly
    MaxGen = 1
    Closers = {"b"}
    Losable = {}
SPECIFICATION Spec
CHECK_DEADLOCK FALSE
INVARIANTS
    NoOrphanPorts
