\* The peer closes while the transferred port is in transit.
CONSTANTS
    n1 = n1
    n2 = n2
    None = None
    Nodes <- MCNodes
    Endpoints <- MCEndpoints
    PeerOf <- MCPeerOf
    HomeOf <- MCHomeOf
    MaxSends <- SendsTransferOnly
    MaxGen = 1
    Closers = {"c"}
    Losable = {}
SPECIFICATION Spec
CHECK_DEADLOCK FALSE
PROPERTIES
    ClosureObserved
