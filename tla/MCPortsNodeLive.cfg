\* Liveness of delivery: every message sent reaches the holder of the reading end.
CONSTANTS
    n1 = n1
    n2 = n2
    None = None
    Nodes <- MCNodes
    Endpoints <- MCEndpoints
    PeerOf <- MCPeerOf
    HomeOf <- MCHomeOf
    MaxSends <- SendsOneEach
    MaxGen = 2
    Closers = {"c"}
    Losable = {}
SPECIFICATION Spec
CHECK_DEADLOCK FALSE
PROPERTIES
    EventuallyAtReceiver
