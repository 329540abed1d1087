\* n2 may die while a carries c or d to it: the port left holding the other end never learns.
CONSTANTS
    n1 = n1
    n2 = n2
    None = None
    Nodes <- MCNodes
    Endpoints <- MCEndpoints
    PeerOf <- MCPeerOf
    HomeOf <- MCHomeOf
    MaxSends <- SendsTransferOnly
    MaxGen = 2
    Closers = {}
    Losable = {n2}
SPECIFICATION Spec
CHECK_DEADLOCK FALSE
PROPERTIES
    PeerLossObserved
