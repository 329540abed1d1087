\* A transferred port whose peer never sent: the proxy is never removed.
CONSTANTS
    n1 = n1
    n2 = n2
    None = None
    Nodes <- MCNodes
    Endpoints <- MCEndpoints
    PeerOf <- MCPeerOf
    HomeOf <- MCHomeOf
    MaxSends <- SendsTransferOnly
    MaxGen = 1
    Closers = {}
    Losable = {}
SPECIFICATION Spec
CHECK_DEADLOCK FALSE
PROPERTIES
    ProxiesCollapse
