\* Safety of the routing core: order, no loss, no OOPS, also when n2 dies.
CONSTANTS
    n1 = n1
    n2 = n2
    None = None
    Nodes <- MCNodes
    Endpoints <- MCEndpoints
    PeerOf <- MCPeerOf
    HomeOf <- MCHomeOf
    MaxSends <- SendsSafety
    MaxGen = 2
    Closers = {"c"}
    Losable = {n2}
SPECIFICATION Spec
INVARIANTS
    TypeOK
    InOrderDelivery
    NoOops
    MessagesNotLost
CHECK_DEADLOCK FALSE
