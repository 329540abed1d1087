\* c1 and c2 may crash: the loss is observed by every live node; the peers_ lookups still hold; without a crash, the message c1 forwards to c2 is delivered and the token connection completes.
CONSTANTS
    p = p
    c1 = c1
    c2 = c2
    i1 = i1
    i2 = i2
    None = None
    Parent = p
    Children <- MCChildren
    IntroChans <- MCIntroChans
    PortChild = c1
    Sends <- SendsOneWay
    PortSends = 0
    Crashable = {c1, c2}
SPECIFICATION Spec
INVARIANTS NoOops
PROPERTIES PeerDeliveryRefined PeerLossDetected EventuallyDelivered TokenConnects
CHECK_DEADLOCK FALSE
