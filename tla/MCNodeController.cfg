\* Parent and two children, no crash: bootstrap, token connection, introductions.
CONSTANTS
    p = p
    c1 = c1
    c2 = c2
    i1 = i1
    i2 = i2
    None = None
    Parent = p
    Children <- MCChildren
    IntroChans <- MCIntroChans
    PortChild = c1
    Sends <- SendsBetweenChildren
    PortSends = 2
    Crashable = {}
SPECIFICATION Spec
INVARIANTS TypeOK PortReadyFirst NoOops
PROPERTY PeerDeliveryRefined
CHECK_DEADLOCK FALSE
