\* Parent and two children; the parent may crash while c1 still holds parent_name_.
CONSTANTS
    p = p
    c1 = c1
    c2 = c2
    i1 = i1
    i2 = i2
    None = None
    Parent = p
    Children <- MCChildren
    IntroChans <- MCIntroChans
    PortChild = c1
    Sends <- SendsBetweenChildren
    PortSends = 1
    Crashable = {p}
SPECIFICATION Spec
INVARIANT NoOops
CHECK_DEADLOCK FALSE
