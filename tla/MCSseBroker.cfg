SPECIFICATION Spec
CONSTANTS
    Callers = {c1, c2}
    Clients = {k1, k2}
    Infos = {i1, i2}
    Publishers = {p1, p2, p3, p4}
    Events = {e1, e2}
    Capacity = 1
    NoInfo = NoInfo
    NoPublisher = NoPublisher
    NoEvent = NoEvent
    NoCaller = NoCaller
SYMMETRY Symmetry
INVARIANTS
    IInv
    NothingLost
    OpenIsReachable
PROPERTY
    ImplementsBroadcast
CHECK_DEADLOCK FALSE
