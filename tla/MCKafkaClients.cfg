SPECIFICATION Spec
CONSTANTS
    Callers = {c1, c2, c3}
    Producers = {p}
    Consumers = {q}
    Clients = {x1, x2}
    MaxCalls = 5
    NoId = NoId
    NoClient = NoClient
    NoCaller = NoCaller
INVARIANTS
    IInv
    ClientsAreReachable
    UnregisteredIsGone
PROPERTIES
    ListenEnds
CHECK_DEADLOCK FALSE
