SPECIFICATION Spec
CONSTANTS
    Callers = {c1, c2}
    Identities = {a, b}
    Infos = {i1, i2}
    Contexts = {x1, x2, x3}
    Controllers = {k1, k2}
    MaxCalls = 5
    MaxBreaks = 1
    NoIdentity = NoIdentity
    NoInfo = NoInfo
    NoContext = NoContext
    NoController = NoController
SYMMETRY Symmetry
INVARIANTS
    IInv
    
    RunningIsReachable
    OneController
CHECK_DEADLOCK FALSE
