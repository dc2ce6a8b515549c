SPECIFICATION Spec
CONSTANTS
    NoEm = NoEm
    MaxErrors = 1
    Identities = {A, B}
    Ems = {e1, e2, e3, e4}
    Writes = {w1}
    MaxDepth = 3
INVARIANT NotSupportedRunsOutside
