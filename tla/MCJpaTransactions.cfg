SPECIFICATION Spec
CONSTANTS
    NoEm = NoEm
    MaxErrors = 1
    Identities = {A, B}
    Ems = {e1, e2, e3, e4, e5}
    Writes = {w1, w2}
    MaxDepth = 3
SYMMETRY Symmetry
INVARIANTS
    IInv
    NothingLeftBehind
    EmOfBodyIsOpen
    NoAccidentalNesting
PROPERTIES
    AllOrNothing
