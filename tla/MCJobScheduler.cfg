SPECIFICATION Spec
CONSTANTS
    Names = {a}
    NoGroup = NoGroup
    NoTask = NoTask
    NoJob = NoJob
    NoCall = NoCall
    NoRun = NoRun
    Callers = {c1, c2}
    Workers = {w1}
    AllowOptions = {FALSE}
    Groups = {"microfox"}
SYMMETRY Symmetry
INVARIANTS
    IInv
    RegistryMatchesSchedule
