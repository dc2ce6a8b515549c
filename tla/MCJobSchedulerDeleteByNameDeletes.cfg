SPECIFICATION Spec
CONSTANTS
    Names = {a}
    NoGroup = NoGroup
    NoTask = NoTask
    NoJob = NoJob
    NoCall = NoCall
    NoRun = NoRun
    Callers = {c1, c2}
    Workers = {w1, w2}
    AllowOptions = {TRUE, FALSE}
    Groups = {"microfox"}
PROPERTY DeleteByNameDeletes
