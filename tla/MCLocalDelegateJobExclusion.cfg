SPECIFICATION Spec
CONSTANTS
    Threads = {t1, t2, t3}
    JobKeys = {k1, k2}
    LockIds = {l1, l2, l3, l4}
    NoThread = NoThread
    NoKey = NoKey
    NoLock = NoLock
SYMMETRY Symmetry
INVARIANT MutualExclusion
