SPECIFICATION FairSpec
CONSTANTS
    Threads = {t1, t2, t3}
    JobKeys = {k1, k2}
    LockIds = {l1, l2, l3, l4}
    NoThread = NoThread
    NoKey = NoKey
    NoLock = NoLock
INVARIANTS
    IInv
    NoLockLeak
PROPERTIES
    ImplementsExclusion
    SkippedOnlyWhileHeld
    NeverStaysLocked
