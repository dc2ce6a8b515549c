SPECIFICATION FairSpec
CONSTANTS
    Nobody = Nobody
    DeadClient = DeadClient
    NoJob = NoJob
    Nodes = {n1, n2}
    Slots = {s1, s2}
    Jobs = {j1}
    Configured = {j1}
    MaxHolds = 3
INVARIANTS
    IInv
PROPERTIES
    ImplementsExclusion
    OnlyHolderReleases
    LeftoverLockFreed
