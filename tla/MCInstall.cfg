\* Crashes and failed system calls at every step; nobody else touches the trees.
SPECIFICATION FairSpec
CONSTANTS
    NoLock = NoLock
    Nobody = Nobody
    Procs = {p1, p2}
    Locks = {l1, l2}
    Files = {f1, f2}
INVARIANTS
    NeverPartial
PROPERTIES
    OldTreeSurvives
    Linearized
    EveryCallReturns
    RetryRestores
