\* The comment on the ownership record, against what a crash leaves.
SPECIFICATION Spec
CONSTANTS
    NoLock = NoLock
    Nobody = Nobody
    Procs = {p1, p2}
    Locks = {l1, l2}
    Files = {f1, f2}
INVARIANTS
    DisownedOnlyForStrangers
