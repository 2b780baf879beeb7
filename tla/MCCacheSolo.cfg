\* One process at a time, a rolling registry.
SPECIFICATION FairSpec
CONSTANTS
    Procs = {p1}
    Policies = {"revalidate", "immutable", "offline"}
    MaxVersion = 3
INVARIANTS
    CacheTypeOK
    RevalidatedIsFresh
PROPERTIES
    RevalidationRecovers
