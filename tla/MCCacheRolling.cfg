\* Two processes share the cache of a rolling registry.
SPECIFICATION FaultlessSpec
CONSTANTS
    Procs = {p1, p2}
    Policies = {"revalidate"}
    MaxVersion = 2
SYMMETRY Symmetric
INVARIANTS
    QuietCacheRevalidates
