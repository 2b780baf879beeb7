\* Two processes, two candidate URLs, two required files.
SPECIFICATION Spec
CONSTANTS
    Procs = {p1, p2}
    Sources = 2
    Backoffs = 2
    MaxRedirects = 1
    Required = {f, g}
    EntryLimit = 1
    TotalLimit = 1
INVARIANTS
    FetchTypeOK
    AttemptsAccounted
PROPERTIES
    OnlyVerifiedDelivered
    CacheNeverWorsens
    EveryFetchEnds
    FetchesRecover
