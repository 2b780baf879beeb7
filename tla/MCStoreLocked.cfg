\* All calls that hold the store lock.
SPECIFICATION Spec
CONSTANTS
    Nobody = Nobody
    o1 = o1
    o2 = o2
    a = a
    b = b
    Procs = {p1, p2}
    Providers = {a, b}
    Objects = {o1, o2}
    Contents <- SharedObject
    Kinds = {"install", "offline", "materialize", "hydrate", "prepare"}
INVARIANTS
    StoreTypeOK
    InspectionHolds
    InstalledIntact
PROPERTIES
    PublishedComplete
    InstallsRecover
