\* One mirror or export run at a time, beside two tabs.
SPECIFICATION DeliverySpec
CONSTANTS
    a = a
    b = b
    x = x
    s = s
    Others = Others
    Nobody = Nobody
    NoTab = NoTab
    Runs = {r1}
    Snapshots = {s}
    Packages = {a, b}
    Objects = {x}
    SnapshotOf <- MCSnapshotOf
    Contents <- MCContents
    Tabs = {t1, t2}
    Asset = x
INVARIANTS
    DeliveryTypeOK
    CatalogComplete
    ReadersVerified
PROPERTIES
    CleanFailure
    EveryoneReturns
    DeliverySucceeds
