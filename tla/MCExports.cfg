\* Every call of one caller, beside an importer, damage and repair.
SPECIFICATION FairSpec
CONSTANTS
    a = a
    x = x
    y = y
    Calls = {c1}
    Providers = {a}
    Objects = {x, y}
    Contents <- MCContents
    Kinds = {"index", "bundle", "file", "copy", "package", "asset"}
    MaxDamage = 1
INVARIANTS
    ExportsTypeOK
    OnlyVerifiedLeaves
    ImportedIntact
PROPERTIES
    ExportsSettle
