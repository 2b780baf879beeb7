\* Two imports race for a corrupt object.
SPECIFICATION Spec
CONSTANTS
    Nobody = Nobody
    o1 = o1
    o2 = o2
    a = a
    b = b
    Procs = {p1, p2}
    Providers = {a, b}
    Objects = {o1, o2}
    Contents <- SharedObject
    Kinds = {"import"}
SYMMETRY Symmetric
PROPERTIES
    PublishedComplete
