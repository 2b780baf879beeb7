\* Between calls, users damage, create or delete the destination directory.
SPECIFICATION MeddledSpec
CONSTANTS
    NoLock = NoLock
    Nobody = Nobody
    Procs = {p1, p2}
    Locks = {l1, l2}
    Files = {f1, f2}
PROPERTIES
    ForeignKept
    OkMeansInstalled
    
