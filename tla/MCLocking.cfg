\* Two overlapping commands on one project: the graph, the snapshot, the answers.
SPECIFICATION Spec
CONSTANTS
    Commands = {c1, c2}
    Providers <- MCProviders
    Paths <- MCPaths
    Names <- MCNames
    Base <- MCBase
    Scannable <- MCScannable
    Snapshots = {one, two}
    Registry <- MCRegistry
    Projects <- MCProjects
    Demands <- MCDemands
    Traces <- MCTraces
    MaxChanges = 2
    NoLock = NoLock
    m = m
    d = d
    e = e
    r = r
    g = g
    t = t
    one = one
    two = two
SYMMETRY Symmetry
INVARIANTS
    LockingTypeOK
    ValidationAccepts
    NoOrphans
    OneSnapshot
    LockAnswers
PROPERTIES
    ConvergeExtends
CHECK_DEADLOCK FALSE
