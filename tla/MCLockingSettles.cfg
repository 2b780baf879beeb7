\* Two commands that render and converge for ever after one lock.
SPECIFICATION FairSpec
CONSTANTS
    Commands = {c1, c2}
    Providers <- MCProviders
    Paths <- MCPaths
    Names <- MCNames
    Base <- MCBase
    Scannable <- MCScannable
    Snapshots = {one, two}
    Registry <- MCRegistry
    Projects <- LiteralProject
    Demands <- MCDemands
    Traces <- PathTraces
    MaxChanges = 1
    NoLock = NoLock
    m = m
    d = d
    e = e
    r = r
    g = g
    t = t
    one = one
    two = two
PROPERTIES
    CommandsReturn
    ConvergenceSettles
CHECK_DEADLOCK FALSE
