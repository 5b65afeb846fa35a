\* Two requests at a time, three in all, and one failure or restart.
SPECIFICATION Spec
CONSTANTS
    Star = Star
    AnyParam = AnyParam
    Param = {i, j}
    i = i
    j = j
    u = u
    v = v
    None = None
    NoAlias = NoAlias
    Service = {s1, s2}
    Source = {d1, d2}
    BasePath = {x, y}
    Alias = {u, v}
    Initial <- InitialDef
    Body <- BodyDef
    Handler = {h1, h2}
    MaxRequests = 3
    MaxFaults = 1
INVARIANTS TypeOK SerialRefs SerialSnapshot
PROPERTIES UniqueNames
SYMMETRY Symmetry
CHECK_DEADLOCK FALSE
