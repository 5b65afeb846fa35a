\* Two requests at a time, three in all, one failure or restart, and one job of another component.
SPECIFICATION Spec
CONSTANTS
    Segment <- SegmentDef
    Method = {get}
    Limit <- LimitDef
    Star = Star
    Param = Param
    Unset = Unset
    Off = Off
    a = a
    b = b
    get = get
    slow = slow
    fast = fast
    None = None
    Package = {p1, p2}
    Service = {s1}
    User = {u1}
    Alias = {x, y}
    p1 = p1
    x = x
    Initial <- InitialDef
    Resource <- ResourceDef
    LinkPaths <- LinkPathsDef
    Settings <- SettingsDef
    Handler = {h1, h2}
    MaxRequests = 3
    MaxFaults = 1
INVARIANTS TypeOK SerialExact LimitsAreOwn
PROPERTIES UniqueNames
SYMMETRY Symmetry
CHECK_DEADLOCK FALSE
