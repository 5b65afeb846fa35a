\* Two requests at a time, three keys, one transformed, memory for five units, bodies of up to four buffered.
SPECIFICATION Spec
CONSTANTS
    Conn = {c1, c2}
    Key = {k1, k2, k3}
    Directive <- DirectiveDef
    Response <- ResponseDef
    Transformed = {k1}
    k1 = k1
    k2 = k2
    k3 = k3
    Stream = {s1, s2}
    NoStream = NoStream
    Second = 2
    DefaultTTL = 1
    MaxBytes = 5
    Overhead = 1
    MaxCacheable = 2
    MaxBuffer = 4
    MaxRequests = 3
    MaxElsewhere = 1
INVARIANTS TypeOK MemoryFits HitsAreFresh OneReader
SYMMETRY Symmetry
