\* Two requests at a time, three in all, one failure or restart, and one session for each user.
SPECIFICATION Spec
CONSTANTS
    None = None
    r = r
    a = a
    n = n
    s1 = s1
    s2 = s2
    x = x
    y = y
    z = z
    User = {r, a, n}
    Email = {x, y, z}
    Session = {s1, s2, s3, s4, s5}
    Initial <- InitialDef
    SignedIn <- SignedInDef
    MaxSessions = 1
    Handler = {h1, h2}
    MaxRequests = 3
    MaxFaults = 1
INVARIANTS TypeOK RevokedStays RolesAreRoots
PROPERTIES UniqueEmails SessionLimit
SYMMETRY Symmetry
CHECK_DEADLOCK FALSE
