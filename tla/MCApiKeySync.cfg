\* One user's key, which an admin may also change, two handlers at a time, two changes, one failure or restart.
SPECIFICATION FairSpec
CONSTANTS
    u1 = u1
    u2 = u2
    User = {u1, u2}
    Role <- MCRole
    Owner <- MCOwner
    Key = {k1}
    Handler = {h1, h2}
    Gateway = {g1}
    InboxSize = 1
    MaxWrites = 2
    MaxFaults = 1
INVARIANTS TypeOK
PROPERTIES RevocationConverges
