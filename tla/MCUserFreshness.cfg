\* One user, two edits, two failures or restarts, enough to open the breaker; one pod's events, which a queue of one drops.
SPECIFICATION FairSpec
CONSTANTS
    User = {u1}
    KeyOwner = {u1}
    Pod = {p1}
    OutboxSize = 1
    InboxSize = 1
    Concurrency = 1
    Trip = 2
    MaxPending = 1
    MaxWrites = 2
    MaxFaults = 2
INVARIANTS TypeOK
PROPERTIES FieldsConverge RevocationArrives
