\* Two logs, one of them undecodable, against a queue of one, two pods and a stream that retains
\* one entry: every queue, batch and retention limit is reached.  Two failures or restarts.
SPECIFICATION FairSpec
CONSTANTS
    Log = {l1, l2}
    Garbage = {l2}
    Worker = {w1}
    Consumer = {c1, c2}
    NoLog = NoLog
    QueueSize = 1
    MaxAttempts = 2
    MaxLen = 1
    FlushSize = 2
    ReadCount = 2
    MaxFaults = 2
INVARIANTS TypeOK AckedIsStored NothingUnaccounted NoDoubleWork DuplicatesNeedFault
PROPERTIES ImplementsDelivery EventuallySettled
