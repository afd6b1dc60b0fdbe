\* Three schedulers queue in one worker for one slot and then compete with a
\* second worker for one global slot.
CONSTANTS
    s1 = s1  s2 = s2  s3 = s3  s4 = s4  w1 = w1  w2 = w2
    Workers = {w1, w2}
    Schedulers = {s1, s2, s3, s4}
    WorkerOf <- ThreeAndOne
    MaxPerWorker = 1
    MaxGlobal = 1
    FastFail = FALSE
    StorageFaults = FALSE
    MaxUses = 2
    NoOwner = NoOwner
SPECIFICATION FairSpec
INVARIANTS
    NoLostWakeup
    NoStrandedSlot
PROPERTIES
    AcquireReturns
    ImplementsPool
