\* Fast-fail callers of two workers sharing global slots, crashes and storage faults.
CONSTANTS
    s1 = s1  s2 = s2  s3 = s3  s4 = s4  w1 = w1  w2 = w2
    Workers = {w1, w2}
    Schedulers = {s1, s2, s3, s4}
    WorkerOf <- TwoWorkers
    MaxPerWorker = 1
    MaxGlobal = 2
    FastFail = TRUE
    StorageFaults = TRUE
    MaxUses = 2
    NoOwner = NoOwner
SPECIFICATION Spec
SYMMETRY Sym
INVARIANTS
    SlotAccounting
    NothingKept
