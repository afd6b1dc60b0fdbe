\* One worker's jobs, a teardown and another process want the same name.
CONSTANTS
    c1 = c1  d1 = d1  p1 = p1
    Chained = {c1}
    Deferred = {d1}
    Settings <- Scenes
    PostProcessSlots = 1
    RunTimeouts = TRUE
    MaxTeardowns = 1
    Others = {p1}
    Candidates = 2
    None = None  Foreign = Foreign
SPECIFICATION FairSpec
INVARIANTS
    OnlyWholeArtifacts
    SourceReplaced
    TemporaryAccounted
    UnavailableForCause
PROPERTIES
    TeardownReturns
    NothingReplaced
    LiveTemporaryKept
CHECK_DEADLOCK FALSE
