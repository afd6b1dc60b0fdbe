SPECIFICATION FairSpec
CONSTANTS
    None = None
    Us = l1
    Launchers = {l1, l2}
    Pids = {1, 2}
    Scenes <- Runs
INVARIANTS
    EntryTruthful
    NothingForgotten
    OwnVideoShown
PROPERTIES
    OtherRunsKept
    RunReported
CHECK_DEADLOCK FALSE
