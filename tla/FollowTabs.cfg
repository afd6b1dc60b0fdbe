\* A test drives, switches, opens and closes tabs one command at a time.
CONSTANTS
    t1 = t1  t2 = t2  t3 = t3
    Tabs = {t1, t2}
    FirstTab = t1
    None = None
    MaxTests = 2
    MaxCommands = 4
    MaxReloads = 1
    StartFaults = TRUE
    StopFaults = TRUE
    TreeFaults = FALSE
    Stray = FALSE
SPECIFICATION Spec
INVARIANTS
    SlotFollowsCapture
    FailureIsOwn
    CompletedIsComplete
PROPERTIES
    SegmentFilmedOnce
