\* Tests that time out, sessions that are reloaded and stops that fail: hooks
\* return and recordings end.
CONSTANTS
    t1 = t1  t2 = t2  t3 = t3
    Tabs = {t1, t2}
    FirstTab = t1
    None = None
    MaxTests = 1
    MaxCommands = 2
    MaxReloads = 1
    StartFaults = TRUE
    StopFaults = TRUE
    TreeFaults = TRUE
    Stray = TRUE
SPECIFICATION FairSpec
PROPERTIES
    EveryRecordingCloses
    HooksReturn
