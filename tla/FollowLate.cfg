\* A test that has timed out sends one more command while its recording ends.
CONSTANTS
    t1 = t1  t2 = t2  t3 = t3
    Tabs = {t1}
    FirstTab = t1
    None = None
    MaxTests = 2
    MaxCommands = 1
    MaxReloads = 0
    StartFaults = FALSE
    StopFaults = FALSE
    TreeFaults = FALSE
    Stray = TRUE
SPECIFICATION Spec
INVARIANTS
    FailureIsOwn
