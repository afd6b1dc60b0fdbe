\* Two processes, one of which may be killed, and file operations that fail
\* until the storage recovers.
CONSTANTS
    p1 = p1  p2 = p2  p3 = p3
    i1 = i1  i2 = i2  i3 = i3
    None = None  Malformed = Malformed  Unread = Unread
    Contenders = {p1, p2}
    Mortal = {p1}
    Inodes = {i1, i2}
    Faults = TRUE
    Stalls = TRUE
    WindowRaces = FALSE
SPECIFICATION FairSpec
PROPERTIES
    OnlyOwnFileRemoved
    AbandonedReclaimed
