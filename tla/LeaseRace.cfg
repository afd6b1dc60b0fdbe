\* Two processes reclaim the file of a third, killed one at the same time.
CONSTANTS
    p1 = p1  p2 = p2  p3 = p3
    i1 = i1  i2 = i2  i3 = i3
    None = None  Malformed = Malformed  Unread = Unread
    Contenders = {p1, p2, p3}
    Mortal = {p1}
    Inodes = {i1, i2, i3}
    Faults = FALSE
    Stalls = FALSE
    WindowRaces = TRUE
SPECIFICATION Spec
INVARIANTS
    LiveLeaseKept
