\* Three processes, one of which may be killed, and stalled candidates; nobody
\* runs between a re-check and its unlink.
CONSTANTS
    p1 = p1  p2 = p2  p3 = p3
    i1 = i1  i2 = i2  i3 = i3
    None = None  Malformed = Malformed  Unread = Unread
    Contenders = {p1, p2, p3}
    Mortal = {p1}
    Inodes = {i1, i2, i3}
    Faults = FALSE
    Stalls = TRUE
    WindowRaces = FALSE
SPECIFICATION Spec
SYMMETRY Sym
INVARIANTS
    LiveLeaseKept
