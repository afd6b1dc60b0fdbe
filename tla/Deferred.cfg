\* Three segments of one entry and one of another, transcoded or merged.
CONSTANTS
    e1 = e1  e2 = e2  None = None
    Entries = {e1, e2}
    EntryOf <- TwoEntries
    Segments = {1, 2, 3, 4}
    Settings <- AllModes
    MaxProcesses = 2
SPECIFICATION FairSpec
INVARIANTS
    OutcomeExact
    CompletedIsTrue
    NothingLost
    ListedInOrder
    IncompleteNotProcessed
PROPERTIES
    EntrySettles
