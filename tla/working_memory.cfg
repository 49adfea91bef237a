\* Redis, whose calls may fail, and two clients of one session.
CONSTANTS
    n1 = n1
    n2 = n2
    i1 = i1
    i2 = i2
    Clients = {k1, k2}
    Notes = {n1, n2}
    Items = {i1, i2}
    Texts = {x}
    FirstText = FirstText
    MarkSets <- Overlapping
    MaxNotes = 1
    UseRedis = TRUE
    MaxTime = 2
    MaxMarks = 1
    NoNote = NoNote
    NoItem = NoItem
    Never = Never
SPECIFICATION Spec
SYMMETRY Symmetric
CONSTRAINT Affordable
INVARIANTS NoteLimit RemovedStaysRemoved NoMarkOrUpdateLost
CHECK_DEADLOCK FALSE
