SPECIFICATION Spec
CONSTANTS
    Threads = {t1, t2}
    Elements = {e1, e2}
    Requests <- TheRequests
    MissedMax = 4
    MaxNotes = 4
SYMMETRY Symmetry
INVARIANTS OwnError OwnCall
