SPECIFICATION Spec
CONSTANTS
    Threads = {t1, t2, t3}
    Elements = {e1, e2}
    Requests <- TheRequests
    MissedMax = 1
    MaxNotes = 3
SYMMETRY Symmetry
INVARIANTS OwnRequest Accounted
