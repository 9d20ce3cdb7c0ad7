SPECIFICATION MbSpec
CONSTANTS
    init = init
    a = a
    b = b
    p1 = p1
    p2 = p2
    p3 = p3
    Root = init
    Pids = {init, a, b}
    Paths = {"cron", "sh"}
    Policies = {p1, p2}
    PathsOf <- ThePathsOf
    MaxIDs = 2
    IntBits = 4
    Batch = 1
    Tries = 2
    Budgets <- Removal
    Reuse = FALSE
CHECK_DEADLOCK FALSE
SYMMETRY Symmetry
INVARIANT FreeIsUnused
