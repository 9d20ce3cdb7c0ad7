SPECIFICATION MbSpec
CONSTANTS
    init = init
    a = a
    b = b
    p1 = p1
    p2 = p2
    p3 = p3
    Root = init
    Pids = {init}
    Paths = {"cron", "sh"}
    Policies = {p1, p2, p3}
    PathsOf <- ThePathsOf
    MaxIDs = 3
    IntBits = 2
    Batch = 1
    Tries = 2
    Budgets <- Removal
    Reuse = FALSE
CHECK_DEADLOCK FALSE
SYMMETRY Symmetry
INVARIANT FollowsAlways
