SPECIFICATION Spec
CONSTANTS
    t1 = t1
    t2 = t2
    f = f
    g = g
    w1 = w1
    w2 = w2
    w3 = w3
    Cpus = {c1, c2}
    Threads = {t1, t2}
    Funcs = {f, g}
    Whos = {w1, w2, w3}
    InPolicy = {w1, w2}
    Values = {0, 1, 2}
    Unread = {2}
    Err = 1
    Policies <- TwoPolicies
    MaxCalls = 2
    MaxDepth = 2
    RetprobeMax = 1
    Followed = TRUE
CHECK_DEADLOCK FALSE
SYMMETRY Symmetry
INVARIANTS FirstMatch ListExecuted Marked
PROPERTY Paired
