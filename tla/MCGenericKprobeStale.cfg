SPECIFICATION Spec
CONSTANTS
    t1 = t1
    t2 = t2
    f = f
    g = g
    w1 = w1
    w2 = w2
    w3 = w3
    Cpus = {c1}
    Threads = {t1, t2}
    Funcs = {f}
    Whos = {w1, w2}
    InPolicy = {w1, w2}
    Values = {0, 1, 2}
    Unread = {2}
    Err = 1
    Policies <- OnePolicies
    MaxCalls = 2
    MaxDepth = 1
    RetprobeMax = 2
    Followed = TRUE
CHECK_DEADLOCK FALSE
INVARIANT ReturnMatches
