SPECIFICATION IdMapSpec
CONSTANTS
    Pods = {"p", "q"}
    Conts = {"c1", "c2", "c3"}
    Home <- TheHome
    CgIds = {"c1", "c2", "c3", "s1"}
    IdsOf <- Subgroup
    EnableCRI = TRUE
    InitCap = 1
    MaxUnmapped = 1
CHECK_DEADLOCK FALSE
INVARIANT RightContainer
