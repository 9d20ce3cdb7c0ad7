CONSTANTS
  Goroutines = {g1, g2}
  PolicyKeys = {p1}
  ClusterWide = {p1, p2}
  NumSensors = 2
  MaxCols = 2
  MaxRequests = 4
SPECIFICATION FairSpec
CHECK_DEADLOCK FALSE
INVARIANTS Listed OneWorker FilterAgrees
PROPERTY Completes
