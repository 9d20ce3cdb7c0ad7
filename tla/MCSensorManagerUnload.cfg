CONSTANTS
  Goroutines = {g1, g2}
  PolicyKeys = {p1}
  ClusterWide = {}
  NumSensors = 1
  MaxCols = 1
  MaxRequests = 3
SPECIFICATION Spec
CHECK_DEADLOCK FALSE
INVARIANTS UnloadSucceeds
