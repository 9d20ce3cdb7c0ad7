CONSTANTS
  Pids = {1, 2}
  MaxKey = 3
  MaxLost = 0
  NumRetries = 2
  Reserve = 1
  K8s = TRUE
  PodInTime = FALSE
  Procs <- MCProcs
SPECIFICATION Spec
CHECK_DEADLOCK FALSE
INVARIANT LiveReferenced
