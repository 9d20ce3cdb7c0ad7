CONSTANTS
  Pids = {1, 2}
  MaxKey = 3
  MaxLost = 1
  NumRetries = 4
  Reserve = 3
  K8s = TRUE
  PodInTime = TRUE
  Procs <- MCProcs
SPECIFICATION Spec
CHECK_DEADLOCK FALSE
INVARIANTS NotifiedOnce NothingUnsettled Balanced LiveReferenced
