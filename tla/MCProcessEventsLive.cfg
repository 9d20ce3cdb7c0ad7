CONSTANTS
  Pids = {1, 2}
  MaxKey = 2
  MaxLost = 1
  NumRetries = 2
  Reserve = 1
  K8s = TRUE
  PodInTime = FALSE
  Procs <- MCProcs
SPECIFICATION FairSpec
CHECK_DEADLOCK FALSE
PROPERTY CatchesUp
