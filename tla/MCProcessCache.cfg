CONSTANTS
  Procs = {p1, p2}
  Goroutines = {g1, g2}
  CacheSize = 1
  RefMax = 4
  MaxOwed = 2
SPECIFICATION FairSpec
CHECK_DEADLOCK FALSE
INVARIANTS TypeOK GaugeIsSize QueuedOnce Ledger NoLostDelete
PROPERTIES LeavesWhenDue ImplementsAbs SendsComplete CollectedUnlessBounced
