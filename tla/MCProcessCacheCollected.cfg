CONSTANTS
  Procs = {p1}
  Goroutines = {g1, g2}
  CacheSize = 1
  RefMax = 4
  MaxOwed = 2
SPECIFICATION FairSpec
CHECK_DEADLOCK FALSE
PROPERTY Collected
