CONSTANTS
  Producers = {"observer", "cache"}
  Clients = {"a", "b"}
  Aggregated = {"b"}
  Wanted <- TheWanted
  QueueSize = 2
  BufferSizes = {0, 1}
  MaxEvents = 3
SPECIFICATION FairSpec
INVARIANTS InOrder OnlyOwnLoss Listening
PROPERTIES NeverBlocks Arrives
