SPECIFICATION FairSpec
CONSTANTS
  Producers = {"game", "worker"}
  Flushers = {"handler"}
  Threads = {"game", "worker", "handler", "closer"}
  Capacity = 2
  MaxPushes = 3
  MaxFlushes = 1
INVARIANTS FlushHonest ClosedComplete
PROPERTIES NothingLeftWaiting
CHECK_DEADLOCK FALSE
