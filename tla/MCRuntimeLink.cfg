SPECIFICATION FairSpec
CONSTANTS
  Streams = {"input"}
  Servers = {"server"}
  MaxQueuedControls = 1
  MaxQueuedData = 1
  MaxHanded = 3
  MaxHeartbeats = 1
INVARIANTS Accounted SentInOrder FinalsAlone
PROPERTIES ShutdownEnds
CHECK_DEADLOCK FALSE
