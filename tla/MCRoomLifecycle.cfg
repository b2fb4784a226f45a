SPECIFICATION Spec
CONSTANTS
  MaxPlayers = 1
  MaxQueuedControls = 1
  MaximumControls = 2
  MaxPendingJoins = 1
  MaxPendingControls = 2
  MaxGenerations = 2
  MaxIds = 2
INVARIANTS TypeOK NoFault OnlyOwnGeneration FullOnlyAfterLoss MembersAgree
PROPERTY ServiceSpec
CHECK_DEADLOCK FALSE
