SPECIFICATION FairSpec
CONSTANTS
  MaxPlayers = 1
  MaxQueuedControls = 1
  MaximumControls = 2
  MaxPendingJoins = 1
  MaxPendingControls = 2
  MaxGenerations = 2
  MaxIds = 1
PROPERTIES RequestsAnswered GhostsLeave
CHECK_DEADLOCK FALSE
