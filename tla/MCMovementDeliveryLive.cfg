SPECIFICATION FairSpec
CONSTANTS
  MaxPendingCommands = 2
  MaxFutureCommands = 2
  InitialCommandLead = 1
  CatchUpSteps = 1
  WireCounterMax = 2
  SampleTicks = 1
  BacklogSum = 2
  ResetCooldown = 1
  Retention = 1
  Contents = {a}
  MaxEpochs = 2
  MaxWindows = 1
  MaxSnapshots = 1
INVARIANT TypeOK
PROPERTY EpochStarts
CHECK_DEADLOCK FALSE
