SPECIFICATION Spec
CONSTANTS
  MaxPendingCommands = 2
  MaxFutureCommands = 2
  InitialCommandLead = 1
  CatchUpSteps = 2
  WireCounterMax = 4
  SampleTicks = 3
  BacklogSum = 2
  ResetCooldown = 0
  Retention = 0
  Contents = {a, b}
  MaxEpochs = 2
  MaxWindows = 2
  MaxSnapshots = 1
SYMMETRY ContentSymmetry
INVARIANTS OneContent WindowsAdmissible ClientNeverFaults StagedAdmissible RecordsMatch
CHECK_DEADLOCK FALSE
