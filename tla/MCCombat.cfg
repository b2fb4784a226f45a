SPECIFICATION Spec
CONSTANTS
  Players = {1, 2}
  MaximumHp = 2
  PartDamages = {1, 2}
  MagazineCapacity = 3
  CooldownTicks = 2
  ReloadTicks = 2
  RespawnTicks = 1
  MaxShotHoldTicks = 1
  MaxShotStepLead = 1
  MaxActions = 3
  MaxSubmitted = 3
  MaxTick = 3
INVARIANTS SnapshotValid NoTrade DecidedInTime
CHECK_DEADLOCK FALSE
