SPECIFICATION Spec
CONSTANTS
  Players = {1}
  MaximumHp = 2
  PartDamages = {1}
  MagazineCapacity = 3
  CooldownTicks = 2
  ReloadTicks = 1
  RespawnTicks = 1
  MaxShotHoldTicks = 2
  MaxShotStepLead = 2
  MaxActions = 3
  MaxSubmitted = 3
  MaxTick = 5
INVARIANT DocumentedBound
CHECK_DEADLOCK FALSE
