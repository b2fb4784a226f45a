SPECIFICATION FairSpec
CONSTANTS
  MaxActionWindow = 3
  MaxActionBatch = 2
  ResendFirstSlots = 1
  Outcomes = {"accepted"}
  Departures = {}
  MaxActions = 4
  MaxInFlight = 1
PROPERTIES EveryActionCompletes Quiesces
CHECK_DEADLOCK FALSE
