SPECIFICATION Spec
CONSTANTS
  MaxActionWindow = 3
  MaxActionBatch = 2
  ResendFirstSlots = 1
  Outcomes = {accepted, rejected}
  Departures = {"leave", "evict"}
  MaxActions = 4
  MaxInFlight = 1
SYMMETRY OutcomeSymmetry
INVARIANTS TypeOK NoHostFault DecidedOnce RetiredOnlyWhenGiven ResultsNeverRejected BatchesAdmissible Coherent
PROPERTY ServiceSpec
CHECK_DEADLOCK FALSE
