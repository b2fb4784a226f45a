SPECIFICATION Spec
CONSTANTS
  Addresses = {a, b}
  HelloInterval = 2
  Silence = 2
  Settings <- MCSettings
INVARIANTS SurvivesMove
PROPERTIES FollowsForward
SYMMETRY Symmetry
CHECK_DEADLOCK FALSE
