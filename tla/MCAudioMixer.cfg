SPECIFICATION FairSpec
CONSTANTS
  Submitters = {1}
  ClipSlots = {1}
  Voices = {1, 2}
  Capacity = 2
  ClipFrames = 2
  MaxAhead = 1
  MaxBlock = 1
  MaxCommands = 4
  MaxReads = 1
INVARIANTS ReadsValid PlayheadExact
PROPERTIES UnloadsReturn
CHECK_DEADLOCK FALSE
