SPECIFICATION Spec
CONSTANTS
  Kinds = {"say"}
  ActionCap = 2
  UpdateCap = 2
  EventCap = 4
  MaxTexts = 6
  MaxKeys = 0
  MaxNoise = 0
INVARIANT NoStandoff
CHECK_DEADLOCK FALSE
