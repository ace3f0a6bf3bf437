SPECIFICATION Spec
CONSTANTS
  Kinds = {"say", "side"}
  ActionCap = 4
  UpdateCap = 12
  EventCap = 4
  MaxTexts = 2
  MaxKeys = 1
  MaxNoise = 0
INVARIANT SideInterruptible
CHECK_DEADLOCK FALSE
