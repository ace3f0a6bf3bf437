SPECIFICATION FairSpec
CONSTANTS
  Kinds = {"say", "side", "compact"}
  ActionCap = 1
  UpdateCap = 1
  EventCap = 1
  MaxTexts = 2
  MaxKeys = 1
  MaxNoise = 1
INVARIANTS TextAccounted IndicatorClears
PROPERTY TextAnswered
CHECK_DEADLOCK FALSE
