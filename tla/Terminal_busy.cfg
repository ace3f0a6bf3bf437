SPECIFICATION Spec
CONSTANTS
  Kinds = {"say"}
  ActionCap = 4
  UpdateCap = 12
  EventCap = 4
  MaxTexts = 2
  MaxKeys = 0
  MaxNoise = 1
INVARIANTS
  SteerWhileBusy
  IndicatorShowsRun
CHECK_DEADLOCK FALSE
