CONSTANTS
  ToolNames = {"read", "bash"}
  MaxAttempts = 2
  Scenarios <- ToolTurns
  PromptCounts <- OnePrompt
  QueueKinds <- AllQueues
SPECIFICATION Spec
CHECK_DEADLOCK FALSE
INVARIANTS
  TypeOK
  AlwaysRestorable
  UnsafeToolOnce
  ResultsFollowCalls
  CallsPaired
PROPERTIES
  CancelledStartsNothing
  LaneImplementsLife
