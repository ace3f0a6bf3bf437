CONSTANTS
  ToolNames = {"read"}
  MaxAttempts = 2
  Scenarios <- Replayed
  PromptCounts <- OnePrompt
  QueueKinds <- AllQueues
SPECIFICATION HangingSpec
CHECK_DEADLOCK FALSE
PROPERTIES
  AbortEnds
