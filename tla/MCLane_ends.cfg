CONSTANTS
  ToolNames = {"bash"}
  MaxAttempts = 2
  Scenarios <- Ends
  PromptCounts <- OnePrompt
  QueueKinds <- AllQueues
SPECIFICATION HangingSpec
CHECK_DEADLOCK FALSE
PROPERTIES
  OperationEnds
  AbortEnds
