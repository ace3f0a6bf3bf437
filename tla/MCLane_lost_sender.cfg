CONSTANTS
  ToolNames = {}
  MaxAttempts = 2
  Scenarios <- AbortOfTwo
  PromptCounts <- OnePrompt
  QueueKinds <- AllQueues
SPECIFICATION HangingSpec
CHECK_DEADLOCK FALSE
PROPERTIES
  AbortEnds
