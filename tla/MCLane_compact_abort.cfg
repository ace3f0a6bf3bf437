CONSTANTS
  ToolNames = {}
  MaxAttempts = 2
  Scenarios <- CompactAbort
  PromptCounts <- OnePrompt
  QueueKinds <- AllQueues
SPECIFICATION Spec
CHECK_DEADLOCK FALSE
PROPERTIES
  CancelSticks
