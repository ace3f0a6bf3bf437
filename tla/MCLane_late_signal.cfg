CONSTANTS
  ToolNames = {}
  MaxAttempts = 2
  Scenarios <- AbortOfTwo
  PromptCounts <- OnePrompt
  QueueKinds <- AllQueues
SPECIFICATION Spec
CHECK_DEADLOCK FALSE
INVARIANTS
  AbortedIsDurable
