CONSTANTS
  ToolNames = {}
  MaxAttempts = 2
  Scenarios <- Written
  PromptCounts <- OnePrompt
  QueueKinds <- AllQueues
SPECIFICATION Spec
CHECK_DEADLOCK FALSE
INVARIANTS
  CompletedDropsNothing
