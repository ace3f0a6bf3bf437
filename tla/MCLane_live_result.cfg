CONSTANTS
  ToolNames = {"bash"}
  MaxAttempts = 2
  Scenarios <- Steered
  PromptCounts <- OnePrompt
  QueueKinds <- AllQueues
SPECIFICATION Spec
CHECK_DEADLOCK FALSE
INVARIANTS
  LiveResultKept
