CONSTANTS
  ToolNames = {"bash"}
  MaxAttempts = 2
  Scenarios <- Navigated
  PromptCounts <- OnePrompt
  QueueKinds <- AllQueues
SPECIFICATION Spec
CHECK_DEADLOCK FALSE
INVARIANTS
  RequestsPaired
