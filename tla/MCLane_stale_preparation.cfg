CONSTANTS
  ToolNames = {}
  MaxAttempts = 2
  Scenarios <- CompactRace
  PromptCounts <- OnePrompt
  QueueKinds <- AllQueues
SPECIFICATION Spec
CHECK_DEADLOCK FALSE
INVARIANTS
  PreparedFromSource
