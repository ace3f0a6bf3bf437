CONSTANTS
  ToolNames = {}
  MaxAttempts = 2
  Scenarios <- Turns
  PromptCounts <- OnePrompt
  QueueKinds <- AllQueues
SPECIFICATION Spec
CHECK_DEADLOCK FALSE
INVARIANTS
  OneHome
  QueuedInputContinues
  AttemptsBounded
PROPERTIES
  CancelSticks
  NextRunKept
  ConversationGrows
