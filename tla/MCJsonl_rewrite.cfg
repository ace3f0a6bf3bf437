CONSTANTS
  Procs = {"p"}
  KeyCount = 2
  Transactions <- AllTransactions
  CompactDead = 2
  MaxCommits = 3
  MaxOpens = 2
  MaxTears = 0
SPECIFICATION Spec
CHECK_DEADLOCK FALSE
INVARIANTS
  AlwaysReadable
