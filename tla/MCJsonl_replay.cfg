CONSTANTS
  Procs = {"p"}
  KeyCount = 2
  Transactions <- AllTransactions
  CompactDead = 2
  MaxCommits = 4
  MaxOpens = 3
  MaxTears = 2
SPECIFICATION Spec
CHECK_DEADLOCK FALSE
INVARIANTS
  FileIsTruth
  AppendSafe
  DeadWritesExact
