CONSTANTS
  Procs = {"p", "q"}
  KeyCount = 2
  Transactions <- RegisterTransactions
  CompactDead = 2
  MaxCommits = 3
  MaxOpens = 4
  MaxTears = 0
SPECIFICATION Spec
CHECK_DEADLOCK FALSE
INVARIANTS
  OneWriter
