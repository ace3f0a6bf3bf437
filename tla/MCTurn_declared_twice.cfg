SPECIFICATION Spec
CONSTANTS
  None = None
  Pieces = 2
  ToolOf <- TwoTools
  MaxText = 1
  MaxWire = 3
  Wide = {FALSE}
  Styles <- OneStyle
  Lanes = {1, 2}
  Outputs <- Texts
  MaxOutput = 2
  MaxClock = 1
  MaxBranch = 1
  ResultSizes = {3, 12}
  Settings <- AllSettings
  FreshIds = TRUE
  Dirs <- TwiceDeclared
  Chains <- NoChains
  ModelArgs <- Args
  OtherCalls <- AllOthers
  Content <- File
  Limits = {1, 2}
INVARIANT
  OfferedRuns
