SPECIFICATION Spec
CONSTANTS
  None = None
  Pieces = 2
  ToolOf <- TwoTools
  MaxText = 1
  MaxWire = 2
  Wide = {FALSE}
  Styles <- AllStyles
  Lanes = {1, 2}
  Outputs <- Texts
  MaxOutput = 2
  MaxClock = 1
  MaxBranch = 6
  ResultSizes = {3, 12}
  Settings <- AllSettings
  FreshIds = TRUE
  Dirs <- AllDirs
  Chains <- AllChains
  ModelArgs <- Args
  OtherCalls <- AllOthers
  Content <- File
  Limits = {1, 2}
INVARIANTS
  TurnFaithful
  FailureSurfaces
  PostsJustified
  RequestPaired
  SplitCoherent
  GateClosed
  OutputReachable
  OfferedRuns
