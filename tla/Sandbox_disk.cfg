CONSTANTS
  Effects = {e1}
  Policies = {"a", "b"}
  NoPolicy = "none"
  MaxUses = 0
  MaxRotations = 0
  MaxBoots = 2
SPECIFICATION Spec
CHECK_DEADLOCK FALSE
INVARIANTS
  DiskMatches
