CONSTANTS
  Effects = {e1}
  Policies = {"a"}
  NoPolicy = "none"
  MaxUses = 1
  MaxRotations = 1
  MaxBoots = 1
SPECIFICATION Spec
CHECK_DEADLOCK FALSE
PROPERTIES
  SecretsCurrent
