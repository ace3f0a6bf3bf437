CONSTANTS
  Effects = {e1, e2}
  Policies = {"a"}
  NoPolicy = "none"
  MaxUses = 2
  MaxRotations = 1
  MaxBoots = 1
SPECIFICATION FairSpec
CHECK_DEADLOCK FALSE
INVARIANTS
  NotStoppedUnderEffect
  NoOrphan
PROPERTIES
  IdleWindowKept
  SecretsFresh
  IdleMachineStops
  CancelReleases
