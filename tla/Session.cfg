CONSTANTS
  Clients = {c1, c2}
  Keys = {k1, k2}
  Capacity = 2
  MaxCommands = 4
SPECIFICATION FairSpec
CHECK_DEADLOCK FALSE
INVARIANTS
  TypeOK
  NoLostUpdate
  NeverGlued
  VersionsDistinct
PROPERTIES
  Answered
