SPECIFICATION Spec
CONSTANTS
  Comms = {c1, c2}
  MaxRounds = 2
  MaxFaults = 3
  Circumstances <- CircumstanceType
INVARIANTS FrozenClean  Restored
CHECK_DEADLOCK FALSE
