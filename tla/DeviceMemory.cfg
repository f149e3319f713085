SPECIFICATION Spec
CONSTANTS
  MaxSlot = 2
  MaxSize = 2
  MaxValue = 2
  MAX_SELECTIVE_REGIONS = 2
  SHM_SIZE = 3
  MAX_FILE_NUM = 3
INVARIANTS MapsAgree ParkedRecoverable ExitsOnFailure
PROPERTY Invisible
CHECK_DEADLOCK FALSE
