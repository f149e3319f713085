SPECIFICATION FdSpec
CONSTANTS
  N = 3
  MaxBuffers = 3
  IPC_MAX_EXPORTS_PER_PROC = 2
  UDS_MAX_FDS = 2
  LISTEN_BACKLOG = 0
  Exporters = {0, 1}
  Circumstances <- MCCircumstances
INVARIANTS SameMemory LossExplained AllBack
PROPERTIES NoGap ImportEnds
CHECK_DEADLOCK FALSE
