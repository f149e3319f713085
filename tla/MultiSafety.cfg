SPECIFICATION Spec
CONSTANTS
  N = 3
  FirstId = 0
  Devices = {1}
  Setups <- Working
INVARIANTS TeardownBeforeDump FreezeClean RestoreUnfrozen ExportBeforeImport PeersRestored
