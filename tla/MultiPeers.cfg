SPECIFICATION Spec
CONSTANTS
  N = 2
  FirstId = 0
  Devices = {1}
  Setups <- Normal
INVARIANT SavedPeersRestored
