SPECIFICATION FairSpec
CONSTANTS
  N = 2
  FirstId = 0
  Devices = {1}
  Setups <- Restarted
PROPERTIES CommandEnds PhaseComplete
