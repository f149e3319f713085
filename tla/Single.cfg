SPECIFICATION FairSpec
CONSTANTS
  Setups <- Working
  Devices = {1, 2}
PROPERTIES FreezeClean EndMeansDone CommandEnds
