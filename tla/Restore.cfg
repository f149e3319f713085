SPECIFICATION FairSpec
CONSTANTS
  STAGING_BUF_SIZE = 3
  VMM_GRANULE_SIZE = 2
  FS_HEADER = 1
  MaxFiles = 3
  MaxSize = 5
  Tables <- MCTables
INVARIANTS AssertsHold RestoredAll InFlightIntact
PROPERTY Terminates
