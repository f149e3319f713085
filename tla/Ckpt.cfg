SPECIFICATION FairSpec
CONSTANTS
  STAGING_BUF_SIZE = 3
  VMM_GRANULE_SIZE = 2
  FS_HEADER = 1
  SHM_SIZE = 13
  MAX_FILE_NUM = 4
  MaxBlocks = 4
  MaxSize = 5
  BlockLists <- MCBlockLists
INVARIANTS DumpedBeforeRelease NoOverwrite AssertsHold StaysInFile
PROPERTY Terminates
