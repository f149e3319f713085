SPECIFICATION Spec
CONSTANTS
  MaxVA = 3
  MaxHandle = 9
  MaxOwn = 2
  MaxImports = 2
  MaxExports = 2
  MaxEvents = 2
  Devs = {0}
  Usages <- Working
INVARIANTS TeardownComplete AliasValid ExportsValid ImportRecordsTrue LocalsTracked AccessKept
 
CHECK_DEADLOCK FALSE
