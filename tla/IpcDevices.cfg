SPECIFICATION Spec
CONSTANTS
  MaxVA = 3
  MaxHandle = 9
  MaxOwn = 2
  MaxImports = 1
  MaxExports = 2
  MaxEvents = 2
  Devs = {0, 1}
  Usages <- Normal
PROPERTY RoundTrip
CHECK_DEADLOCK FALSE
