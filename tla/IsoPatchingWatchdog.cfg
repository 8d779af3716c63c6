SPECIFICATION Spec
CONSTANTS
  Jobs = {j1, j2}
CHECK_DEADLOCK FALSE
PROPERTIES
  WatchdogSparesPatch
